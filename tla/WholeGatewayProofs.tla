--------------------------- MODULE WholeGatewayProofs --------------------------
(***************************************************************************)
(* Theorems about WholeGateway: what the operator asked for is what becomes *)
(* of the packets, for any tables and any sequence of edits, Applies and    *)
(* traffic.                                                                 *)
(***************************************************************************)
EXTENDS WholeGateway, PanelStoreProofs

FwP == INSTANCE FirewallProofs WITH Confs <- Fragments, Loads <- TRUE

(* Both instances speak of the same packets and the same ruleset.           *)
LEMMA SamePackets ==
  /\ FwP!Traffic = Fw!Traffic
  /\ \A p : FwP!Established(p) = Fw!Established(p)
  /\ \A r, p : FwP!Matches(r, p) = Fw!Matches(r, p)
  BY DEF FwP!Traffic, Fw!Traffic, FwP!Packets, Fw!Packets, FwP!WellFormed, Fw!WellFormed,
     FwP!Established, Fw!Established, FwP!Flow, Fw!Flow, FwP!Matches, Fw!Matches,
     FwP!Addrs, Fw!Addrs, FwP!Inside, Fw!Inside, FwP!Protos, Fw!Protos

LEMMA SameFate == \A p : FwP!Fate(p) = Fw!Fate(p)
  BY DEF FwP!Fate, Fw!Fate, FwP!Redirect, Fw!Redirect, FwP!Marked, Fw!Marked,
     FwP!Entry, Fw!Entry, FwP!InputToTor, Fw!InputToTor, FwP!Iface, Fw!Iface,
     FwP!Input, Fw!Input, FwP!InputAnywhere, Fw!InputAnywhere, FwP!InputFromLan, Fw!InputFromLan,
     FwP!InputFromTunnel, Fw!InputFromTunnel, FwP!FromLan, Fw!FromLan,
     FwP!Established, Fw!Established, FwP!Flow, Fw!Flow,
     FwP!Forward, Fw!Forward, FwP!FirstVerdict, Fw!FirstVerdict, FwP!LeastOf, Fw!LeastOf,
     FwP!ForwardChain, Fw!ForwardChain, FwP!BaseForward, Fw!BaseForward,
     FwP!NetworkForward, Fw!NetworkForward, FwP!WireGuardForward, Fw!WireGuardForward,
     FwP!TorForward, Fw!TorForward, FwP!ForwardRules, Fw!ForwardRules, FwP!When, Fw!When,
     FwP!LanToWan, Fw!LanToWan, FwP!WgToLan, Fw!WgToLan, FwP!WgToWan, Fw!WgToWan,
     FwP!PanelForward, Fw!PanelForward, FwP!LanEgress, Fw!LanEgress, FwP!Matches, Fw!Matches
--------------------------------------------------------------------------------
(* The theorems of FirewallProofs rest on the assumptions of Firewall.  An   *)
(* instance takes them over, and they hold of this one.                     *)
LEMMA RulesetAssumptions ==
  /\ Hosts \cap PeerAddrs = {} /\ FwP!Inside \cap Remotes = {}
  /\ Gateway \notin FwP!Inside \cup Remotes
  /\ NoPort \notin Ports
  /\ \A c \in Fragments :
       /\ c.blocked_peers \subseteq PeerAddrs /\ c.tor_peers \subseteq PeerAddrs
       /\ c.blocked_hosts \subseteq Hosts /\ c.tor_hosts \subseteq Hosts
       /\ c.panel_forward \in Seq(FwP!Acl)
       /\ c.lan_allow \subseteq FwP!Allow
       /\ c.lan_drop \subseteq SUBSET FwP!Addrs
  /\ MaxConns \in Nat
  /\ {TorInstalled, Monitoring, ExposeOnWan, TRUE, RouteMayFlap} \subseteq BOOLEAN
<1>1. FwP!Inside = Inside /\ FwP!Addrs = Addrs
  BY DEF FwP!Inside, Inside, FwP!Addrs, Addrs
<1>2. FwP!Acl = AclLine /\ FwP!Allow = Exception
  BY <1>1 DEF FwP!Acl, AclLine, FwP!Allow, Exception
<1>3. Hosts \cap PeerAddrs = {} /\ Inside \cap Remotes = {}
      /\ Gateway \notin Inside \cup Remotes /\ NoPort \notin Ports
  BY GatewayAddressesAssumption
<1>4. ASSUME NEW c \in Fragments
      PROVE  /\ c.blocked_peers \subseteq PeerAddrs /\ c.tor_peers \subseteq PeerAddrs
             /\ c.blocked_hosts \subseteq Hosts /\ c.tor_hosts \subseteq Hosts
             /\ c.panel_forward \in Seq(AclLine)
             /\ c.lan_allow \subseteq Exception
             /\ c.lan_drop \subseteq SUBSET Addrs
  BY DEF Fragments
<1> QED
  BY <1>1, <1>2, <1>3, <1>4, KernelAssumption

(* What the ruleset does to the packets of this module.                     *)
LEMMA RulesetHolds ==
  ASSUME conf \in Fragments
  PROVE  /\ \A p \in Fw!Traffic :
               p.src \in conf.blocked_hosts \cup conf.blocked_peers /\ ~Fw!Established(p) =>
                 Fw!Fate(p) # "forward"
         /\ \A p \in Fw!Traffic :
               /\ TorInstalled /\ p.src \in conf.tor_hosts \cup conf.tor_peers
               /\ policyRoute \/ (~Fw!Established(p) /\ p.proto # "icmp")
               => Fw!Fate(p) # "forward"
         /\ \A p \in Fw!Traffic :
               /\ p.src \in Hosts /\ ~Fw!Established(p) /\ Fw!Fate(p) = "forward"
               /\ \E cidr \in conf.lan_drop : p.dst \in cidr
               => \E r \in conf.lan_allow : Fw!Matches(r, p)
<1>1. FwP!BlockWinsForNewFlows
  BY FwP!BlocksHold, RulesetAssumptions
<1>2. FwP!TorNeverLeaks
  BY FwP!TorHolds, RulesetAssumptions
<1>3. FwP!RestrictedSubnetsHold
  BY FwP!RestrictionsHold, RulesetAssumptions
<1> QED
  BY <1>1, <1>2, <1>3, SamePackets, SameFate
  DEF FwP!BlockWinsForNewFlows, FwP!TorNeverLeaks, FwP!RestrictedSubnetsHold

LEMMA RulesetDecides ==
  ASSUME conf \in Fragments, NEW p \in Fw!Traffic,
         p.src \in PeerAddrs \ (conf.blocked_peers \cup conf.tor_peers),
         p.dst \in Hosts, ~Fw!Established(p),
         NEW i \in DOMAIN conf.panel_forward,
         p.src \in conf.panel_forward[i].src /\ Fw!Matches(conf.panel_forward[i], p),
         \A j \in 1..(i - 1) : ~( /\ p.src \in conf.panel_forward[j].src
                                 /\ Fw!Matches(conf.panel_forward[j], p))
  PROVE  Fw!Fate(p) = IF conf.panel_forward[i].action = "accept" THEN "forward" ELSE "drop"
<1>1. FwP!FirstAclDecides
  BY FwP!AclsDecide, RulesetAssumptions
<1> QED
  BY <1>1, SamePackets, SameFate DEF FwP!FirstAclDecides
--------------------------------------------------------------------------------
(* What an Apply reads has the tables' types, and so has what it renders.   *)
NftTyped(n) ==
    /\ n.blocked_peers \subseteq Ips /\ n.tor_peers \subseteq Ips
    /\ n.blocked_hosts \subseteq Ips /\ n.tor_hosts \subseteq Ips
    /\ n.panel_forward \subseteq Ids \X (SUBSET Ips) \X AclRules
    /\ n.lan_allow \subseteq EgressRules
    /\ n.lan_drop \subseteq Cidrs

LEMMA IpsForTyped ==
  ASSUME NEW d, DbTyped(d), NEW p \in Peers PROVE IpsFor(p, d.wg) \subseteq Ips
  BY DEF DbTyped, IpsFor, AllowedIps

LEMMA PeerIpsTyped ==
  ASSUME NEW d, DbTyped(d), NEW flag PROVE PeerIps(d, flag) \subseteq Ips
  BY IpsForTyped DEF DbTyped, PeerIps, Rows

LEMMA HostIpsTyped ==
  ASSUME NEW d, DbTyped(d), NEW flag PROVE HostIps(d, flag) \subseteq Ips
<1> SUFFICES ASSUME NEW m \in Rows(d.internal_hosts) PROVE d.internal_hosts[m].ip \in Ips
  BY DEF HostIps
<1>1. d.internal_hosts[m] \in HostRow
  BY DEF DbTyped, Rows
<1> QED
  BY <1>1 DEF HostRow

LEMMA TextTyped ==
  ASSUME NEW d, DbTyped(d) PROVE NftTyped(NftText(d))
<1>1. AclLines(d) \subseteq Ids \X (SUBSET Ips) \X AclRules
  <2> SUFFICES ASSUME NEW i \in Rows(d.acl_rules)
               PROVE  <<i, IpsFor(d.acl_rules[i].peer, d.wg), d.acl_rules[i].rule>> \in Ids \X (SUBSET Ips) \X AclRules
    BY DEF AclLines
  <2>1. i \in Ids /\ d.acl_rules[i] \in AclRow
    BY DEF DbTyped, Rows
  <2> QED
    BY <2>1, IpsForTyped DEF AclRow
<1>2. LanAllow(d) \subseteq EgressRules
  <2> SUFFICES ASSUME NEW i \in Rows(d.egress) PROVE d.egress[i].rule \in EgressRules
    BY DEF LanAllow
  <2>1. d.egress[i] \in EgressRow
    BY DEF DbTyped, Rows
  <2> QED
    BY <2>1 DEF EgressRow
<1>3. {c \in Rows(d.subnets) : d.subnets[c]} \subseteq Cidrs
  BY DEF DbTyped, Rows
<1> QED
  BY <1>1, <1>2, <1>3, PeerIpsTyped, HostIpsTyped DEF NftText, NftTyped

(* A fragment of that type is one the ruleset takes.                        *)
LEMMA LineTyped ==
  ASSUME NEW n, NftTyped(n), NEW id \in Ids PROVE Line(n, id) \in AclLine
<1>1. NoLine \in AclLine
  BY DEF NoLine, AclLine
<1>2. ASSUME NEW l \in n.panel_forward
      PROVE  [src |-> l[2] \cap PeerAddrs, dst |-> l[3].dst, proto |-> l[3].proto,
              dport |-> l[3].dport, action |-> l[3].action] \in AclLine
  <2>1. l[3] \in AclRules
    BY DEF NftTyped
  <2>2. l[3] \in [dst : SUBSET Addrs, proto : {"tcp", "udp", "any"},
                  dport : Ports \cup {NoPort}, action : {"accept", "drop"}]
    BY <2>1, RulesAssumption
  <2> QED
    BY <2>2 DEF AclLine
<1>3. CASE \A l \in n.panel_forward : l[1] # id
  BY <1>1, <1>3 DEF Line
<1>4. CASE \E l \in n.panel_forward : l[1] = id
  <2>1. (CHOOSE k \in n.panel_forward : k[1] = id) \in n.panel_forward
    BY <1>4
  <2> QED
    BY <1>2, <1>4, <2>1 DEF Line
<1> QED
  BY <1>3, <1>4

LEMMA FragmentTyped ==
  ASSUME NEW n, NftTyped(n) PROVE Fragment(n) \in Fragments
<1>1. [id \in Ids |-> Line(n, id)] \in [1..MaxId -> AclLine]
  BY LineTyped DEF Ids
<1>2. [id \in Ids |-> Line(n, id)] \in Seq(AclLine)
  BY <1>1, MaxIdAssumption
<1>3. n.lan_allow \subseteq Exception /\ n.lan_drop \subseteq SUBSET Addrs
  BY RulesAssumption DEF NftTyped
<1> QED
  BY <1>2, <1>3 DEF Fragment, Fragments
--------------------------------------------------------------------------------
(* What runs is what an Apply made of rows of the tables' types, so that the *)
(* kernel always has a fragment the ruleset takes.                          *)
LiveTyped == DOMAIN live = {"nft", "dns"} /\ NftTyped(live.nft)

GatewayInv == TypeOK /\ JobTyped /\ LiveTyped /\ conf = Fragment(live.nft)

LEMMA LiveTypedStep ==
  ASSUME JobTyped, LiveTyped, [Next]_vars
  PROVE  LiveTyped'
<1>1. CASE live' = live
  BY <1>1 DEF LiveTyped
<1>2. CASE live' = [live EXCEPT !.dns = {}]
  BY <1>2 DEF LiveTyped
<1>3. CASE Commit
  <2>1. live' = Texts(job) /\ DbTyped(job)
    BY <1>3 DEF Commit, JobTyped, DbTyped
  <2>2. NftTyped(NftText(job))
    BY <2>1, TextTyped
  <2> QED
    BY <2>1, <2>2 DEF Texts, LiveTyped
<1>4. live' = live \/ live' = [live EXCEPT !.dns = {}] \/ Commit
  <2>1. CASE Handlers
    BY <2>1 DEF Handlers, ResetHosts, SetLabel, Mutation, TogglePeer, AddAcl, ToggleAcl, DeleteAcl,
       AddSubnet, ToggleSubnet, DeleteSubnet, AddEgress, ToggleEgress, DeleteEgress,
       CreateHost, ToggleHost, SetHostIp, DeleteHost, applier
  <2>2. CASE Scan \/ Apply \/ WgEdit \/ UNCHANGED vars
    BY <2>2 DEF Scan, WgEdit, applier, vars, Apply, ReadPeers, ReadMeta, ReadHosts, ReadAcl,
       ReadSubnets, ReadEgress, Read, Finish, Abort
  <2> QED
    BY <2>1, <2>2, NextIs
<1> QED
  BY <1>1, <1>2, <1>3, <1>4

LEMMA GatewaySteps == [GatewayNext]_<<vars, kernel>> => [Next]_vars
  BY DEF GatewayNext, PanelSteps, KernelSteps, kernel

LEMMA GatewayInvInit == GatewayInit => GatewayInv
<1> SUFFICES ASSUME GatewayInit PROVE GatewayInv
  OBVIOUS
<1>1. Init /\ conf = Fragment(live.nft)
  BY DEF GatewayInit
<1>2. TypeOK
  BY <1>1, TypeInit
<1>3. JobTyped
  BY <1>1 DEF Init, JobTyped, NothingRead, Parts
<1>4. live = Texts(Database) /\ NftTyped(NftText(Database))
  BY <1>1, <1>2, DatabaseTyped, TextTyped DEF Init
<1>5. LiveTyped
  BY <1>4 DEF LiveTyped, Texts
<1> QED
  BY <1>1, <1>2, <1>3, <1>5 DEF GatewayInv

LEMMA GatewayInvNext == GatewayInv /\ [GatewayNext]_<<vars, kernel>> => GatewayInv'
<1> SUFFICES ASSUME GatewayInv, [GatewayNext]_<<vars, kernel>> PROVE GatewayInv'
  OBVIOUS
<1>1. [Next]_vars
  BY GatewaySteps
<1>2. TypeOK' /\ JobTyped' /\ LiveTyped'
  BY <1>1, TypeStep, JobTypedStep, LiveTypedStep DEF GatewayInv
<1>3. conf' = Fragment(live'.nft)
  BY DEF GatewayInv, GatewayNext, PanelSteps, KernelSteps, kernel, vars, applier,
     Fw!Open, Fw!Expire, Fw!RouteFlaps
<1> QED
  BY <1>2, <1>3 DEF GatewayInv

LEMMA GatewayInvHolds == GatewaySpec => []GatewayInv
  BY GatewayInvInit, GatewayInvNext, PTL DEF GatewaySpec

LEMMA ConfIsFragment == GatewayInv => conf \in Fragments
  BY FragmentTyped DEF GatewayInv, LiveTyped
--------------------------------------------------------------------------------
(* The panel of the gateway is the panel of PanelStore: what packets do     *)
(* changes nothing the panel sees.                                          *)
THEOREM GatewayRunsThePanel == GatewaySpec => Spec
<1>1. GatewayInit => Init
  BY DEF GatewayInit
<1> QED
  BY <1>1, GatewaySteps, PTL DEF GatewaySpec, Spec

(* The kernel of the gateway is the kernel of Firewall: every fragment an    *)
(* Apply makes of the tables is one the ruleset's theorems speak of.        *)
THEOREM GatewayRunsTheRuleset == GatewaySpec => Fw!Spec
<1>1. GatewayInit => Fw!Init
  BY DEF GatewayInit
<1>2. GatewayInv' /\ [GatewayNext]_<<vars, kernel>> => [Fw!Next]_(Fw!vars)
  <2> SUFFICES ASSUME GatewayInv', [GatewayNext]_<<vars, kernel>> PROVE [Fw!Next]_(Fw!vars)
    OBVIOUS
  <2>1. CASE PanelSteps
    <3>1. conf' \in Fragments
      BY FragmentTyped DEF GatewayInv, LiveTyped
    <3> QED
      BY <2>1, <3>1 DEF PanelSteps, Fw!Load, Fw!Next
  <2>2. CASE KernelSteps
    BY <2>2 DEF KernelSteps, Fw!Next
  <2>3. CASE UNCHANGED <<vars, kernel>>
    BY <2>3 DEF kernel, Fw!vars
  <2> QED
    BY <2>1, <2>2, <2>3 DEF GatewayNext
<1> QED
  BY <1>1, <1>2, GatewayInvHolds, PTL DEF GatewaySpec, Fw!Spec
--------------------------------------------------------------------------------
(* An ACL row's line: its own if it is enabled and its peer has an address.  *)
LEMMA LineOfRow ==
  ASSUME PeersAreLive, NEW i \in Ids
  PROVE  Line(live.nft, i) =
           IF i \in Rows(acl_rules) /\ acl_rules[i].enabled /\ IpsFor(acl_rules[i].peer, wg) # {}
             THEN [src |-> IpsFor(acl_rules[i].peer, wg) \cap PeerAddrs,
                   dst |-> acl_rules[i].rule.dst, proto |-> acl_rules[i].rule.proto,
                   dport |-> acl_rules[i].rule.dport, action |-> acl_rules[i].rule.action]
             ELSE NoLine
<1> DEFINE lines   == AclLines(Database)
           Shown   == {j \in Rows(acl_rules) : acl_rules[j].enabled /\ IpsFor(acl_rules[j].peer, wg) # {}}
           Mine(j) == <<j, IpsFor(acl_rules[j].peer, wg), acl_rules[j].rule>>
<1>1. lines = {Mine(j) : j \in Shown}
  BY DEF AclLines, Database
<1>2. live.nft.panel_forward = lines
  BY DEF PeersAreLive
<1>3. \A j : Mine(j)[1] = j /\ Mine(j)[2] = IpsFor(acl_rules[j].peer, wg) /\ Mine(j)[3] = acl_rules[j].rule
  OBVIOUS
<1> HIDE DEF lines, Mine
<1>4. \A l \in lines : l = Mine(l[1]) /\ l[1] \in Shown
  BY <1>1, <1>3
<1>5. CASE i \in Shown
  <2>1. Mine(i) \in lines /\ Mine(i)[1] = i
    BY <1>1, <1>3, <1>5
  <2>2. /\ ~ \A l \in live.nft.panel_forward : l[1] # i
        /\ (CHOOSE k \in live.nft.panel_forward : k[1] = i) = Mine(i)
    BY <1>2, <1>4, <2>1
  <2>3. Line(live.nft, i) =
          [src |-> Mine(i)[2] \cap PeerAddrs, dst |-> Mine(i)[3].dst, proto |-> Mine(i)[3].proto,
           dport |-> Mine(i)[3].dport, action |-> Mine(i)[3].action]
    BY <2>2 DEF Line
  <2> QED
    BY <1>3, <1>5, <2>3
<1>6. CASE i \notin Shown
  <2>1. \A l \in lines : l[1] # i
    BY <1>4, <1>6
  <2> QED
    BY <1>2, <1>6, <2>1 DEF Line
<1> QED
  BY <1>5, <1>6

(* What a peer is allowed on, less what is overlooked, is what the panel     *)
(* takes for its addresses.                                                 *)
LEMMA NamedAddresses ==
  ASSUME TypeOK, NEW p \in Peers
  PROVE  AllowedOn(p) \ Overlooked(p) = IpsFor(p, wg)
<1>1. \A a \in wg[p] : a.ip \in a.net
  BY AddressAssumption DEF TypeOK, AllowedIps
<1> QED
  BY <1>1 DEF AllowedOn, Overlooked, IpsFor

LEMMA NamedPeers ==
  ASSUME TypeOK, ~WgChanges, NEW flag PROVE PeersWith(flag) = PeerIps(Database, flag)
<1>1. Rows(peer_meta) \subseteq Peers
  BY DEF TypeOK, Rows
<1> QED
  BY <1>1, NamedAddresses DEF PeersWith, PeerIps, Database

(* What an enabled row says of a packet, its line says.                     *)
LEMMA AclsAreObeyed ==
  ASSUME GatewayInv, ~WgChanges, ~ScanRuns, PeersAreLive, HostsAreLive
  PROVE  AclsObeyed
<1> SUFFICES ASSUME NEW p \in Fw!Traffic,
                    p.src \in PeerAddrs \ PeerIps(Database, "blocked"),
                    p.src \notin PeerIps(Database, "tor_routed") \cup HostIps(Database, "tor_routed"),
                    p.dst \in Hosts, ~Fw!Established(p),
                    NEW i \in AclsOf(p), \A j \in AclsOf(p) : i <= j
             PROVE  Fw!Fate(p) = IF acl_rules[i].rule.action = "accept" THEN "forward" ELSE "drop"
  BY NamedPeers DEF AclsObeyed, HostsWith, GatewayInv
<1>0. \A j \in Rows(acl_rules) : /\ j \in Ids /\ acl_rules[j].peer \in Peers
                                 /\ AllowedOn(acl_rules[j].peer) \ Overlooked(acl_rules[j].peer)
                                      = IpsFor(acl_rules[j].peer, wg)
  <2>1. \A j \in Rows(acl_rules) : j \in Ids /\ acl_rules[j] \in AclRow
    BY DEF GatewayInv, TypeOK, Rows
  <2>2. \A j \in Rows(acl_rules) : acl_rules[j].peer \in Peers
    BY <2>1 DEF AclRow
  <2> QED
    BY <2>1, <2>2, NamedAddresses DEF GatewayInv
<1>1. /\ i \in Ids /\ acl_rules[i].enabled /\ i \in Rows(acl_rules)
      /\ p.src \in IpsFor(acl_rules[i].peer, wg) /\ Fw!Matches(acl_rules[i].rule, p)
  BY <1>0 DEF AclsOf
<1>2. /\ conf.blocked_peers = live.nft.blocked_peers \cap PeerAddrs
      /\ conf.tor_peers = (live.nft.tor_peers \cup live.nft.tor_hosts) \cap PeerAddrs
      /\ conf.panel_forward = [j \in Ids |-> Line(live.nft, j)]
  BY DEF GatewayInv, Fragment
<1>3. p.src \in PeerAddrs \ (conf.blocked_peers \cup conf.tor_peers)
  BY <1>2 DEF PeersAreLive, HostsAreLive
<1>4. /\ conf.panel_forward[i].src = IpsFor(acl_rules[i].peer, wg) \cap PeerAddrs
      /\ conf.panel_forward[i].dst = acl_rules[i].rule.dst
      /\ conf.panel_forward[i].proto = acl_rules[i].rule.proto
      /\ conf.panel_forward[i].dport = acl_rules[i].rule.dport
      /\ conf.panel_forward[i].action = acl_rules[i].rule.action
  <2>1. conf.panel_forward[i] =
          [src |-> IpsFor(acl_rules[i].peer, wg) \cap PeerAddrs,
           dst |-> acl_rules[i].rule.dst, proto |-> acl_rules[i].rule.proto,
           dport |-> acl_rules[i].rule.dport, action |-> acl_rules[i].rule.action]
    BY <1>1, <1>2, LineOfRow
  <2> QED
    BY <2>1
<1>5. p.src \in conf.panel_forward[i].src /\ Fw!Matches(conf.panel_forward[i], p)
  BY <1>1, <1>4 DEF Fw!Matches
<1>6. ASSUME NEW j \in 1..(i - 1),
             p.src \in conf.panel_forward[j].src /\ Fw!Matches(conf.panel_forward[j], p)
      PROVE  FALSE
  <2>1. j \in Ids /\ ~(i <= j)
    BY <1>1, MaxIdAssumption DEF Ids
  <2>2. conf.panel_forward[j] = Line(live.nft, j)
    BY <1>2, <2>1
  <2>3. conf.panel_forward[j] # NoLine
    BY <1>6 DEF NoLine
  <2>4. /\ j \in Rows(acl_rules) /\ acl_rules[j].enabled
        /\ conf.panel_forward[j] =
             [src |-> IpsFor(acl_rules[j].peer, wg) \cap PeerAddrs,
              dst |-> acl_rules[j].rule.dst, proto |-> acl_rules[j].rule.proto,
              dport |-> acl_rules[j].rule.dport, action |-> acl_rules[j].rule.action]
    BY <2>1, <2>2, <2>3, LineOfRow
  <2>5. p.src \in IpsFor(acl_rules[j].peer, wg) /\ Fw!Matches(acl_rules[j].rule, p)
    BY <1>6, <2>4 DEF Fw!Matches
  <2>6. j \in AclsOf(p)
    BY <1>0, <2>4, <2>5 DEF AclsOf
  <2> QED
    BY <2>1, <2>6
<1>7. conf \in Fragments /\ i \in DOMAIN conf.panel_forward
  BY <1>1, <1>2, ConfIsFragment
<1> QED
  BY <1>3, <1>4, <1>5, <1>6, <1>7, RulesetDecides

(* What runs is what the tables say, and the ruleset does what runs.        *)
LEMMA LiveIsObeyed ==
  ASSUME GatewayInv, CleanMeansLive
  PROVE  IntentHolds
<1> SUFFICES ASSUME Settled PROVE /\ BlocksObeyed /\ TorObeyed /\ RestrictionsObeyed
                                  /\ ScanRuns \/ WgChanges \/ AclsObeyed
  BY DEF IntentHolds
<1>0. \A flag : PeersWith(flag) = IF WgChanges THEN {} ELSE PeerIps(Database, flag)
  BY NamedPeers DEF GatewayInv, PeersWith
<1>1. /\ EgressIsLive
      /\ WgChanges \/ PeersAreLive
      /\ ScanRuns \/ HostsAreLive
  BY DEF Settled, CleanMeansLive
<1>2. conf \in Fragments
  BY ConfIsFragment
<1>3. /\ conf.blocked_peers = live.nft.blocked_peers \cap PeerAddrs
      /\ conf.blocked_hosts = live.nft.blocked_hosts \cap Hosts
      /\ conf.tor_peers = (live.nft.tor_peers \cup live.nft.tor_hosts) \cap PeerAddrs
      /\ conf.tor_hosts = (live.nft.tor_peers \cup live.nft.tor_hosts) \cap Hosts
      /\ conf.lan_allow = live.nft.lan_allow /\ conf.lan_drop = live.nft.lan_drop
  BY DEF GatewayInv, Fragment
<1>4. BlocksObeyed
  <2>1. /\ HostsWith("blocked") \cap Hosts \subseteq conf.blocked_hosts
        /\ PeersWith("blocked") \cap PeerAddrs \subseteq conf.blocked_peers
    BY <1>0, <1>1, <1>3 DEF HostsWith, HostsAreLive, PeersAreLive
  <2> QED
    BY <1>2, <2>1, RulesetHolds DEF BlocksObeyed
<1>5. TorObeyed
  <2>1. HostsWith("tor_routed") \cup PeersWith("tor_routed")
          \subseteq live.nft.tor_peers \cup live.nft.tor_hosts
    BY <1>0, <1>1 DEF HostsWith, HostsAreLive, PeersAreLive
  <2>2. live.nft.tor_peers \cup live.nft.tor_hosts \subseteq Hosts \cup PeerAddrs
    BY InsideAssumption DEF GatewayInv, LiveTyped, NftTyped, Inside
  <2>3. HostsWith("tor_routed") \cup PeersWith("tor_routed") \subseteq conf.tor_hosts \cup conf.tor_peers
    BY <1>3, <2>1, <2>2
  <2> QED
    BY <1>2, <2>3, RulesetHolds DEF TorObeyed
<1>6. RestrictionsObeyed
  <2>1. /\ conf.lan_allow = {lan_egress_rules[i].rule :
                               i \in {j \in Rows(lan_egress_rules) : lan_egress_rules[j].enabled}}
        /\ conf.lan_drop = {c \in Rows(lan_restricted_subnets) : lan_restricted_subnets[c]}
    BY <1>1, <1>3 DEF EgressIsLive, LanAllow, NftText, Database
  <2> SUFFICES ASSUME NEW p \in Fw!Traffic, p.src \in Hosts, ~Fw!Established(p),
                      Fw!Fate(p) = "forward",
                      NEW c \in Rows(lan_restricted_subnets),
                      lan_restricted_subnets[c], p.dst \in c
               PROVE  \E i \in Rows(lan_egress_rules) :
                        lan_egress_rules[i].enabled /\ Fw!Matches(lan_egress_rules[i].rule, p)
    BY DEF RestrictionsObeyed
  <2>2. c \in conf.lan_drop
    BY <2>1
  <2>3. PICK r \in conf.lan_allow : Fw!Matches(r, p)
    BY <1>2, <2>2, RulesetHolds
  <2> QED
    BY <2>1, <2>3
<1>7. ScanRuns \/ WgChanges \/ AclsObeyed
  BY <1>1, AclsAreObeyed
<1> QED
  BY <1>4, <1>5, <1>6, <1>7
--------------------------------------------------------------------------------
(* Whatever was edited, scanned, applied or rejected before and whatever     *)
(* flows are open: once the panel counts nothing to apply, blocks, Tor       *)
(* routes, restricted subnets and ACL rows decide the packets as they stand *)
(* in the tables.  A peer is meant at every address WireGuard allows it on,  *)
(* save those a wider entry of AllowedIPs covers and none names              *)
(* (Overlooked): they escape.  It takes that no edit runs inside an Apply:   *)
(* without that it is false (FindEditDuringApply).                          *)
THEOREM IntentIsObeyed ==
  ASSUME ~EditDuringApply
  PROVE  GatewaySpec => []IntentHolds
<1>1. Spec => []CleanMeansLive
  BY CleanIsLive
<1>2. GatewayInv /\ CleanMeansLive => IntentHolds
  BY LiveIsObeyed
<1> QED
  BY <1>1, <1>2, GatewayRunsThePanel, GatewayInvHolds, PTL
================================================================================
