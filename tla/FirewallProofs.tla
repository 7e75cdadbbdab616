---------------------------- MODULE FirewallProofs ----------------------------
(***************************************************************************)
(* What the ruleset does to a packet, for any addresses, any fragment the   *)
(* panel may load, any number of tracked connections and with the optional  *)
(* modules installed or not.                                                *)
(***************************************************************************)
EXTENDS Firewall, FiniteSetTheorems, TLAPS

(* What LeastOf returns.                                                    *)
LEMMA LeastOfIs ==
  ASSUME NEW S \in SUBSET Nat, NEW i \in S, \A j \in S : i <= j
  PROVE  LeastOf(S) = i
<1>1. \A k \in S : (\A j \in S : k <= j) => k = i
  OBVIOUS
<1>2. LeastOf(S) \in S /\ \A j \in S : LeastOf(S) <= j
  BY DEF LeastOf
<1> QED
  BY <1>1, <1>2

(* The first rule that has an opinion decides.                              *)
LEMMA FirstAt ==
  ASSUME NEW chain, NEW verdict, NEW end, DOMAIN chain \subseteq Nat,
         NEW i \in DOMAIN chain, verdict[chain[i]] # "continue",
         \A j \in DOMAIN chain : j < i => verdict[chain[j]] = "continue"
  PROVE  FirstVerdict(chain, verdict, end) = verdict[chain[i]]
<1> DEFINE hits == {j \in DOMAIN chain : verdict[chain[j]] # "continue"}
<1>1. hits \in SUBSET Nat /\ i \in hits /\ \A j \in hits : i <= j
  OBVIOUS
<1> HIDE DEF hits
<1>2. LeastOf(hits) = i
  BY <1>1, LeastOfIs
<1> QED
  BY <1>1, <1>2 DEF FirstVerdict, hits

(* A chain in which no rule has an opinion ends with its policy.            *)
LEMMA FirstNone ==
  ASSUME NEW chain, NEW verdict, NEW end,
         \A j \in DOMAIN chain : verdict[chain[j]] = "continue"
  PROVE  FirstVerdict(chain, verdict, end) = end
  BY DEF FirstVerdict

(* The chain in the order the fragments are loaded.                         *)
LEMMA ChainIs ==
  /\ DOMAIN ForwardChain = 1..(IF TorInstalled THEN 10 ELSE 9)
  /\ ForwardChain[1] = "established" /\ ForwardChain[2] = "blocked_hosts"
  /\ ForwardChain[3] = "lan_egress" /\ ForwardChain[4] = "lan_wan"
  /\ ForwardChain[5] = "blocked_peers_lan" /\ ForwardChain[6] = "blocked_peers_wan"
  /\ ForwardChain[7] = "panel_forward" /\ ForwardChain[8] = "wg_lan"
  /\ ForwardChain[9] = "wg_wan" /\ (TorInstalled => ForwardChain[10] = "marked")
  BY DEF ForwardChain, BaseForward, NetworkForward, WireGuardForward, TorForward

(* The forward chain, read as one decision.                                 *)
Decides(p) ==
    IF Established(p) THEN "accept"
    ELSE IF FromLan(p) /\ p.src \in conf.blocked_hosts THEN "drop"
    ELSE IF FromLan(p) /\ LanEgress(conf, p) # "continue" THEN LanEgress(conf, p)
    ELSE IF LanToWan(p) THEN "accept"
    ELSE IF (WgToLan(p) \/ WgToWan(p)) /\ p.src \in conf.blocked_peers THEN "drop"
    ELSE IF WgToLan(p) /\ PanelForward(conf, p) # "continue" THEN PanelForward(conf, p)
    ELSE IF WgToLan(p) \/ WgToWan(p) THEN "accept"
    ELSE "drop"

(* The ten rules, one after the other, amount to that.                      *)
LEMMA ForwardDecides ==
  ASSUME NEW p
  PROVE  Forward(p) = Decides(p)
<1> DEFINE c == ForwardChain
           v == ForwardRules(p)
           At(i) == v[c[i]]
<1>1. /\ At(1) = When(Established(p), "accept")
      /\ At(2) = When(FromLan(p) /\ p.src \in conf.blocked_hosts, "drop")
      /\ At(3) = IF FromLan(p) THEN LanEgress(conf, p) ELSE "continue"
      /\ At(4) = When(LanToWan(p), "accept")
      /\ At(5) = When(WgToLan(p) /\ p.src \in conf.blocked_peers, "drop")
      /\ At(6) = When(WgToWan(p) /\ p.src \in conf.blocked_peers, "drop")
      /\ At(7) = IF WgToLan(p) THEN PanelForward(conf, p) ELSE "continue"
      /\ At(8) = When(WgToLan(p), "accept")
      /\ At(9) = When(WgToWan(p), "accept")
      /\ TorInstalled => At(10) = When(Marked(p), "drop")
  BY ChainIs DEF ForwardRules
<1>2. DOMAIN c \subseteq Nat /\ 1..9 \subseteq DOMAIN c /\ DOMAIN c \subseteq 1..10
      /\ (10 \in DOMAIN c => TorInstalled)
  BY ChainIs
<1> HIDE DEF c, v
<1>3. \A i \in DOMAIN c :
        /\ v[c[i]] # "continue"
        /\ \A j \in DOMAIN c : j < i => v[c[j]] = "continue"
        => Forward(p) = v[c[i]]
  <2> SUFFICES ASSUME NEW i \in DOMAIN c, v[c[i]] # "continue",
                      \A j \in DOMAIN c : j < i => v[c[j]] = "continue"
               PROVE  Forward(p) = v[c[i]]
    OBVIOUS
  <2>1. FirstVerdict(c, v, "drop") = v[c[i]]
    BY <1>2, FirstAt
  <2> QED
    BY <2>1 DEF Forward, c, v
<1>4. (\A i \in DOMAIN c : v[c[i]] = "continue") => Forward(p) = "drop"
  BY FirstNone DEF Forward, c, v
<1> DEFINE Before(i) == \A j \in 1..(i - 1) : At(j) = "continue"
<1>5. \A i \in 1..9 : At(i) # "continue" /\ Before(i) => Forward(p) = At(i)
  BY <1>2, <1>3
<1>6. CASE \E i \in 1..4 : At(i) # "continue" /\ Before(i)
  BY <1>1, <1>5, <1>6 DEF Decides, When
<1>7. CASE \E i \in 5..9 : At(i) # "continue" /\ Before(i)
  BY <1>1, <1>5, <1>7 DEF Decides, When, LanToWan, WgToLan, WgToWan, FromLan
<1>8. CASE Before(10)
  <2>1. Forward(p) = "drop"
    <3>1. CASE 10 \in DOMAIN c /\ At(10) # "continue"
      BY <1>1, <1>2, <1>3, <1>8, <3>1 DEF When
    <3>2. CASE ~(10 \in DOMAIN c /\ At(10) # "continue")
      BY <1>2, <1>4, <1>8, <3>2
    <3> QED
      BY <3>1, <3>2
  <2> QED
    BY <1>1, <1>8, <2>1 DEF Decides, When
<1> QED
  BY <1>6, <1>7, <1>8
--------------------------------------------------------------------------------
(* Fate of a packet from an address of the LAN or of the tunnel.            *)
LEMMA Interfaces ==
  ASSUME NEW a
  PROVE  /\ a \in Hosts => Iface(a) = "lan"
         /\ a \in PeerAddrs => Iface(a) = "wg"
         /\ a \in Remotes \cup {Gateway} => Iface(a) = "wan"
  BY AddressesAssumption DEF Iface, Inside

(* The sets of a rendered fragment hold addresses of the right side.        *)
LEMMA ConfTyped ==
  ASSUME conf \in Confs
  PROVE  /\ conf.blocked_peers \subseteq PeerAddrs /\ conf.tor_peers \subseteq PeerAddrs
         /\ conf.blocked_hosts \subseteq Hosts /\ conf.tor_hosts \subseteq Hosts
         /\ conf.panel_forward \in Seq(Acl)
  BY ConfsAssumption

(* A packet is forwarded by the forward chain only, and unmarked or unrouted.*)
LEMMA Forwarded ==
  ASSUME NEW p, Fate(p) = "forward"
  PROVE  /\ Decides(p) = "accept" /\ p.dst # Gateway
         /\ ~(Marked(p) /\ policyRoute)
         /\ Redirect(p) = "continue"
  BY ForwardDecides DEF Fate, InputToTor, Redirect

(* A blocked source meets its drop before any accept but the established one.*)
LEMMA BlocksHold ==
  ASSUME conf \in Confs PROVE BlockWinsForNewFlows
<1> SUFFICES ASSUME NEW p \in Traffic, ~Established(p), Fate(p) = "forward",
                    p.src \in conf.blocked_hosts \cup conf.blocked_peers
             PROVE  FALSE
  BY DEF BlockWinsForNewFlows
<1>1. Decides(p) = "accept"
  BY Forwarded
<1>2. CASE p.src \in conf.blocked_hosts
  BY <1>1, <1>2, ConfTyped, Interfaces DEF Decides, FromLan
<1>3. CASE p.src \in conf.blocked_peers
  <2>1. Iface(p.src) = "wg"
    BY <1>3, ConfTyped, Interfaces
  <2> QED
    BY <1>1, <1>3, <2>1 DEF Decides, FromLan, LanToWan
<1> QED
  BY <1>2, <1>3

(* Past lan_egress, an accept for a restricted destination is an exception's.*)
LEMMA RestrictionsHold ==
  ASSUME conf \in Confs PROVE RestrictedSubnetsHold
<1> SUFFICES ASSUME NEW p \in Traffic, p.src \in Hosts, ~Established(p),
                    \E cidr \in conf.lan_drop : p.dst \in cidr,
                    Fate(p) = "forward"
             PROVE  \E r \in conf.lan_allow : Matches(r, p)
  BY DEF RestrictedSubnetsHold
<1>1. Decides(p) = "accept" /\ FromLan(p)
  BY Forwarded, Interfaces DEF FromLan
<1> QED
  BY <1>1 DEF Decides, LanEgress

(* A marked packet is redirected, dropped or delivered locally.             *)
LEMMA TorHolds ==
  ASSUME conf \in Confs PROVE TorNeverLeaks
<1> SUFFICES ASSUME NEW p \in Traffic, TorInstalled,
                    p.src \in conf.tor_hosts \cup conf.tor_peers,
                    policyRoute \/ (~Established(p) /\ p.proto # "icmp"),
                    Fate(p) = "forward"
             PROVE  FALSE
  BY DEF TorNeverLeaks
<1>1. Marked(p)
  BY DEF Marked
<1>2. ~Established(p) /\ p.proto # "icmp" /\ Redirect(p) = "continue"
  BY <1>1, Forwarded
<1>3. p.proto \in {"tcp", "udp"}
  BY <1>2 DEF Traffic, Packets, Protos
<1> QED
  BY <1>1, <1>2, <1>3 DEF Redirect

(* The line LeastOf picks is the one with no match below it.                *)
LEMMA LowestAcl ==
  ASSUME conf \in Confs, NEW p, NEW i \in DOMAIN conf.panel_forward,
         p.src \in conf.panel_forward[i].src /\ Matches(conf.panel_forward[i], p),
         \A j \in 1..(i - 1) : ~( /\ p.src \in conf.panel_forward[j].src
                                 /\ Matches(conf.panel_forward[j], p))
  PROVE  /\ PanelForward(conf, p) = conf.panel_forward[i].action
         /\ conf.panel_forward[i].action \in {"accept", "drop"}
<1> DEFINE acl  == conf.panel_forward
           hits == {j \in DOMAIN acl : p.src \in acl[j].src /\ Matches(acl[j], p)}
<1>1. acl \in Seq(Acl)
  BY ConfTyped
<1>2. DOMAIN acl \subseteq Nat \ {0} /\ acl[i] \in Acl
  BY <1>1
<1> HIDE DEF acl
<1>3. hits \in SUBSET Nat /\ i \in hits /\ \A j \in hits : i <= j
  BY <1>2 DEF acl
<1>4. LeastOf(hits) = i
  BY <1>3, LeastOfIs
<1>5. PanelForward(conf, p) = acl[i].action
  BY <1>3, <1>4 DEF PanelForward, acl
<1> QED
  BY <1>2, <1>5 DEF Acl, acl

(* An unmarked, unblocked peer's packet to the LAN meets its ACL first.     *)
LEMMA AclsDecide ==
  ASSUME conf \in Confs PROVE FirstAclDecides
<1> SUFFICES ASSUME NEW p \in Traffic,
                    p.src \in PeerAddrs \ (conf.blocked_peers \cup conf.tor_peers),
                    p.dst \in Hosts, ~Established(p),
                    NEW i \in DOMAIN conf.panel_forward,
                    p.src \in conf.panel_forward[i].src /\ Matches(conf.panel_forward[i], p),
                    \A j \in 1..(i - 1) : ~( /\ p.src \in conf.panel_forward[j].src
                                             /\ Matches(conf.panel_forward[j], p))
             PROVE  Fate(p) = IF conf.panel_forward[i].action = "accept" THEN "forward" ELSE "drop"
  BY DEF FirstAclDecides
<1>1. Iface(p.src) = "wg" /\ Iface(p.dst) = "lan" /\ p.dst # Gateway
  BY Interfaces, AddressesAssumption DEF Inside
<1>2. ~Marked(p)
  BY ConfTyped, AddressesAssumption DEF Marked
<1>3. Decides(p) = conf.panel_forward[i].action
  <2>1. /\ PanelForward(conf, p) = conf.panel_forward[i].action
        /\ conf.panel_forward[i].action \in {"accept", "drop"}
    BY LowestAcl
  <2> QED
    BY <1>1, <2>1 DEF Decides, FromLan, LanToWan, WgToLan
<1> QED
  BY <1>1, <1>2, <1>3, ForwardDecides DEF Fate, Redirect
--------------------------------------------------------------------------------
(* What connection tracking may hold.  A flow from beyond the WAN is one to *)
(* the gateway itself: that is why no reply can be forwarded to its opener. *)
Flows == [src : Addrs \ {Gateway}, dst : Addrs, proto : Protos, dport : Ports \cup {NoPort}]

Sound(c) ==
    /\ c \in [flow : Flows, redirected : BOOLEAN]
    /\ c.redirected => TorInstalled /\ c.flow.src \in Hosts /\ c.flow.proto \in {"tcp", "udp"}
    /\ c.flow.src \in Remotes => c.flow.dst = Gateway

FirewallInv ==
    /\ conf \in Confs
    /\ IsFiniteSet(conns) /\ Cardinality(conns) <= MaxConns
    /\ \A c \in conns : Sound(c)
    /\ policyRoute \in BOOLEAN

LEMMA InvInit == Init => FirewallInv
<1> SUFFICES ASSUME Init PROVE FirewallInv
  OBVIOUS
<1>1. conf \in Confs /\ conns = {} /\ policyRoute \in BOOLEAN
  BY DEF Init
<1>2. IsFiniteSet(conns) /\ Cardinality(conns) <= MaxConns
  BY <1>1, FS_EmptySet, MaxConnsAssumption
<1> QED
  BY <1>1, <1>2 DEF FirewallInv

(* What a first packet that is not dropped leaves in connection tracking.   *)
LEMMA OpensSound ==
  ASSUME FirewallInv, NEW p \in Traffic, ~p.reply, ~Established(p), Fate(p) # "drop"
  PROVE  Sound(Entry(p, Redirect(p) = "redirect"))
<1> DEFINE e == Entry(p, Redirect(p) = "redirect")
<1>1. e = [flow |-> [src |-> p.src, dst |-> p.dst, proto |-> p.proto, dport |-> p.dport],
           redirected |-> (Redirect(p) = "redirect")]
  BY DEF Entry, Flow
<1>2. p.src \in Addrs \ {Gateway} /\ p.dst \in Addrs /\ p.proto \in Protos
      /\ p.dport \in Ports \cup {NoPort}
  BY DEF Traffic, Packets
<1> HIDE DEF e
<1>3. e \in [flow : Flows, redirected : BOOLEAN]
  BY <1>1, <1>2 DEF Flows
<1>4. CASE Redirect(p) = "redirect"
  <2>1. Marked(p) /\ p.proto \in {"tcp", "udp"}
    BY <1>4 DEF Redirect
  <2>2. Iface(p.src) = "lan"
    BY <1>4 DEF Fate, InputToTor
  <2>3. TorInstalled /\ p.src \in Hosts
    BY <2>1, <2>2 DEF Marked, Iface
  <2>4. p.src \notin Remotes
    BY <2>3, AddressesAssumption DEF Inside
  <2> QED
    BY <1>1, <1>3, <2>1, <2>3, <2>4 DEF Sound, e
<1>5. CASE Redirect(p) # "redirect"
  <2>1. p.src \in Remotes => p.dst = Gateway
    <3> SUFFICES ASSUME p.src \in Remotes, p.dst # Gateway PROVE FALSE
      OBVIOUS
    <3>1. Iface(p.src) = "wan"
      BY Interfaces
    <3>2. ~Marked(p)
      BY ConfTyped, AddressesAssumption DEF FirewallInv, Marked, Inside
    <3>3. Decides(p) = "drop"
      BY <3>1 DEF Decides, FromLan, LanToWan, WgToLan, WgToWan
    <3> QED
      BY <1>5, <3>2, <3>3, ForwardDecides DEF Fate
  <2> QED
    BY <1>1, <1>3, <1>5, <2>1 DEF Sound, e
<1> QED
  BY <1>4, <1>5

LEMMA InvNext == FirewallInv /\ [Next]_vars => FirewallInv'
<1> SUFFICES ASSUME FirewallInv, [Next]_vars PROVE FirewallInv'
  OBVIOUS
<1>1. CASE Load
  BY <1>1 DEF Load, FirewallInv, Sound
<1>2. ASSUME NEW p \in Traffic, Open(p) PROVE FirewallInv'
  <2> DEFINE e == Entry(p, Redirect(p) = "redirect")
  <2>1. Sound(e)
    BY <1>2, OpensSound DEF Open
  <2>2. conns' = conns \cup {e} /\ Cardinality(conns) < MaxConns
    BY <1>2 DEF Open
  <2> HIDE DEF e
  <2>3. IsFiniteSet(conns') /\ Cardinality(conns') <= MaxConns
    <3>1. /\ IsFiniteSet(conns \cup {e})
          /\ Cardinality(conns \cup {e}) =
               IF e \in conns THEN Cardinality(conns) ELSE Cardinality(conns) + 1
      BY FS_AddElement DEF FirewallInv
    <3>2. Cardinality(conns) \in Nat
      BY FS_CardinalityType DEF FirewallInv
    <3> QED
      BY <2>2, <3>1, <3>2, MaxConnsAssumption
  <2> QED
    BY <1>2, <2>1, <2>2, <2>3 DEF Open, FirewallInv, Sound
<1>3. ASSUME NEW c \in conns, Expire(c) PROVE FirewallInv'
  <2>1. conns' = conns \ {c} /\ UNCHANGED <<conf, policyRoute>>
    BY <1>3 DEF Expire
  <2>2. IsFiniteSet(conns') /\ Cardinality(conns') = Cardinality(conns) - 1
    BY <2>1, FS_RemoveElement DEF FirewallInv
  <2>3. Cardinality(conns) \in Nat
    BY FS_CardinalityType DEF FirewallInv
  <2> QED
    BY <2>1, <2>2, <2>3, MaxConnsAssumption DEF FirewallInv, Sound
<1>4. CASE RouteFlaps
  BY <1>4 DEF RouteFlaps, FirewallInv, Sound
<1>5. CASE UNCHANGED vars
  BY <1>5 DEF vars, FirewallInv, Sound
<1> QED
  BY <1>1, <1>2, <1>3, <1>4, <1>5 DEF Next

LEMMA InvHolds == Spec => []FirewallInv
  BY InvInit, InvNext, PTL DEF Spec
--------------------------------------------------------------------------------
LEMMA TypesHold == FirewallInv => TypeOK
  BY DEF FirewallInv, Sound, Flows, TypeOK

(* Whoever beyond the WAN is answered was asked from inside.                *)
LEMMA InboundHolds == FirewallInv => NoUnsolicitedInbound
<1> SUFFICES ASSUME FirewallInv, NEW p \in Traffic, p.src \in Remotes, Fate(p) = "forward"
             PROVE  p.reply /\ \E c \in conns : c.flow = Flow(p) /\ c.flow.src \in Inside
  BY DEF NoUnsolicitedInbound
<1>1. p.dst \in Addrs /\ p.dst # Gateway /\ p.src # Gateway
  BY Forwarded, AddressesAssumption DEF Traffic, Packets
<1>2. Established(p)
  BY Forwarded, Interfaces DEF Decides, FromLan, LanToWan, WgToLan, WgToWan
<1>3. PICK c \in conns : c.flow = Flow(p)
  BY <1>2 DEF Established
<1>4. c.flow.src \in Remotes => c.flow.dst = Gateway
  BY DEF FirewallInv, Sound
<1>5. p.reply
  BY <1>1, <1>3, <1>4 DEF Flow
<1>6. c.flow.src = p.dst /\ c.flow.dst = p.src
  BY <1>3, <1>5 DEF Flow
<1> QED
  BY <1>1, <1>3, <1>4, <1>5, <1>6 DEF Addrs

(* No redirection is ever recorded for a peer.                              *)
LEMMA PanelHolds == FirewallInv => PanelStaysReachable
<1> SUFFICES ASSUME FirewallInv, NEW p \in Traffic, p.src \in PeerAddrs \ conf.tor_peers,
                    p.dst = Gateway, p.proto = "tcp", p.dport = "panel"
             PROVE  Fate(p) = "local"
  BY DEF PanelStaysReachable
<1>1. ~p.reply /\ p.src \notin Hosts
  BY AddressesAssumption DEF Traffic, WellFormed
<1>2. Entry(p, TRUE) \notin conns
  <2>1. Entry(p, TRUE).redirected /\ Entry(p, TRUE).flow.src = p.src
    BY <1>1 DEF Entry, Flow
  <2> QED
    BY <1>1, <2>1 DEF FirewallInv, Sound
<1>3. ~Marked(p)
  BY <1>1, ConfTyped DEF FirewallInv, Marked
<1>4. Redirect(p) = "continue"
  BY <1>2, <1>3 DEF Redirect
<1>5. Input(p) = "accept"
  BY Interfaces DEF Input, InputFromTunnel
<1> QED
  BY <1>4, <1>5 DEF Fate
--------------------------------------------------------------------------------
(* Connection tracking holds flows of known addresses, within the bound, and*)
(* only a flow a LAN host opened is ever redirected.                        *)
THEOREM TypeCorrect == Spec => []TypeOK
<1>1. FirewallInv => TypeOK
  BY TypesHold
<1> QED
  BY <1>1, InvHolds, PTL

(* No ACL line, no exception and no order of them lets a blocked address open*)
(* a forwarded flow.                                                        *)
THEOREM BlocksWin == Spec => []BlockWinsForNewFlows
<1>1. FirewallInv => BlockWinsForNewFlows
  BY BlocksHold DEF FirewallInv
<1> QED
  BY <1>1, InvHolds, PTL

(* No new flow of a LAN host reaches a restricted subnet past its exceptions.*)
THEOREM RestrictionsWin == Spec => []RestrictedSubnetsHold
<1>1. FirewallInv => RestrictedSubnetsHold
  BY RestrictionsHold DEF FirewallInv
<1> QED
  BY <1>1, InvHolds, PTL

(* However many ACL lines overlap, the lowest that matches decides.         *)
THEOREM LowestAclWins == Spec => []FirstAclDecides
<1>1. FirewallInv => FirstAclDecides
  BY AclsDecide DEF FirewallInv
<1> QED
  BY <1>1, InvHolds, PTL

(* Whatever rulesets came before, a packet from beyond the WAN is forwarded *)
(* only as a reply inside a flow that an inside address opened.             *)
THEOREM NothingComesInUnasked == Spec => []NoUnsolicitedInbound
<1>1. FirewallInv => NoUnsolicitedInbound
  BY InboundHolds
<1> QED
  BY <1>1, InvHolds, PTL

(* No flow an address opened before it was sent to Tor goes on in the clear *)
(* once the policy route is there, and no new one starts without it.        *)
THEOREM TorIsFailClosed == Spec => []TorNeverLeaks
<1>1. FirewallInv => TorNeverLeaks
  BY TorHolds DEF FirewallInv
<1> QED
  BY <1>1, InvHolds, PTL

(* Whatever the panel loads, the tunnel reaches the panel from every address*)
(* that is not sent to Tor.                                                 *)
THEOREM PanelIsReachable == Spec => []PanelStaysReachable
<1>1. FirewallInv => PanelStaysReachable
  BY PanelHolds
<1> QED
  BY <1>1, InvHolds, PTL
================================================================================
