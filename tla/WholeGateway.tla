------------------------------ MODULE WholeGateway -----------------------------
(***************************************************************************)
(* The panel and the kernel together: the operator edits tables, an Apply   *)
(* renders them (PanelStore), and packets meet the ruleset made of the      *)
(* fragment that runs (Firewall).  What the operator asked for is compared  *)
(* with what becomes of the packets.                                        *)
(***************************************************************************)
EXTENDS PanelStore, Sequences

CONSTANTS
    Hosts, PeerAddrs, Remotes, Gateway, Ports, NoPort,   \* see module Firewall
    MaxConns, TorInstalled, Monitoring, ExposeOnWan, RouteMayFlap

VARIABLES
    conf,               \* what the rendered fragment the kernel runs means to a packet
    conns, policyRoute  \* see module Firewall

kernel == <<conf, conns, policyRoute>>

Inside == Hosts \cup PeerAddrs
Addrs  == Inside \cup Remotes \cup {Gateway}

AclLine == [src : SUBSET PeerAddrs, dst : SUBSET Addrs, proto : {"tcp", "udp", "any"},
            dport : Ports \cup {NoPort}, action : {"accept", "drop"}]
Exception == [dst : SUBSET Addrs, proto : {"tcp", "udp", "any"}, dport : Ports \cup {NoPort}]

(* Fragments an Apply may load. *)
Fragments ==
    [blocked_peers : SUBSET PeerAddrs, tor_peers : SUBSET PeerAddrs,
     blocked_hosts : SUBSET Hosts, tor_hosts : SUBSET Hosts,
     panel_forward : Seq(AclLine), lan_allow : SUBSET Exception,
     lan_drop : SUBSET SUBSET Addrs]

ASSUME GatewayAddressesAssumption ==
    /\ Hosts \cap PeerAddrs = {} /\ Inside \cap Remotes = {}
    /\ Gateway \notin Inside \cup Remotes
    /\ NoPort \notin Ports
(* What handlers store of a rule: acl.add and lan_egress.add_rule normalise  *)
(* the destination, the protocol, the port and the action.                  *)
ASSUME RulesAssumption ==
    /\ AclRules \subseteq [dst : SUBSET Addrs, proto : {"tcp", "udp", "any"},
                         dport : Ports \cup {NoPort}, action : {"accept", "drop"}]
    /\ EgressRules \subseteq Exception
    /\ Cidrs \subseteq SUBSET Addrs
(* Leases, neighbours of the LAN interface and peers have inside addresses.  *)
(* The forms for a host take any IPv4 address: that an operator types one of *)
(* the LAN is assumed here and checked nowhere.                             *)
ASSUME InsideAssumption == Ips \subseteq Inside
ASSUME KernelAssumption ==
    MaxConns \in Nat /\ {TorInstalled, Monitoring, ExposeOnWan, RouteMayFlap} \subseteq BOOLEAN
--------------------------------------------------------------------------------
(* nftables.j2: what the rendered sets and lines mean to a packet.  The      *)
(* blocks are looked up next to an interface, so a peer's address among the  *)
(* blocked hosts blocks nothing; a mark is set by the address alone.        *)
NoLine == [src |-> {}, dst |-> {}, proto |-> "any", dport |-> NoPort, action |-> "drop"]

(* A row that is disabled, deleted or of an unlisted peer renders no line. *)
Line(n, id) ==
    IF \A l \in n.panel_forward : l[1] # id THEN NoLine
    ELSE LET l == CHOOSE k \in n.panel_forward : k[1] = id
         IN  [src |-> l[2] \cap PeerAddrs, dst |-> l[3].dst, proto |-> l[3].proto,
              dport |-> l[3].dport, action |-> l[3].action]

Fragment(n) ==
    [blocked_peers |-> n.blocked_peers \cap PeerAddrs,
     tor_peers     |-> (n.tor_peers \cup n.tor_hosts) \cap PeerAddrs,
     blocked_hosts |-> n.blocked_hosts \cap Hosts,
     tor_hosts     |-> (n.tor_peers \cup n.tor_hosts) \cap Hosts,
     panel_forward |-> [id \in Ids |-> Line(n, id)],
     lan_allow     |-> n.lan_allow,
     lan_drop      |-> n.lan_drop]

Fw == INSTANCE Firewall WITH Confs <- Fragments, Loads <- TRUE
--------------------------------------------------------------------------------
GatewayInit == Init /\ conf = Fragment(live.nft) /\ Fw!Init

(* A handler, a scan, WireGuard or a step of an Apply.  Loading a fragment   *)
(* leaves the flows the kernel knows and the policy route.                  *)
PanelSteps ==
    /\ Next
    /\ conf' = Fragment(live'.nft)
    /\ UNCHANGED <<conns, policyRoute>>

KernelSteps ==
    /\ UNCHANGED vars
    /\ \/ \E p \in Fw!Traffic : Fw!Open(p)
       \/ \E c \in conns : Fw!Expire(c)
       \/ Fw!RouteFlaps

GatewayNext == PanelSteps \/ KernelSteps

GatewaySpec == GatewayInit /\ [][GatewayNext]_<<vars, kernel>>
--------------------------------------------------------------------------------
(* No Apply runs, and the dashboard counts nothing to apply. *)
Settled == stage = "idle" /\ ~(dirty /\ pending)

(* Every address WireGuard lets a peer send from. *)
AllowedOn(p) == UNION {a.net : a \in wg[p]}

(* The exception for peers: an entry of more than one address is cut to the  *)
(* text before its slash (applier.py:43), so the other addresses of the net  *)
(* are in no set and no line, unless another entry names them.  The          *)
(* docstring (applier.py:35) speaks of "every IPv4 the peer is allowed on".  *)
Overlooked(p) == {x \in AllowedOn(p) : \A a \in wg[p] : x # a.ip}

(* The addresses a toggle speaks of now; what changes without a mark is left *)
(* out where it does change (CleanMeansLive).                               *)
HostsWith(flag) == IF ScanRuns THEN {} ELSE HostIps(Database, flag)
PeersWith(flag) ==
    IF WgChanges THEN {}
    ELSE UNION {AllowedOn(p) \ Overlooked(p) : p \in {q \in Rows(peer_meta) : peer_meta[q][flag]}}

BlocksObeyed ==
    \A p \in Fw!Traffic :
      /\ p.src \in (HostsWith("blocked") \cap Hosts) \cup (PeersWith("blocked") \cap PeerAddrs)
      /\ ~Fw!Established(p)
      => Fw!Fate(p) # "forward"

TorObeyed ==
    \A p \in Fw!Traffic :
      /\ TorInstalled
      /\ p.src \in HostsWith("tor_routed") \cup PeersWith("tor_routed")
      /\ policyRoute \/ (~Fw!Established(p) /\ p.proto # "icmp")
      => Fw!Fate(p) # "forward"

RestrictionsObeyed ==
    \A p \in Fw!Traffic :
      /\ p.src \in Hosts /\ ~Fw!Established(p) /\ Fw!Fate(p) = "forward"
      /\ \E c \in Rows(lan_restricted_subnets) : lan_restricted_subnets[c] /\ p.dst \in c
      => \E i \in Rows(lan_egress_rules) :
           lan_egress_rules[i].enabled /\ Fw!Matches(lan_egress_rules[i].rule, p)

(* The enabled rows of the sender's peer that match. *)
AclsOf(p) ==
    {i \in Rows(acl_rules) : /\ acl_rules[i].enabled
                             /\ LET q == acl_rules[i].peer
                                IN  p.src \in AllowedOn(q) \ Overlooked(q)
                             /\ Fw!Matches(acl_rules[i].rule, p)}

AclsObeyed ==
    \A p \in Fw!Traffic :
      /\ p.src \in PeerAddrs \ PeersWith("blocked")
      /\ p.src \notin PeersWith("tor_routed") \cup HostsWith("tor_routed")
      /\ p.dst \in Hosts /\ ~Fw!Established(p)
      => \A i \in AclsOf(p) :
           (\A j \in AclsOf(p) : i <= j) =>
             Fw!Fate(p) = IF acl_rules[i].rule.action = "accept" THEN "forward" ELSE "drop"

(* Whatever was edited, scanned, applied or rejected before, and whatever    *)
(* flows are still open from earlier rulesets: once nothing is pending, what *)
(* the tables say is what happens to new flows.  A blocked row forwards      *)
(* nothing, a Tor row leaks nothing, an enabled subnet is entered through an *)
(* enabled exception only, and the oldest enabled ACL row that matches has   *)
(* the word.  For a peer this holds at the addresses its AllowedIPs name,    *)
(* and not at those only a wider entry covers (Overlooked).                 *)
IntentHolds ==
    Settled =>
      /\ BlocksObeyed
      /\ TorObeyed
      /\ RestrictionsObeyed
      /\ ScanRuns \/ WgChanges \/ AclsObeyed
================================================================================
