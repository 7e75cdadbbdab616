-------------------------------- MODULE Firewall -------------------------------
(***************************************************************************)
(* The ruleset the gateway runs: the static fragments the installer writes  *)
(* (modules/00-base.sh, 10-network.sh, 20-wireguard.sh, 30-tor.sh), the      *)
(* sets and chains the panel renders into 50-panel.nft                      *)
(* (panel/app/templates_cfg/nftables.j2), connection tracking, the policy   *)
(* route for marked packets, and what becomes of a packet.                  *)
(*                                                                         *)
(* A chain is a sequence of rule names in the order nft loads the fragments *)
(* (the glob of /etc/nftables.conf is sorted); the first rule that has an   *)
(* opinion decides.                                                         *)
(***************************************************************************)
EXTENDS Naturals, Sequences, FiniteSets

CONSTANTS
    Hosts,        \* addresses on the LAN
    PeerAddrs,    \* addresses of WireGuard peers
    Remotes,      \* addresses beyond the WAN
    Gateway,      \* the gateway itself
    Ports,        \* destination ports told apart: "ssh", "dns", "dhcp", "panel",
                  \* "wireguard", "metrics" (the exporter's), and others
    NoPort,       \* a rule without dport; the port of an ICMP packet
    Confs,        \* rendered fragments an Apply may load
    MaxConns,     \* bound: connections tracked at once
    TorInstalled, \* module 30-tor is installed
    Monitoring,   \* module 50-monitoring is installed
    ExposeOnWan,  \* [panel].expose_on_wan
    Loads,        \* an Apply may load another fragment while the model runs
    RouteMayFlap  \* the policy route comes up after the ruleset, or is removed

Protos == {"tcp", "udp", "icmp"}
Inside == Hosts \cup PeerAddrs
Addrs  == Inside \cup Remotes \cup {Gateway}

(* One line of panel_forward: the addresses of the peer, what it matches.   *)
Acl    == [src : SUBSET PeerAddrs, dst : SUBSET Addrs, proto : {"tcp", "udp", "any"},
           dport : Ports \cup {NoPort}, action : {"accept", "drop"}]
Allow  == [dst : SUBSET Addrs, proto : {"tcp", "udp", "any"}, dport : Ports \cup {NoPort}]

ASSUME AddressesAssumption ==
    /\ Hosts \cap PeerAddrs = {} /\ Inside \cap Remotes = {}
    /\ Gateway \notin Inside \cup Remotes
    /\ NoPort \notin Ports
ASSUME ConfsAssumption == \A c \in Confs :
    /\ c.blocked_peers \subseteq PeerAddrs /\ c.tor_peers \subseteq PeerAddrs
    /\ c.blocked_hosts \subseteq Hosts /\ c.tor_hosts \subseteq Hosts
    /\ c.panel_forward \in Seq(Acl)
    /\ c.lan_allow \subseteq Allow
    /\ c.lan_drop \subseteq SUBSET Addrs
ASSUME MaxConnsAssumption == MaxConns \in Nat
ASSUME SwitchesAssumption ==
    {TorInstalled, Monitoring, ExposeOnWan, Loads, RouteMayFlap} \subseteq BOOLEAN

VARIABLES
    conf,         \* the rendered fragment the kernel runs
    conns,        \* connection tracking: the flows it knows
    policyRoute   \* ip rule fwmark 0x1 lookup 100 is in place

vars == <<conf, conns, policyRoute>>

(* A packet names its flow by the originator's source and destination.      *)
Packets == [src : Addrs \ {Gateway}, dst : Addrs, proto : Protos,
            dport : Ports \cup {NoPort}, reply : BOOLEAN]

WellFormed(p) ==
    /\ p.src # p.dst
    /\ p.proto = "icmp" <=> p.dport = NoPort
    /\ p.reply => p.dst # Gateway

Iface(a) == IF a \in Hosts THEN "lan" ELSE IF a \in PeerAddrs THEN "wg" ELSE "wan"

Flow(p) == IF p.reply
             THEN [src |-> p.dst, dst |-> p.src, proto |-> p.proto, dport |-> p.dport]
             ELSE [src |-> p.src, dst |-> p.dst, proto |-> p.proto, dport |-> p.dport]

(* The entry of a flow records whether its first packet was redirected. *)
Entry(p, redirected) == [flow |-> Flow(p), redirected |-> redirected]

(* The replies of a redirected flow come from Tor on the gateway itself.     *)
Established(p) == \E c \in conns : c.flow = Flow(p) /\ (p.reply => ~c.redirected)
--------------------------------------------------------------------------------
(* acl_line and egress_line: without a port, "any" matches every protocol;  *)
(* with one it is rendered as a tcp and a udp line.                         *)
Matches(r, p) ==
    /\ p.dst \in r.dst
    /\ r.proto \in {"any", p.proto}
    /\ r.dport \in {NoPort, p.dport}

LeastOf(S) == CHOOSE i \in S : \A j \in S : i <= j

(* The first rule of a chain that has an opinion, or the chain's own end. *)
FirstVerdict(chain, verdict, end) ==
    LET hits == {i \in DOMAIN chain : verdict[chain[i]] # "continue"}
    IN  IF hits = {} THEN end ELSE verdict[chain[LeastOf(hits)]]

(* Plausible mistakes, used to show what the properties see. *)

(* lan_egress is jumped to before the blocked hosts are dropped. *)
NetworkForwardSwapped ==
    <<"lan_egress", "blocked_hosts", "lan_wan">>

(* An exception is rendered without its protocol and port. *)
LanEgressAllowsAll(c, p) ==
    IF \E r \in c.lan_allow : p.dst \in r.dst THEN "accept"
    ELSE IF \E cidr \in c.lan_drop : p.dst \in cidr THEN "drop"
    ELSE "continue"

(* The ACL lines are rendered newest first. *)
PanelForwardLast(c, p) ==
    LET hits == {i \in DOMAIN c.panel_forward :
                   p.src \in c.panel_forward[i].src /\ Matches(c.panel_forward[i], p)}
    IN  IF hits = {} THEN "continue"
        ELSE c.panel_forward[CHOOSE i \in hits : \A j \in hits : j <= i].action

(* The accept from WireGuard to the LAN forgets its iifname. *)
WgToLanFromAnywhere(p) == Iface(p.dst) = "lan"

(* The panel's port is opened on the LAN instead of on wg0. *)
InputFromTunnelForgotten(p) ==
    Iface(p.src) = "wg" /\ p.proto \in {"tcp", "udp"} /\ p.dport = "dns"

(* The accept rules of redirected packets name no interface. *)
InputToTorAnyIface(p) == IF Iface(p.src) # "wan" THEN "tor" ELSE "drop"

(* Only new connections are marked. *)
MarkedNewOnly(p) ==
    TorInstalled /\ p.src \in conf.tor_peers \cup conf.tor_hosts /\ ~Established(p)
--------------------------------------------------------------------------------
(* The panel's chains, jumped to; they return when nothing matches. *)
PanelForward(c, p) ==
    LET hits == {i \in DOMAIN c.panel_forward :
                   p.src \in c.panel_forward[i].src /\ Matches(c.panel_forward[i], p)}
    IN  IF hits = {} THEN "continue" ELSE c.panel_forward[LeastOf(hits)].action

(* Every exception is rendered before every restricted subnet. *)
LanEgress(c, p) ==
    IF \E r \in c.lan_allow : Matches(r, p) THEN "accept"
    ELSE IF \E cidr \in c.lan_drop : p.dst \in cidr THEN "drop"
    ELSE "continue"

(* 30-tor.nft, prerouting_mangle: every packet is marked by its source. *)
Marked(p) == TorInstalled /\ p.src \in conf.tor_peers \cup conf.tor_hosts
--------------------------------------------------------------------------------
When(test, verdict) == IF test THEN verdict ELSE "continue"
--------------------------------------------------------------------------------
(* chain forward, one fragment at a time.  The clamp of the segment size    *)
(* decides nothing; packets conntrack calls invalid are not modelled.       *)
BaseForward      == <<"established">>
NetworkForward   == <<"blocked_hosts", "lan_egress", "lan_wan">>
WireGuardForward == <<"blocked_peers_lan", "blocked_peers_wan", "panel_forward",
                      "wg_lan", "wg_wan">>
TorForward       == IF TorInstalled THEN <<"marked">> ELSE <<>>

ForwardChain == BaseForward \o NetworkForward \o WireGuardForward \o TorForward

FromLan(p) == Iface(p.src) = "lan"
LanToWan(p) == FromLan(p) /\ Iface(p.dst) = "wan"
WgToLan(p) == Iface(p.src) = "wg" /\ Iface(p.dst) = "lan"
WgToWan(p) == Iface(p.src) = "wg" /\ Iface(p.dst) = "wan"

ForwardRules(p) ==
    [established       |-> When(Established(p), "accept"),
     blocked_hosts     |-> When(FromLan(p) /\ p.src \in conf.blocked_hosts, "drop"),
     lan_egress        |-> IF FromLan(p) THEN LanEgress(conf, p) ELSE "continue",
     lan_wan           |-> When(LanToWan(p), "accept"),
     blocked_peers_lan |-> When(WgToLan(p) /\ p.src \in conf.blocked_peers, "drop"),
     blocked_peers_wan |-> When(WgToWan(p) /\ p.src \in conf.blocked_peers, "drop"),
     panel_forward     |-> IF WgToLan(p) THEN PanelForward(conf, p) ELSE "continue",
     wg_lan            |-> When(WgToLan(p), "accept"),
     wg_wan            |-> When(WgToWan(p), "accept"),
     marked            |-> When(Marked(p), "drop")]

Forward(p) == FirstVerdict(ForwardChain, ForwardRules(p), "drop")

(* chain input, for a packet to one of the gateway's own ports: every rule  *)
(* accepts, so their order does not matter.                                 *)
InputAnywhere(p) ==
    \/ p.proto = "icmp"
    \/ p.proto = "tcp" /\ p.dport = "ssh"
    \/ p.proto = "udp" /\ p.dport = "wireguard"
    \/ ExposeOnWan /\ Iface(p.src) = "wan" /\ p.proto = "tcp" /\ p.dport = "panel"

InputFromLan(p) ==
    /\ FromLan(p)
    /\ \/ p.proto = "udp" /\ p.dport \in {"dns", "dhcp"}
       \/ p.proto = "tcp" /\ p.dport = "dns"

InputFromTunnel(p) ==
    /\ Iface(p.src) = "wg"
    /\ \/ p.proto = "tcp" /\ p.dport \in {"panel", "dns"}
       \/ p.proto = "udp" /\ p.dport = "dns"
       \/ Monitoring /\ p.proto = "tcp" /\ p.dport = "metrics"

Input(p) ==
    IF Established(p) \/ InputAnywhere(p) \/ InputFromLan(p) \/ InputFromTunnel(p)
      THEN "accept" ELSE "drop"

(* chain input, for a packet redirected to Tor: the accept rules name the   *)
(* LAN interface, and Tor listens on the LAN address only.                  *)
InputToTor(p) == IF Iface(p.src) = "lan" THEN "tor" ELSE "drop"

(* prerouting_nat sees the first packet of a flow only; later packets follow *)
(* what conntrack recorded for it.                                           *)
Redirect(p) ==
    IF Established(p)
      THEN IF ~p.reply /\ Entry(p, TRUE) \in conns THEN "redirect" ELSE "continue"
    ELSE IF ~Marked(p) THEN "continue"
    ELSE IF p.proto = "tcp" \/ (p.proto = "udp" /\ p.dport = "dns") THEN "redirect"
    ELSE IF p.proto = "udp" THEN "drop"
    ELSE "continue"

(* What becomes of a packet: "forward", "local", "tor" or "drop".  A marked  *)
(* packet that was not redirected is delivered to the gateway by the local   *)
(* route of table 100, once the policy rule is there.                        *)
Fate(p) ==
    LET accepted(verdict, what) == IF verdict = "accept" THEN what ELSE "drop"
    IN  IF Redirect(p) = "drop" THEN "drop"
        ELSE IF Redirect(p) = "redirect" THEN InputToTor(p)
        ELSE IF p.dst = Gateway \/ (Marked(p) /\ policyRoute)
               THEN accepted(Input(p), "local")
        ELSE accepted(Forward(p), "forward")
--------------------------------------------------------------------------------
Init ==
    /\ conf \in Confs
    /\ conns = {}
    /\ policyRoute \in IF RouteMayFlap THEN BOOLEAN ELSE {TRUE}

(* `nft -f /etc/nftables.conf` replaces the whole ruleset; conntrack keeps   *)
(* the flows it knows.                                                       *)
Load ==
    /\ Loads
    /\ conf' \in Confs
    /\ UNCHANGED <<conns, policyRoute>>

(* The first packet of a flow that is not dropped creates its entry. *)
Open(p) ==
    /\ Cardinality(conns) < MaxConns
    /\ ~p.reply
    /\ ~Established(p)
    /\ Fate(p) # "drop"
    /\ conns' = conns \cup {Entry(p, Redirect(p) = "redirect")}
    /\ UNCHANGED <<conf, policyRoute>>

Expire(c) ==
    /\ conns' = conns \ {c}
    /\ UNCHANGED <<conf, policyRoute>>

(* gateway-tor-route.service starts after the ruleset is loaded, and its     *)
(* ExecStop removes the rule.                                                *)
RouteFlaps ==
    /\ RouteMayFlap
    /\ policyRoute' = ~policyRoute
    /\ UNCHANGED <<conf, conns>>

Traffic == {p \in Packets : WellFormed(p)}

Next ==
    \/ Load
    \/ \E p \in Traffic : Open(p)
    \/ \E c \in conns : Expire(c)
    \/ RouteFlaps

Spec == Init /\ [][Next]_vars
--------------------------------------------------------------------------------
(* Connection tracking holds flows of known addresses, and only a TCP or UDP *)
(* flow that a LAN host opened, with Tor installed, is ever redirected.      *)
TypeOK ==
    /\ conf \in Confs
    /\ conns \subseteq [flow : [src : Addrs \ {Gateway}, dst : Addrs, proto : Protos,
                                dport : Ports \cup {NoPort}], redirected : BOOLEAN]
    /\ \A c \in conns : c.redirected =>
         TorInstalled /\ c.flow.src \in Hosts /\ c.flow.proto \in {"tcp", "udp"}
    /\ Cardinality(conns) <= MaxConns
    /\ policyRoute \in BOOLEAN

(* "Hard block always wins" (10-network.sh:113, 20-wireguard.sh:144): no ACL *)
(* and no LAN exception opens a new forwarded flow for a blocked source.     *)
BlockWinsForNewFlows ==
    \A p \in Traffic :
      p.src \in conf.blocked_hosts \cup conf.blocked_peers /\ ~Established(p) =>
        Fate(p) # "forward"

(* A LAN host opens a flow into a restricted subnet only through an          *)
(* exception of the allow list (lan_egress.html, nftables.j2:88-91).         *)
RestrictedSubnetsHold ==
    \A p \in Traffic :
      /\ p.src \in Hosts /\ ~Established(p)
      /\ \E cidr \in conf.lan_drop : p.dst \in cidr
      /\ Fate(p) = "forward"
      => \E r \in conf.lan_allow : Matches(r, p)

(* For a peer that is not blocked nor sent to Tor, the ACL line with the     *)
(* lowest id that matches a packet to the LAN decides it.                    *)
FirstAclDecides ==
    \A p \in Traffic :
      /\ p.src \in PeerAddrs \ (conf.blocked_peers \cup conf.tor_peers)
      /\ p.dst \in Hosts /\ ~Established(p)
      => \A i \in DOMAIN conf.panel_forward :
           /\ p.src \in conf.panel_forward[i].src
           /\ Matches(conf.panel_forward[i], p)
           /\ \A j \in 1..(i - 1) : ~( /\ p.src \in conf.panel_forward[j].src
                                       /\ Matches(conf.panel_forward[j], p))
           => Fate(p) = IF conf.panel_forward[i].action = "accept" THEN "forward" ELSE "drop"

(* Nothing comes in from the WAN that nobody inside asked for: a packet from *)
(* a remote address is forwarded only as part of a flow an inside address    *)
(* opened, under this ruleset or an earlier one.                             *)
NoUnsolicitedInbound ==
    \A p \in Traffic :
      p.src \in Remotes /\ Fate(p) = "forward" =>
        p.reply /\ \E c \in conns : c.flow = Flow(p) /\ c.flow.src \in Inside

(* Tor is fail-closed: an address sent to Tor opens no TCP or UDP flow past  *)
(* the redirection, and with the policy route in place no packet of it is    *)
(* forwarded at all, not even one of a flow it opened in the clear before.   *)
TorNeverLeaks ==
    \A p \in Traffic :
      /\ TorInstalled
      /\ p.src \in conf.tor_hosts \cup conf.tor_peers
      /\ policyRoute \/ (~Established(p) /\ p.proto # "icmp")
      => Fate(p) # "forward"

(* Whatever the panel loads, a peer that is not sent to Tor keeps reaching    *)
(* the panel through the tunnel, blocked or not: an Apply cannot lock the     *)
(* operator out of undoing it.                                                *)
PanelStaysReachable ==
    \A p \in Traffic :
      /\ p.src \in PeerAddrs \ conf.tor_peers
      /\ p.dst = Gateway /\ p.proto = "tcp" /\ p.dport = "panel"
      => Fate(p) = "local"

(* README.md:193 "Without an explicit ACL, a peer can reach nothing on the   *)
(* LAN".                                                                     *)
LanNeedsAcl ==
    \A p \in Traffic :
      p.src \in PeerAddrs /\ p.dst \in Hosts /\ ~p.reply /\ Fate(p) = "forward" =>
        \E i \in DOMAIN conf.panel_forward :
          conf.panel_forward[i].action = "accept" /\ Matches(conf.panel_forward[i], p)
================================================================================
