----------------------------- MODULE MCWholeGateway ----------------------------
(***************************************************************************)
(* A small instance of WholeGateway: one address of the LAN, one of the      *)
(* tunnel and one outside, one peer whose AllowedIPs hold a net that covers  *)
(* the LAN too, an ACL rule that closes the host's web to it, one restricted *)
(* subnet and an exception for the web of it.                               *)
(***************************************************************************)
EXTENDS WholeGateway

CONSTANTS p1, h, wg1, r, gw

None      == {}
OnePeer   == {p1}
OneHost   == {h}
OneTunnel == {wg1}
OneRemote == {r}
HostAndTunnel == {h, wg1}
OnePort   == {"web"}

(* wg0 lists the peer on a net: wg1 before the slash, the LAN inside it.  A  *)
(* packet from h may be the peer's then, and the panel's sets miss it.      *)
WgSteady == {[p \in Peers |-> {[ip |-> wg1, net |-> {wg1, h}]}]}

NoWebToHost == {[dst |-> {h}, proto |-> "tcp", dport |-> "web", action |-> "drop"]}
OneSubnet   == {{r}}
WebOfRemote == {[dst |-> {r}, proto |-> "tcp", dport |-> "web"]}
================================================================================
