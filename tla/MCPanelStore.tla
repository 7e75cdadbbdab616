------------------------------ MODULE MCPanelStore -----------------------------
(***************************************************************************)
(* A small instance of PanelStore: one peer with an ACL rule and one host    *)
(* next to the scanner and a changing WireGuard.  The tables do not refer to *)
(* one another except through a peer's ACL rules, so the subnets and their   *)
(* exceptions are explored apart, with the packets they are about, in        *)
(* MCWholeGateway.                                                          *)
(***************************************************************************)
EXTENDS PanelStore

CONSTANTS p1, m1, a, b, r1

OnePeer  == {p1}
OneMac   == {m1}
TwoIps   == {a, b}
OneRule  == {r1}
None == {}

(* wg0 up or stopped, each peer listed, on a net of both addresses, or not. *)
WgUpDown == [Peers -> {{}, {[ip |-> a, net |-> {a, b}]}}]
================================================================================
