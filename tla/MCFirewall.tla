------------------------------- MODULE MCFirewall ------------------------------
(***************************************************************************)
(* Small instances of Firewall: one host, one peer and one remote address   *)
(* (the rules tell addresses apart only by set membership and interface),   *)
(* every combination of the four address sets, no ACL line or two that      *)
(* overlap, the wider one first or last, and restricted subnets with and    *)
(* without exceptions.                                                      *)
(***************************************************************************)
EXTENDS Firewall

CONSTANTS h1, p1, r1, gw

OneHost   == {h1}
OnePeer   == {p1}
OneRemote == {r1}

AllPorts == {"ssh", "dns", "dhcp", "panel", "wireguard", "metrics", "web"}

AclWeb  == [src |-> {p1}, dst |-> {h1}, proto |-> "tcp", dport |-> "web", action |-> "accept"]
AclDrop == [src |-> {p1}, dst |-> {h1}, proto |-> "any", dport |-> NoPort, action |-> "drop"]
AclDns  == [src |-> {p1}, dst |-> {h1}, proto |-> "any", dport |-> "dns", action |-> "accept"]

AllowWeb == [dst |-> {r1}, proto |-> "tcp", dport |-> "web"]
AllowPeer == [dst |-> {p1}, proto |-> "any", dport |-> NoPort]

Fragment(bp, tp, bh, th, acl, allow, restricted) ==
    [blocked_peers |-> bp, tor_peers |-> tp, blocked_hosts |-> bh, tor_hosts |-> th,
     panel_forward |-> acl, lan_allow |-> allow, lan_drop |-> restricted]

(* ACL lines speak of the tunnel and the exceptions of the LAN, so one list   *)
(* of each goes together.                                                   *)
AllConfs ==
    {Fragment(bp, tp, bh, th, lists[1], lists[2], lists[3]) :
       bp \in SUBSET {p1}, tp \in SUBSET {p1}, bh \in SUBSET {h1}, th \in SUBSET {h1},
       lists \in {<<<<>>, {}, {}>>,
                 <<<<AclDrop, AclWeb>>, {}, {{r1}, {p1}}>>,
                 <<<<AclDns, AclDrop>>, {AllowWeb, AllowPeer}, {{r1}, {p1}}>>}}
================================================================================
