------------------------------ MODULE PanelStore -------------------------------
(***************************************************************************)
(* The panel's database and everything that edits it: the handlers of       *)
(* panel/app/routers/{peers,acl,hosts,lan_egress}.py, the 30-second LAN      *)
(* scanner, and render() of panel/app/services/applier.py, which reads the  *)
(* tables one SELECT at a time.  How an Apply puts the rendered texts into  *)
(* production, and how it can fail there, is module Applier; here an Apply  *)
(* either installs what it rendered or changes nothing.                     *)
(***************************************************************************)
EXTENDS Naturals, FiniteSets

CONSTANTS
    Peers,        \* WireGuard public keys
    Macs,         \* LAN hosts
    Ips,          \* IPv4 addresses
    Names,        \* host names a lease or the operator can give
    AclRules,     \* (dst_cidr, proto, dport, action) of an ACL rule
    Cidrs,        \* restricted subnets
    EgressRules,  \* (dst_cidr, proto, dport) of a LAN egress exception
    MaxId,        \* bound: rows ever inserted into each autoincrement table
    NoRow,        \* no such row
    NoName,       \* the empty host name
    PeerAddresses \* what `wg show` may list: functions [Peers -> SUBSET AllowedIps]

CONSTANTS
    ScanRuns,        \* the scanner finds hosts while the model runs
    EditDuringApply, \* handlers run while an Apply renders and installs
    WgChanges        \* WGDashboard edits peers, or wg0 goes down

ASSUME MaxIdAssumption == MaxId \in Nat
ASSUME NoRowAssumption == NoRow \notin BOOLEAN /\ NoName \notin Names

(* An IPv4 entry of a peer's AllowedIPs: the text before its slash, and the  *)
(* addresses it lets the peer send from.  `wg show` prints the first address *)
(* of the net before the slash.                                             *)
AllowedIps == {a \in [ip : Ips, net : SUBSET Ips] : a.ip \in a.net}
ASSUME AddressAssumption == PeerAddresses \subseteq [Peers -> SUBSET AllowedIps]
ASSUME SwitchesAssumption == {ScanRuns, EditDuringApply, WgChanges} \subseteq BOOLEAN

Ids == 1..MaxId

PeerRow   == [blocked : BOOLEAN, tor_routed : BOOLEAN]
HostRow   == [ip : Ips, hostname : Names \cup {NoName}, static : BOOLEAN,
              blocked : BOOLEAN, tor_routed : BOOLEAN]
AclRow    == [peer : Peers, rule : AclRules, enabled : BOOLEAN]
EgressRow == [rule : EgressRules, enabled : BOOLEAN]

VARIABLES
    peer_meta,               \* pubkey -> row
    internal_hosts,          \* mac -> row
    acl_rules,               \* id -> row
    lan_restricted_subnets,  \* cidr -> enabled
    lan_egress_rules,        \* id -> row
    sequence,                \* last id each autoincrement table has given
    dirty,                   \* settings.dirty
    pending,                 \* _pending_count > 0
    wg,                      \* what `wg show wg0 dump` lists: peer -> its AllowedIPs
    stage,                   \* the next step of the Apply that runs, or "idle"
    job,                     \* the part of the database that Apply has read
    live                     \* the texts production runs

tables  == <<peer_meta, internal_hosts, acl_rules, lan_restricted_subnets,
             lan_egress_rules, sequence>>
flags   == <<dirty, pending>>
applier == <<stage, job, live>>
vars    == <<tables, flags, wg, applier>>

Stages == {"idle", "meta", "hosts", "acl", "subnets", "egress", "install", "ok"}

(* Everything render() reads, as it is now. *)
Database ==
    [wg |-> wg, peer_meta |-> peer_meta, internal_hosts |-> internal_hosts,
     acl_rules |-> acl_rules, subnets |-> lan_restricted_subnets,
     egress |-> lan_egress_rules]

Rows(table) == {k \in DOMAIN table : table[k] # NoRow}
--------------------------------------------------------------------------------
(* _peer_ips_for: of each entry it keeps the text before the slash, so a    *)
(* peer that is allowed on a whole net is known by one address of it.       *)
IpsFor(p, allowed) == {a.ip : a \in allowed[p]}

(* render(), given what it read.  A peer that wg does not list contributes  *)
(* nothing.                                                                 *)
PeerIps(d, flag) ==
    UNION {IpsFor(p, d.wg) : p \in {q \in Rows(d.peer_meta) : d.peer_meta[q][flag]}}

HostIps(d, flag) ==
    {d.internal_hosts[m].ip :
       m \in {n \in Rows(d.internal_hosts) : d.internal_hosts[n][flag]}}

(* One line per address.  They are known by the id of their row, which is    *)
(* the order the template writes them in: the SELECT has no ORDER BY, and    *)
(* SQLite, with no index it could use for `WHERE enabled=1`, walks acl_rules *)
(* by rowid.                                                                *)
AclLines(d) ==
    {<<id, IpsFor(d.acl_rules[id].peer, d.wg), d.acl_rules[id].rule>> :
       id \in {i \in Rows(d.acl_rules) :
                 d.acl_rules[i].enabled /\ IpsFor(d.acl_rules[i].peer, d.wg) # {}}}

(* `WHERE enabled=1` is forgotten; used to show what the properties see. *)
LanAllowAll(d) == {d.egress[i].rule : i \in Rows(d.egress)}

LanAllow(d) == {d.egress[i].rule : i \in {j \in Rows(d.egress) : d.egress[j].enabled}}

NftText(d) ==
    [blocked_peers |-> PeerIps(d, "blocked"),
     tor_peers     |-> PeerIps(d, "tor_routed"),
     blocked_hosts |-> HostIps(d, "blocked"),
     tor_hosts     |-> HostIps(d, "tor_routed"),
     panel_forward |-> AclLines(d),
     lan_allow     |-> LanAllow(d),
     lan_drop      |-> {c \in Rows(d.subnets) : d.subnets[c]}]

DnsText(d) ==
    {<<m, d.internal_hosts[m].ip, d.internal_hosts[m].hostname>> :
       m \in {n \in Rows(d.internal_hosts) : d.internal_hosts[n].static}}

Texts(d) == [nft |-> NftText(d), dns |-> DnsText(d)]

(* dnsmasq refuses to start with one address reserved twice. *)
Startable(dns) == \A r, s \in dns : r[2] = s[2] => r = s

(* Nothing read yet. *)
NothingRead == [part \in {"wg", "peer_meta", "internal_hosts", "acl_rules",
                          "subnets", "egress"} |-> NoRow]
--------------------------------------------------------------------------------
(* init_db leaves empty tables; the first Apply has been made.              *)
Init ==
    /\ peer_meta = [p \in Peers |-> NoRow]
    /\ internal_hosts = [m \in Macs |-> NoRow]
    /\ acl_rules = [i \in Ids |-> NoRow]
    /\ lan_restricted_subnets = [c \in Cidrs |-> NoRow]
    /\ lan_egress_rules = [i \in Ids |-> NoRow]
    /\ sequence = [acl |-> 0, egress |-> 0]
    /\ dirty = FALSE
    /\ pending = FALSE
    /\ wg \in PeerAddresses
    /\ stage = "idle"
    /\ job = NothingRead
    /\ live = Texts(Database)

(* mark_dirty and an audit row that _pending_count counts, in the handler's *)
(* transaction; no handler touches the Apply that runs.                     *)
Mutation ==
    /\ EditDuringApply \/ stage = "idle"
    /\ dirty' = TRUE
    /\ pending' = TRUE
    /\ UNCHANGED <<wg, applier>>

Peer0 == [blocked |-> FALSE, tor_routed |-> FALSE]

Toggled(row, field) == [row EXCEPT ![field] = ~@]

(* Plausible mistakes in the handlers, used to show what the properties see. *)

(* The id is taken from the rows that exist, not from sqlite_sequence. *)
AddAclNoSequence(p, r) ==
    /\ sequence.acl < MaxId
    /\ peer_meta' = [peer_meta EXCEPT ![p] = IF @ = NoRow THEN Peer0 ELSE @]
    /\ acl_rules' = [acl_rules EXCEPT ![sequence.acl + 1] =
                       [peer |-> p, rule |-> r, enabled |-> TRUE]]
    /\ Mutation
    /\ UNCHANGED <<internal_hosts, lan_restricted_subnets, lan_egress_rules, sequence>>

(* toggle forgets mark_dirty and the audit row. *)
ToggleAclUnmarked(i) ==
    /\ EditDuringApply \/ stage = "idle"
    /\ acl_rules[i] # NoRow
    /\ acl_rules' = [acl_rules EXCEPT ![i] = Toggled(@, "enabled")]
    /\ UNCHANGED <<peer_meta, internal_hosts, lan_restricted_subnets,
                   lan_egress_rules, sequence, flags, wg, applier>>

(* set_ip forgets mark_dirty and the audit row. *)
SetHostIpUnmarked(m, ip) ==
    /\ EditDuringApply \/ stage = "idle"
    /\ internal_hosts' = IF internal_hosts[m] = NoRow THEN internal_hosts
         ELSE [internal_hosts EXCEPT ![m].ip = ip, ![m].static = TRUE]
    /\ UNCHANGED <<peer_meta, acl_rules, lan_restricted_subnets, lan_egress_rules,
                   sequence, flags, wg, applier>>

(* INSERT OR REPLACE INTO internal_hosts: a new row, default toggles. *)
UpsertReplaces(row, ip, name) ==
    [ip |-> ip, hostname |-> name, static |-> FALSE,
     blocked |-> FALSE, tor_routed |-> FALSE]
--------------------------------------------------------------------------------
(* routers/peers.py *)

(* toggle: a first toggle inserts the row with the field set. *)
TogglePeer(p, field) ==
    /\ peer_meta' = [peer_meta EXCEPT ![p] =
         IF @ = NoRow THEN [Peer0 EXCEPT ![field] = TRUE]
                      ELSE Toggled(@, field)]
    /\ Mutation
    /\ UNCHANGED <<internal_hosts, acl_rules, lan_restricted_subnets,
                   lan_egress_rules, sequence>>

(* set_label audits peer.label, which counts as pending, without mark_dirty. *)
SetLabel(p) ==
    /\ EditDuringApply \/ stage = "idle"
    /\ peer_meta' = [peer_meta EXCEPT ![p] = IF @ = NoRow THEN Peer0 ELSE @]
    /\ pending' = TRUE
    /\ UNCHANGED <<internal_hosts, acl_rules, lan_restricted_subnets,
                   lan_egress_rules, sequence, dirty, wg, applier>>

(* routers/acl.py *)

AddAcl(p, r) ==
    /\ sequence.acl < MaxId
    /\ peer_meta' = [peer_meta EXCEPT ![p] = IF @ = NoRow THEN Peer0 ELSE @]
    /\ sequence' = [sequence EXCEPT !.acl = @ + 1]
    /\ acl_rules' = [acl_rules EXCEPT ![sequence.acl + 1] =
                       [peer |-> p, rule |-> r, enabled |-> TRUE]]
    /\ Mutation
    /\ UNCHANGED <<internal_hosts, lan_restricted_subnets, lan_egress_rules>>

(* A rule that is gone by now answers 404 and changes nothing. *)
ToggleAcl(i) ==
    /\ acl_rules[i] # NoRow
    /\ acl_rules' = [acl_rules EXCEPT ![i] = Toggled(@, "enabled")]
    /\ Mutation
    /\ UNCHANGED <<peer_meta, internal_hosts, lan_restricted_subnets,
                   lan_egress_rules, sequence>>

DeleteAcl(i) ==
    /\ acl_rules[i] # NoRow
    /\ acl_rules' = [acl_rules EXCEPT ![i] = NoRow]
    /\ Mutation
    /\ UNCHANGED <<peer_meta, internal_hosts, lan_restricted_subnets,
                   lan_egress_rules, sequence>>

(* routers/lan_egress.py *)

(* Adding a subnet that is there enables it. *)
AddSubnet(c) ==
    /\ lan_restricted_subnets' = [lan_restricted_subnets EXCEPT ![c] = TRUE]
    /\ Mutation
    /\ UNCHANGED <<peer_meta, internal_hosts, acl_rules, lan_egress_rules, sequence>>

(* An UPDATE or DELETE of a row that is not there still marks and audits. *)
ToggleSubnet(c) ==
    /\ lan_restricted_subnets' = [lan_restricted_subnets EXCEPT ![c] =
                                    IF @ = NoRow THEN @ ELSE ~@]
    /\ Mutation
    /\ UNCHANGED <<peer_meta, internal_hosts, acl_rules, lan_egress_rules, sequence>>

DeleteSubnet(c) ==
    /\ lan_restricted_subnets' = [lan_restricted_subnets EXCEPT ![c] = NoRow]
    /\ Mutation
    /\ UNCHANGED <<peer_meta, internal_hosts, acl_rules, lan_egress_rules, sequence>>

AddEgress(r) ==
    /\ sequence.egress < MaxId
    /\ sequence' = [sequence EXCEPT !.egress = @ + 1]
    /\ lan_egress_rules' = [lan_egress_rules EXCEPT ![sequence.egress + 1] =
                              [rule |-> r, enabled |-> TRUE]]
    /\ Mutation
    /\ UNCHANGED <<peer_meta, internal_hosts, acl_rules, lan_restricted_subnets>>

ToggleEgress(i) ==
    /\ lan_egress_rules' = IF lan_egress_rules[i] = NoRow THEN lan_egress_rules
         ELSE [lan_egress_rules EXCEPT ![i] = Toggled(@, "enabled")]
    /\ Mutation
    /\ UNCHANGED <<peer_meta, internal_hosts, acl_rules, lan_restricted_subnets, sequence>>

DeleteEgress(i) ==
    /\ lan_egress_rules' = [lan_egress_rules EXCEPT ![i] = NoRow]
    /\ Mutation
    /\ UNCHANGED <<peer_meta, internal_hosts, acl_rules, lan_restricted_subnets, sequence>>

(* routers/hosts.py *)

(* One upsert of the scanner: an existing row keeps its toggles and its     *)
(* name, and takes the address that was seen.                               *)
Upsert(row, ip, name) ==
    IF row = NoRow
      THEN [ip |-> ip, hostname |-> name, static |-> FALSE,
            blocked |-> FALSE, tor_routed |-> FALSE]
      ELSE [row EXCEPT !.ip = ip,
                       !.hostname = IF @ = NoName THEN name ELSE @]

(* The timer's `cli scan` and POST /hosts/scan: neither marks dirty, and the *)
(* row host.scan is not counted.  Any set of hosts may have been seen, and   *)
(* the timer fires whatever an Apply is doing.                              *)
Scan ==
    /\ ScanRuns
    /\ \E seen \in SUBSET Macs :
         \E ip \in [seen -> Ips], name \in [seen -> Names \cup {NoName}] :
           internal_hosts' = [m \in Macs |->
             IF m \in seen THEN Upsert(internal_hosts[m], ip[m], name[m])
                           ELSE internal_hosts[m]]
    /\ UNCHANGED <<peer_meta, acl_rules, lan_restricted_subnets, lan_egress_rules,
                   sequence, flags, wg, applier>>

CreateHost(m, ip, name) ==
    /\ internal_hosts' = [internal_hosts EXCEPT ![m] =
         IF @ = NoRow THEN [ip |-> ip, hostname |-> name, static |-> TRUE,
                            blocked |-> FALSE, tor_routed |-> FALSE]
                      ELSE [@ EXCEPT !.ip = ip, !.hostname = name, !.static = TRUE]]
    /\ Mutation
    /\ UNCHANGED <<peer_meta, acl_rules, lan_restricted_subnets, lan_egress_rules, sequence>>

ToggleHost(m, field) ==
    /\ internal_hosts' = IF internal_hosts[m] = NoRow THEN internal_hosts
         ELSE [internal_hosts EXCEPT ![m] = Toggled(@, field)]
    /\ Mutation
    /\ UNCHANGED <<peer_meta, acl_rules, lan_restricted_subnets, lan_egress_rules, sequence>>

SetHostIp(m, ip) ==
    /\ internal_hosts' = IF internal_hosts[m] = NoRow THEN internal_hosts
         ELSE [internal_hosts EXCEPT ![m].ip = ip, ![m].static = TRUE]
    /\ Mutation
    /\ UNCHANGED <<peer_meta, acl_rules, lan_restricted_subnets, lan_egress_rules, sequence>>

(* The release of the host's lease that follows is in module LanHosts. *)
DeleteHost(m) ==
    /\ internal_hosts' = [internal_hosts EXCEPT ![m] = NoRow]
    /\ Mutation
    /\ UNCHANGED <<peer_meta, acl_rules, lan_restricted_subnets, lan_egress_rules, sequence>>

(* Drops every row; the helper then empties the reservations dnsmasq reads, *)
(* or fails and leaves only a message.                                      *)
ResetHosts ==
    /\ internal_hosts' = [m \in Macs |-> NoRow]
    /\ EditDuringApply \/ stage = "idle"
    /\ dirty' = TRUE
    /\ pending' = TRUE
    /\ live' \in {live, [live EXCEPT !.dns = {}]}
    /\ UNCHANGED <<peer_meta, acl_rules, lan_restricted_subnets, lan_egress_rules,
                   sequence, wg, stage, job>>
--------------------------------------------------------------------------------
(* render(), one read at a time. *)
Read(from, to, part) ==
    /\ stage = from
    /\ stage' = to
    /\ job' = [job EXCEPT ![part] = Database[part]]
    /\ UNCHANGED <<tables, flags, wg, live>>

ReadPeers   == Read("idle", "meta", "wg")
ReadMeta    == Read("meta", "hosts", "peer_meta")
ReadHosts   == Read("hosts", "acl", "internal_hosts")
ReadAcl     == Read("acl", "subnets", "acl_rules")
ReadSubnets == Read("subnets", "egress", "subnets")
ReadEgress  == Read("egress", "install", "egress")

(* Both services accept the texts and run them. *)
Commit ==
    /\ stage = "install"
    /\ Startable(DnsText(job))
    /\ live' = Texts(job)
    /\ stage' = "ok"
    /\ UNCHANGED <<tables, flags, wg, job>>

(* audit apply.ok and mark_clean. *)
Finish ==
    /\ stage = "ok"
    /\ dirty' = FALSE
    /\ pending' = FALSE
    /\ stage' = "idle"
    /\ job' = NothingRead
    /\ UNCHANGED <<tables, wg, live>>

(* The Apply fails after render() and leaves production as it was. *)
Abort ==
    /\ stage = "install"
    /\ stage' = "idle"
    /\ job' = NothingRead
    /\ UNCHANGED <<tables, flags, wg, live>>

(* WGDashboard adds, removes or renumbers peers; wg0 stopped lists none. *)
WgEdit ==
    /\ WgChanges
    /\ wg' \in PeerAddresses
    /\ UNCHANGED <<tables, flags, applier>>
--------------------------------------------------------------------------------
PeerHandlers ==
    \E p \in Peers :
      \/ \E field \in {"blocked", "tor_routed"} : TogglePeer(p, field)
      \/ SetLabel(p)
      \/ \E r \in AclRules : AddAcl(p, r)

AclHandlers == \E i \in Ids : ToggleAcl(i) \/ DeleteAcl(i)

EgressHandlers ==
    \/ \E c \in Cidrs : AddSubnet(c) \/ ToggleSubnet(c) \/ DeleteSubnet(c)
    \/ \E r \in EgressRules : AddEgress(r)
    \/ \E i \in Ids : ToggleEgress(i) \/ DeleteEgress(i)

HostHandlers ==
    \/ \E m \in Macs :
         \/ \E ip \in Ips, name \in Names \cup {NoName} : CreateHost(m, ip, name)
         \/ \E field \in {"blocked", "tor_routed", "static"} : ToggleHost(m, field)
         \/ \E ip \in Ips : SetHostIp(m, ip)
         \/ DeleteHost(m)
    \/ ResetHosts

Apply ==
    \/ ReadPeers \/ ReadMeta \/ ReadHosts \/ ReadAcl \/ ReadSubnets \/ ReadEgress
    \/ Commit \/ Finish \/ Abort

Next ==
    \/ PeerHandlers \/ AclHandlers \/ EgressHandlers \/ HostHandlers
    \/ Scan \/ Apply \/ WgEdit

Spec == Init /\ [][Next]_vars
--------------------------------------------------------------------------------
(* Every row has its columns' types, and no row has an id that its table's  *)
(* sequence has not given yet: an id is never given twice.                  *)
TypeOK ==
    /\ peer_meta \in [Peers -> PeerRow \cup {NoRow}]
    /\ internal_hosts \in [Macs -> HostRow \cup {NoRow}]
    /\ acl_rules \in [Ids -> AclRow \cup {NoRow}]
    /\ lan_restricted_subnets \in [Cidrs -> BOOLEAN \cup {NoRow}]
    /\ lan_egress_rules \in [Ids -> EgressRow \cup {NoRow}]
    /\ sequence \in [acl : 0..MaxId, egress : 0..MaxId]
    /\ \A i \in Rows(acl_rules) : i <= sequence.acl
    /\ \A i \in Rows(lan_egress_rules) : i <= sequence.egress
    /\ {dirty, pending} \subseteq BOOLEAN
    /\ wg \in PeerAddresses
    /\ stage \in Stages

(* Whatever an operator does, in whichever of the handlers: a step that     *)
(* changes what an Apply would render leaves the database marked dirty and  *)
(* with a change pending.  Two things are left to the operator to notice: a *)
(* peer WireGuard renumbers, and a row the scanner adds or moves.           *)
EditsArePending ==
    [][wg' = wg /\ ~(dirty' /\ pending') /\ Texts(Database') # Texts(Database) => Scan]_vars

(* With no Apply running and nothing pending, the gateway runs exactly what *)
(* the tables and WireGuard say now.  What the scanner writes and what       *)
(* WireGuard lists change without a mark: where they do, that part of the    *)
(* texts is excepted, and no other.                                         *)
EgressIsLive ==
    /\ live.nft.lan_allow = LanAllow(Database)
    /\ live.nft.lan_drop = NftText(Database).lan_drop

PeersAreLive ==
    /\ live.nft.blocked_peers = PeerIps(Database, "blocked")
    /\ live.nft.tor_peers = PeerIps(Database, "tor_routed")
    /\ live.nft.panel_forward = AclLines(Database)

HostsAreLive ==
    /\ live.nft.blocked_hosts = HostIps(Database, "blocked")
    /\ live.nft.tor_hosts = HostIps(Database, "tor_routed")
    /\ live.dns = DnsText(Database)

CleanMeansLive ==
    stage = "idle" /\ ~(dirty /\ pending) =>
      /\ EgressIsLive
      /\ WgChanges \/ PeersAreLive
      /\ ScanRuns \/ HostsAreLive

(* A blocked peer or host loses its block only by its own toggle, or with   *)
(* its row: adding an ACL rule, creating the host again, pinning it, or a   *)
(* scan that sees it never lifts the block as a side effect.                *)
UnblockIsDeliberate ==
    [][/\ \A p \in Rows(peer_meta) :
            peer_meta[p].blocked /\ ~peer_meta'[p].blocked =>
              /\ peer_meta' = [peer_meta EXCEPT ![p].blocked = FALSE]
              /\ UNCHANGED <<acl_rules, internal_hosts>>
       /\ \A m \in Rows(internal_hosts) \cap Rows(internal_hosts') :
            internal_hosts[m].blocked /\ ~internal_hosts'[m].blocked =>
              internal_hosts' = [internal_hosts EXCEPT ![m].blocked = FALSE]]_vars
================================================================================
