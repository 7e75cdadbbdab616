---------------------------- MODULE PanelStoreProofs ----------------------------
(***************************************************************************)
(* Theorems about PanelStore, for any peers, hosts, rules and addresses.    *)
(***************************************************************************)
EXTENDS PanelStore, TLAPS

(* The actions, without their grouping. *)
Handlers ==
    \/ \E p \in Peers :
         \/ \E field \in {"blocked", "tor_routed"} : TogglePeer(p, field)
         \/ SetLabel(p)
         \/ \E r \in AclRules : AddAcl(p, r)
    \/ \E i \in Ids : ToggleAcl(i) \/ DeleteAcl(i)
    \/ \E c \in Cidrs : AddSubnet(c) \/ ToggleSubnet(c) \/ DeleteSubnet(c)
    \/ \E r \in EgressRules : AddEgress(r)
    \/ \E i \in Ids : ToggleEgress(i) \/ DeleteEgress(i)
    \/ \E m \in Macs :
         \/ \E ip \in Ips, name \in Names \cup {NoName} : CreateHost(m, ip, name)
         \/ \E field \in {"blocked", "tor_routed", "static"} : ToggleHost(m, field)
         \/ \E ip \in Ips : SetHostIp(m, ip)
         \/ DeleteHost(m)
    \/ ResetHosts

LEMMA NextIs == [Next]_vars => Handlers \/ Scan \/ Apply \/ WgEdit \/ UNCHANGED vars
  BY DEF Next, PeerHandlers, AclHandlers, EgressHandlers, HostHandlers, Handlers
--------------------------------------------------------------------------------
(* A handler changes one or two tables, and marks what it changed, apart     *)
(* from the label of a peer.                                                *)
Marks == dirty' = TRUE /\ pending' = TRUE

LEMMA HandlersMark ==
  ASSUME Handlers
  PROVE  /\ wg' = wg /\ UNCHANGED <<stage, job>>
         /\ EditDuringApply \/ stage = "idle"
         /\ Marks \/ \E p \in Peers : SetLabel(p)
<1>1. CASE ResetHosts
  BY <1>1 DEF ResetHosts, Marks
<1>2. CASE \E p \in Peers : SetLabel(p)
  BY <1>2 DEF SetLabel, applier
<1>3. CASE Mutation
  BY <1>3 DEF Mutation, Marks, applier
<1>4. Mutation \/ ResetHosts \/ \E p \in Peers : SetLabel(p)
  BY DEF Handlers, TogglePeer, AddAcl, ToggleAcl, DeleteAcl, AddSubnet, ToggleSubnet, DeleteSubnet,
         AddEgress, ToggleEgress, DeleteEgress, CreateHost, ToggleHost, SetHostIp, DeleteHost
<1> QED
  BY <1>1, <1>2, <1>3, <1>4

(* A label adds at most a row that renders to nothing.                      *)
LEMMA LabelsRenderNothing ==
  ASSUME peer_meta \in [Peers -> PeerRow \cup {NoRow}], NEW p \in Peers, SetLabel(p)
  PROVE  Texts(Database)' = Texts(Database)
<1>1. /\ UNCHANGED <<wg, internal_hosts, acl_rules, lan_restricted_subnets, lan_egress_rules>>
      /\ peer_meta' = [peer_meta EXCEPT ![p] = IF @ = NoRow THEN Peer0 ELSE @]
  BY DEF SetLabel
<1>2. ASSUME NEW flag \in {"blocked", "tor_routed"}
      PROVE  {q \in Rows(peer_meta') : peer_meta'[q][flag]} = {q \in Rows(peer_meta) : peer_meta[q][flag]}
  <2>1. CASE peer_meta[p] # NoRow
    BY <1>1, <2>1
  <2>2. CASE peer_meta[p] = NoRow
    <3>1. peer_meta'[p] = Peer0 /\ ~Peer0[flag] /\ \A q \in Peers \ {p} : peer_meta'[q] = peer_meta[q]
      BY <1>1, <2>2 DEF Peer0
    <3>2. DOMAIN peer_meta = Peers /\ DOMAIN peer_meta' = Peers
      BY <1>1
    <3> QED
      BY <2>2, <3>1, <3>2 DEF Rows
  <2> QED
    BY <2>1, <2>2
<1>3. \A flag \in {"blocked", "tor_routed"} : PeerIps(Database', flag) = PeerIps(Database, flag)
  <2> SUFFICES ASSUME NEW flag \in {"blocked", "tor_routed"}
               PROVE  PeerIps(Database', flag) = PeerIps(Database, flag)
    OBVIOUS
  <2>1. /\ Database'.wg = wg /\ Database'.peer_meta = peer_meta'
        /\ Database.wg = wg /\ Database.peer_meta = peer_meta
    BY <1>1 DEF Database
  <2>2. {q \in Rows(peer_meta') : peer_meta'[q][flag]} = {q \in Rows(peer_meta) : peer_meta[q][flag]}
    BY <1>2
  <2> QED
    BY <2>1, <2>2 DEF PeerIps
<1>4. \A flag \in {"blocked", "tor_routed"} : HostIps(Database', flag) = HostIps(Database, flag)
  BY <1>1 DEF HostIps, Database
<1>5. AclLines(Database') = AclLines(Database) /\ DnsText(Database') = DnsText(Database)
  BY <1>1 DEF AclLines, DnsText, Database
<1>6. NftText(Database') = NftText(Database)
  BY <1>1, <1>3, <1>4, <1>5 DEF NftText, LanAllow, Database
<1> QED
  BY <1>5, <1>6 DEF Texts
--------------------------------------------------------------------------------
Others == Apply \/ WgEdit \/ UNCHANGED vars

LEMMA OthersKeep == ASSUME Others PROVE UNCHANGED tables
  BY DEF Others, Apply, ReadPeers, ReadMeta, ReadHosts, ReadAcl, ReadSubnets, ReadEgress, Read,
         Commit, Finish, Abort, WgEdit, vars

LEMMA PeersTypes ==
  ASSUME TypeOK, Handlers \/ Scan \/ Others
  PROVE  peer_meta' \in [Peers -> PeerRow \cup {NoRow}]
<1>1. CASE UNCHANGED peer_meta
  BY <1>1 DEF TypeOK
<1>2. ASSUME NEW p \in Peers, NEW field \in {"blocked", "tor_routed"}, TogglePeer(p, field)
      PROVE  peer_meta' \in [Peers -> PeerRow \cup {NoRow}]
  <2>1. [Peer0 EXCEPT ![field] = TRUE] \in PeerRow
    BY DEF Peer0, PeerRow
  <2>2. \A row \in PeerRow : Toggled(row, field) \in PeerRow
    BY DEF PeerRow, Toggled
  <2>3. \/ peer_meta' = [peer_meta EXCEPT ![p] = [Peer0 EXCEPT ![field] = TRUE]]
        \/ /\ peer_meta[p] # NoRow
           /\ peer_meta' = [peer_meta EXCEPT ![p] = Toggled(peer_meta[p], field)]
    <3>1. CASE peer_meta[p] = NoRow
      BY <1>2, <3>1 DEF TogglePeer
    <3>2. CASE peer_meta[p] # NoRow
      BY <1>2, <3>2 DEF TogglePeer
    <3> QED
      BY <3>1, <3>2
  <2>4. peer_meta \in [Peers -> PeerRow \cup {NoRow}]
    BY DEF TypeOK
  <2>5. CASE peer_meta[p] # NoRow /\ peer_meta' = [peer_meta EXCEPT ![p] = Toggled(peer_meta[p], field)]
    <3>1. Toggled(peer_meta[p], field) \in PeerRow
      BY <2>2, <2>4, <2>5
    <3> QED
      BY <2>4, <2>5, <3>1
  <2>6. CASE peer_meta' = [peer_meta EXCEPT ![p] = [Peer0 EXCEPT ![field] = TRUE]]
    <3> HIDE DEF Peer0
    <3> QED
      BY <2>1, <2>4, <2>6
  <2> QED
    BY <2>3, <2>5, <2>6
<1>3. ASSUME NEW p \in Peers,
             peer_meta' = [peer_meta EXCEPT ![p] = IF @ = NoRow THEN Peer0 ELSE @]
      PROVE  peer_meta' \in [Peers -> PeerRow \cup {NoRow}]
  BY <1>3 DEF Peer0, PeerRow, TypeOK
<1>4. \/ UNCHANGED peer_meta
      \/ \E p \in Peers : \/ \E field \in {"blocked", "tor_routed"} : TogglePeer(p, field)
                          \/ peer_meta' = [peer_meta EXCEPT ![p] = IF @ = NoRow THEN Peer0 ELSE @]
  BY OthersKeep DEF Handlers, SetLabel, AddAcl, ToggleAcl, DeleteAcl, AddSubnet, ToggleSubnet,
     DeleteSubnet, AddEgress, ToggleEgress, DeleteEgress, CreateHost, ToggleHost, SetHostIp,
     DeleteHost, ResetHosts, Scan, tables
<1> QED
  BY <1>1, <1>2, <1>3, <1>4

LEMMA HostsTypes ==
  ASSUME TypeOK, Handlers \/ Scan \/ Others
  PROVE  internal_hosts' \in [Macs -> HostRow \cup {NoRow}]
<1> DEFINE Ok == internal_hosts' \in [Macs -> HostRow \cup {NoRow}]
<1>1. CASE UNCHANGED internal_hosts
  BY <1>1 DEF TypeOK
<1>2. ASSUME NEW m \in Macs, NEW ip \in Ips, NEW name \in Names \cup {NoName},
             CreateHost(m, ip, name)
      PROVE  Ok
  <2>1. \A row \in HostRow :
          [row EXCEPT !.ip = ip, !.hostname = name, !.static = TRUE] \in HostRow
    BY DEF HostRow
  <2>2. [ip |-> ip, hostname |-> name, static |-> TRUE, blocked |-> FALSE, tor_routed |-> FALSE] \in HostRow
    BY DEF HostRow
  <2> DEFINE new == IF internal_hosts[m] = NoRow
                      THEN [ip |-> ip, hostname |-> name, static |-> TRUE,
                            blocked |-> FALSE, tor_routed |-> FALSE]
                      ELSE [internal_hosts[m] EXCEPT !.ip = ip, !.hostname = name, !.static = TRUE]
  <2>3. new \in HostRow
    BY <2>1, <2>2 DEF TypeOK
  <2>4. internal_hosts' = [internal_hosts EXCEPT ![m] = new]
    BY <1>2 DEF CreateHost
  <2> HIDE DEF new
  <2> QED
    BY <2>3, <2>4 DEF TypeOK
<1>3. ASSUME NEW m \in Macs, NEW field \in {"blocked", "tor_routed", "static"}, ToggleHost(m, field)
      PROVE  Ok
  <2>1. \A row \in HostRow : Toggled(row, field) \in HostRow
    BY DEF HostRow, Toggled
  <2> QED
    BY <1>3, <2>1 DEF ToggleHost, TypeOK
<1>4. ASSUME NEW m \in Macs, NEW ip \in Ips, SetHostIp(m, ip) PROVE Ok
  <2>1. \A row \in HostRow : [row EXCEPT !.ip = ip, !.static = TRUE] \in HostRow
    BY DEF HostRow
  <2>2. \/ internal_hosts' = internal_hosts
        \/ /\ internal_hosts[m] # NoRow
           /\ internal_hosts' = [internal_hosts EXCEPT ![m] =
                [internal_hosts[m] EXCEPT !.ip = ip, !.static = TRUE]]
    BY <1>4 DEF SetHostIp, TypeOK
  <2> DEFINE new == [internal_hosts[m] EXCEPT !.ip = ip, !.static = TRUE]
  <2>3. internal_hosts[m] # NoRow => new \in HostRow
    BY <2>1 DEF TypeOK
  <2>4. \/ internal_hosts' = internal_hosts
        \/ /\ internal_hosts[m] # NoRow
           /\ internal_hosts' = [internal_hosts EXCEPT ![m] = new]
    BY <2>2
  <2> HIDE DEF new
  <2> QED
    BY <2>3, <2>4 DEF TypeOK
<1>5. ASSUME NEW m \in Macs, DeleteHost(m) PROVE Ok
  BY <1>5 DEF DeleteHost, TypeOK
<1>6. CASE ResetHosts
  BY <1>6 DEF ResetHosts
<1>7. CASE Scan
  <2>1. \A row \in HostRow \cup {NoRow}, ip \in Ips, name \in Names \cup {NoName} :
          Upsert(row, ip, name) \in HostRow
    BY DEF Upsert, HostRow
  <2>2. PICK seen \in SUBSET Macs : \E ip \in [seen -> Ips], name \in [seen -> Names \cup {NoName}] :
           internal_hosts' = [m \in Macs |->
             IF m \in seen THEN Upsert(internal_hosts[m], ip[m], name[m])
                           ELSE internal_hosts[m]]
    BY <1>7 DEF Scan
  <2>3. PICK ip \in [seen -> Ips], name \in [seen -> Names \cup {NoName}] :
           internal_hosts' = [m \in Macs |->
             IF m \in seen THEN Upsert(internal_hosts[m], ip[m], name[m])
                           ELSE internal_hosts[m]]
    BY <2>2
  <2>4. ASSUME NEW m \in Macs
        PROVE  (IF m \in seen THEN Upsert(internal_hosts[m], ip[m], name[m]) ELSE internal_hosts[m])
                 \in HostRow \cup {NoRow}
    BY <2>1 DEF TypeOK
  <2> QED
    BY <2>3, <2>4
<1>8. \/ UNCHANGED internal_hosts \/ ResetHosts \/ Scan
      \/ \E m \in Macs :
         \/ \E ip \in Ips, name \in Names \cup {NoName} : CreateHost(m, ip, name)
         \/ \E field \in {"blocked", "tor_routed", "static"} : ToggleHost(m, field)
         \/ \E ip \in Ips : SetHostIp(m, ip)
         \/ DeleteHost(m)
  BY OthersKeep DEF Handlers, TogglePeer, SetLabel, AddAcl, ToggleAcl, DeleteAcl, AddSubnet,
     ToggleSubnet, DeleteSubnet, AddEgress, ToggleEgress, DeleteEgress, tables
<1> QED
  BY <1>1, <1>2, <1>3, <1>4, <1>5, <1>6, <1>7, <1>8

(* The rules of a table and the ids its sequence has given.                 *)
Table(rules, Row, last) ==
    /\ rules \in [Ids -> Row \cup {NoRow}]
    /\ last \in 0..MaxId
    /\ \A i \in Rows(rules) : i <= last

LEMMA AddToTable ==
  ASSUME NEW rules, NEW Row, NEW last, Table(rules, Row, last), last < MaxId, NEW row \in Row
  PROVE  Table([rules EXCEPT ![last + 1] = row], Row, last + 1)
<1>1. last + 1 \in Ids /\ last + 1 \in 0..MaxId
  BY MaxIdAssumption DEF Table, Ids
<1>2. ASSUME NEW i \in Rows([rules EXCEPT ![last + 1] = row]) PROVE i <= last + 1
  <2>1. i \in Ids /\ (i = last + 1 \/ i \in Rows(rules))
    BY DEF Table, Rows
  <2> QED
    BY <2>1, MaxIdAssumption DEF Table, Ids
<1> QED
  BY <1>1, <1>2 DEF Table

LEMMA ChangeTable ==
  ASSUME NEW rules, NEW Row, NEW last, Table(rules, Row, last),
         NEW id \in Ids, NEW row, row = NoRow \/ (row \in Row /\ rules[id] # NoRow)
  PROVE  Table([rules EXCEPT ![id] = row], Row, last)
<1>1. Rows([rules EXCEPT ![id] = row]) \subseteq Rows(rules)
  BY DEF Table, Rows
<1> QED
  BY <1>1 DEF Table

LEMMA TypeAsTables ==
  TypeOK => /\ Table(acl_rules, AclRow, sequence.acl)
            /\ Table(lan_egress_rules, EgressRow, sequence.egress)
            /\ sequence \in [acl : 0..MaxId, egress : 0..MaxId]
  BY DEF TypeOK, Table

LEMMA AclTypes ==
  ASSUME TypeOK, Handlers \/ Scan \/ Others
  PROVE  Table(acl_rules', AclRow, sequence'.acl)
<1> DEFINE Ok == Table(acl_rules', AclRow, sequence'.acl)
<1>1. CASE UNCHANGED acl_rules /\ sequence'.acl = sequence.acl
  BY <1>1, TypeAsTables
<1>2. ASSUME NEW p \in Peers, NEW r \in AclRules, AddAcl(p, r) PROVE Ok
  <2>1. [peer |-> p, rule |-> r, enabled |-> TRUE] \in AclRow
    BY DEF AclRow
  <2>2. sequence'.acl = sequence.acl + 1 /\ sequence.acl < MaxId
    BY <1>2, TypeAsTables DEF AddAcl
  <2>3. acl_rules' = [acl_rules EXCEPT ![sequence.acl + 1] = [peer |-> p, rule |-> r, enabled |-> TRUE]]
    BY <1>2 DEF AddAcl
  <2>4. Table(acl_rules, AclRow, sequence.acl)
    BY TypeAsTables
  <2>5. \A row \in AclRow :
          Table([acl_rules EXCEPT ![sequence.acl + 1] = row], AclRow, sequence.acl + 1)
    BY <2>2, <2>4, AddToTable
  <2> QED
    BY <2>1, <2>2, <2>3, <2>5
<1>3. ASSUME NEW i \in Ids, ToggleAcl(i) PROVE Ok
  <2>1. acl_rules[i] # NoRow /\ acl_rules[i] \in AclRow
    BY <1>3, TypeAsTables DEF ToggleAcl, Table
  <2>2. Toggled(acl_rules[i], "enabled") \in AclRow
    BY <2>1 DEF AclRow, Toggled
  <2>3. acl_rules' = [acl_rules EXCEPT ![i] = Toggled(acl_rules[i], "enabled")]
        /\ sequence' = sequence
    BY <1>3 DEF ToggleAcl
  <2> QED
    BY <2>1, <2>2, <2>3, ChangeTable, TypeAsTables
<1>4. ASSUME NEW i \in Ids, DeleteAcl(i) PROVE Ok
  BY <1>4, ChangeTable, TypeAsTables DEF DeleteAcl
<1>5. \/ UNCHANGED acl_rules /\ sequence'.acl = sequence.acl
      \/ \E p \in Peers, r \in AclRules : AddAcl(p, r)
      \/ \E i \in Ids : ToggleAcl(i) \/ DeleteAcl(i)
  BY OthersKeep, TypeAsTables DEF Handlers, TogglePeer, SetLabel, AddSubnet, ToggleSubnet, DeleteSubnet,
     AddEgress, ToggleEgress, DeleteEgress, CreateHost, ToggleHost, SetHostIp, DeleteHost,
     ResetHosts, Scan, tables
<1> QED
  BY <1>1, <1>2, <1>3, <1>4, <1>5

LEMMA EgressTypes ==
  ASSUME TypeOK, Handlers \/ Scan \/ Others
  PROVE  Table(lan_egress_rules', EgressRow, sequence'.egress)
<1> DEFINE Ok == Table(lan_egress_rules', EgressRow, sequence'.egress)
<1>1. CASE UNCHANGED lan_egress_rules /\ sequence'.egress = sequence.egress
  BY <1>1, TypeAsTables
<1>2. ASSUME NEW r \in EgressRules, AddEgress(r) PROVE Ok
  <2>1. [rule |-> r, enabled |-> TRUE] \in EgressRow
    BY DEF EgressRow
  <2>2. sequence'.egress = sequence.egress + 1 /\ sequence.egress < MaxId
    BY <1>2, TypeAsTables DEF AddEgress
  <2>3. lan_egress_rules' = [lan_egress_rules EXCEPT ![sequence.egress + 1] = [rule |-> r, enabled |-> TRUE]]
    BY <1>2 DEF AddEgress
  <2>4. Table(lan_egress_rules, EgressRow, sequence.egress)
    BY TypeAsTables
  <2>5. \A row \in EgressRow :
          Table([lan_egress_rules EXCEPT ![sequence.egress + 1] = row], EgressRow, sequence.egress + 1)
    BY <2>2, <2>4, AddToTable
  <2> QED
    BY <2>1, <2>2, <2>3, <2>5
<1>3. ASSUME NEW i \in Ids, ToggleEgress(i) PROVE Ok
  <2>1. CASE lan_egress_rules[i] = NoRow
    BY <1>3, <2>1, TypeAsTables DEF ToggleEgress
  <2>2. CASE lan_egress_rules[i] # NoRow
    <3>1. lan_egress_rules[i] \in EgressRow
      BY <2>2, TypeAsTables DEF Table
    <3>2. Toggled(lan_egress_rules[i], "enabled") \in EgressRow
      BY <3>1 DEF EgressRow, Toggled
    <3>3. lan_egress_rules' = [lan_egress_rules EXCEPT ![i] = Toggled(lan_egress_rules[i], "enabled")]
          /\ sequence' = sequence
      BY <1>3, <2>2 DEF ToggleEgress
    <3> QED
      BY <2>2, <3>2, <3>3, ChangeTable, TypeAsTables
  <2> QED
    BY <2>1, <2>2
<1>4. ASSUME NEW i \in Ids, DeleteEgress(i) PROVE Ok
  BY <1>4, ChangeTable, TypeAsTables DEF DeleteEgress
<1>5. \/ UNCHANGED lan_egress_rules /\ sequence'.egress = sequence.egress
      \/ \E r \in EgressRules : AddEgress(r)
      \/ \E i \in Ids : ToggleEgress(i) \/ DeleteEgress(i)
  BY OthersKeep, TypeAsTables DEF Handlers, TogglePeer, SetLabel, AddAcl, ToggleAcl, DeleteAcl,
     AddSubnet, ToggleSubnet, DeleteSubnet, CreateHost, ToggleHost, SetHostIp, DeleteHost,
     ResetHosts, Scan, tables
<1> QED
  BY <1>1, <1>2, <1>3, <1>4, <1>5

LEMMA SequenceTypes ==
  ASSUME TypeOK, Handlers \/ Scan \/ Others
  PROVE  sequence' \in [acl : 0..MaxId, egress : 0..MaxId]
<1>1. \/ sequence' = sequence
      \/ sequence' = [sequence EXCEPT !.acl = @ + 1]
      \/ sequence' = [sequence EXCEPT !.egress = @ + 1]
  BY OthersKeep DEF Handlers, TogglePeer, SetLabel, AddAcl, ToggleAcl, DeleteAcl,
     AddSubnet, ToggleSubnet, DeleteSubnet, AddEgress, ToggleEgress, DeleteEgress,
     CreateHost, ToggleHost, SetHostIp, DeleteHost, ResetHosts, Scan, tables
<1>2. sequence'.acl \in 0..MaxId /\ sequence'.egress \in 0..MaxId
  BY AclTypes, EgressTypes DEF Table
<1>3. sequence \in [acl : 0..MaxId, egress : 0..MaxId]
  BY TypeAsTables
<1> QED
  BY <1>1, <1>2, <1>3

LEMMA SubnetsTypes ==
  ASSUME TypeOK, Handlers \/ Scan \/ Others
  PROVE  lan_restricted_subnets' \in [Cidrs -> BOOLEAN \cup {NoRow}]
<1>1. \/ lan_restricted_subnets' = lan_restricted_subnets
      \/ \E c \in Cidrs : AddSubnet(c) \/ ToggleSubnet(c) \/ DeleteSubnet(c)
  BY OthersKeep DEF Handlers, TogglePeer, SetLabel, AddAcl, ToggleAcl, DeleteAcl,
     AddEgress, ToggleEgress, DeleteEgress, CreateHost, ToggleHost, SetHostIp, DeleteHost,
     ResetHosts, Scan, tables
<1>2. lan_restricted_subnets \in [Cidrs -> BOOLEAN \cup {NoRow}]
  BY DEF TypeOK
<1>3. ASSUME NEW c \in Cidrs, AddSubnet(c) \/ DeleteSubnet(c)
      PROVE  lan_restricted_subnets' \in [Cidrs -> BOOLEAN \cup {NoRow}]
  BY <1>2, <1>3 DEF AddSubnet, DeleteSubnet
<1>4. ASSUME NEW c \in Cidrs, ToggleSubnet(c)
      PROVE  lan_restricted_subnets' \in [Cidrs -> BOOLEAN \cup {NoRow}]
  <2>1. CASE lan_restricted_subnets[c] = NoRow
    BY <1>2, <1>4, <2>1 DEF ToggleSubnet
  <2>2. CASE lan_restricted_subnets[c] # NoRow
    BY <1>2, <1>4, <2>2 DEF ToggleSubnet
  <2> QED
    BY <2>1, <2>2
<1> QED
  BY <1>1, <1>2, <1>3, <1>4

LEMMA RestTypes ==
  ASSUME TypeOK, Handlers \/ Scan \/ Others
  PROVE  dirty' \in BOOLEAN /\ pending' \in BOOLEAN /\ wg' \in PeerAddresses /\ stage' \in Stages
<1>1. dirty \in BOOLEAN /\ pending \in BOOLEAN /\ wg \in PeerAddresses /\ stage \in Stages
  BY DEF TypeOK
<1>2. CASE Handlers
  <2>1. (dirty' = TRUE \/ dirty' = dirty) /\ pending' = TRUE
    BY <1>2, HandlersMark DEF Marks, SetLabel
  <2> QED
    BY <1>1, <1>2, <2>1, HandlersMark
<1>3. CASE Scan
  BY <1>1, <1>3 DEF Scan, flags, applier
<1>4. CASE Others
  <2>1. (dirty' = FALSE \/ dirty' = dirty) /\ (pending' = FALSE \/ pending' = pending)
    BY <1>4 DEF Others, Apply, ReadPeers, ReadMeta, ReadHosts, ReadAcl, ReadSubnets, ReadEgress,
                Read, Commit, Finish, Abort, WgEdit, vars, flags
  <2>2. wg' \in PeerAddresses /\ stage' \in Stages
    BY <1>1, <1>4 DEF Others, Apply, ReadPeers, ReadMeta, ReadHosts, ReadAcl, ReadSubnets,
                      ReadEgress, Read, Commit, Finish, Abort, WgEdit, vars, applier, Stages
  <2> QED
    BY <1>1, <2>1, <2>2
<1> QED
  BY <1>2, <1>3, <1>4

LEMMA TypeInit == Init => TypeOK
<1> SUFFICES ASSUME Init PROVE TypeOK
  OBVIOUS
<1>1. /\ peer_meta \in [Peers -> PeerRow \cup {NoRow}]
      /\ internal_hosts \in [Macs -> HostRow \cup {NoRow}]
      /\ acl_rules \in [Ids -> AclRow \cup {NoRow}] /\ Rows(acl_rules) = {}
      /\ lan_restricted_subnets \in [Cidrs -> BOOLEAN \cup {NoRow}]
      /\ lan_egress_rules \in [Ids -> EgressRow \cup {NoRow}] /\ Rows(lan_egress_rules) = {}
  BY DEF Init, Rows
<1>2. sequence \in [acl : 0..MaxId, egress : 0..MaxId]
  BY MaxIdAssumption DEF Init
<1>3. dirty \in BOOLEAN /\ pending \in BOOLEAN /\ wg \in PeerAddresses /\ stage \in Stages
  BY DEF Init, Stages
<1> QED
  BY <1>1, <1>2, <1>3 DEF TypeOK

LEMMA TypeStep == TypeOK /\ [Next]_vars => TypeOK'
<1> SUFFICES ASSUME TypeOK, Handlers \/ Scan \/ Others PROVE TypeOK'
  BY NextIs DEF Others
<1> QED
  BY PeersTypes, HostsTypes, AclTypes, EgressTypes, SequenceTypes, SubnetsTypes, RestTypes
  DEF TypeOK, Table

(* Every row has its columns' types, and an id is never given twice.        *)
THEOREM TypeCorrect == Spec => []TypeOK
  BY TypeInit, TypeStep, PTL DEF Spec
--------------------------------------------------------------------------------
(* An edit that changes what an Apply would render is pending, in every     *)
(* interleaving of handlers, Applies and scans.                             *)
THEOREM EditsArePendingAlways == Spec => EditsArePending
<1>1. TypeOK /\ [Next]_vars =>
        [wg' = wg /\ ~(dirty' /\ pending') /\ Texts(Database') # Texts(Database) => Scan]_vars
  <2> SUFFICES ASSUME TypeOK, Handlers \/ Others, wg' = wg,
                      Texts(Database') # Texts(Database)
               PROVE  dirty' /\ pending'
    BY NextIs DEF Others
  <2>1. CASE Others
    <3>1. Database' = Database
      BY <2>1, OthersKeep DEF Database, tables
    <3> QED
      BY <3>1
  <2>2. CASE Handlers
    <3>1. peer_meta \in [Peers -> PeerRow \cup {NoRow}]
      BY DEF TypeOK
    <3> QED
      BY <2>2, <3>1, HandlersMark, LabelsRenderNothing DEF Marks
  <2> QED
    BY <2>1, <2>2
<1> QED
  BY TypeCorrect, <1>1, PTL DEF Spec, EditsArePending
--------------------------------------------------------------------------------
(* The tables an Apply has read are still what it read, apart from what      *)
(* changes under a running Apply.                                           *)
JobIsCurrent ==
    /\ DOMAIN job = {"wg", "peer_meta", "internal_hosts", "acl_rules", "subnets", "egress"}
    /\ WgChanges \/ (stage # "idle" => job["wg"] = wg)
    /\ stage \notin {"idle", "meta"} => job["peer_meta"] = peer_meta
    /\ ScanRuns \/ (stage \notin {"idle", "meta", "hosts"} => job["internal_hosts"] = internal_hosts)
    /\ stage \in {"subnets", "egress", "install", "ok"} => job["acl_rules"] = acl_rules
    /\ stage \in {"egress", "install", "ok"} => job["subnets"] = lan_restricted_subnets
    /\ stage \in {"install", "ok"} => job["egress"] = lan_egress_rules

AllLive == /\ EgressIsLive
           /\ WgChanges \/ PeersAreLive
           /\ ScanRuns \/ HostsAreLive

LiveIsClean == stage = "ok" \/ ~(dirty /\ pending) => AllLive

(* Each part of the texts depends on its own tables.                        *)
LEMMA SameEgress ==
  ASSUME NEW d, NEW e, d.subnets = e.subnets, d.egress = e.egress
  PROVE  /\ LanAllow(d) = LanAllow(e)
         /\ NftText(d).lan_drop = NftText(e).lan_drop
  BY DEF NftText, LanAllow

LEMMA SamePeers ==
  ASSUME NEW d, NEW e, d.wg = e.wg, d.peer_meta = e.peer_meta, d.acl_rules = e.acl_rules
  PROVE  /\ \A flag : PeerIps(d, flag) = PeerIps(e, flag)
         /\ AclLines(d) = AclLines(e)
  BY DEF PeerIps, AclLines, IpsFor

LEMMA SameHosts ==
  ASSUME NEW d, NEW e, d.internal_hosts = e.internal_hosts
  PROVE  /\ \A flag : HostIps(d, flag) = HostIps(e, flag)
         /\ DnsText(d) = DnsText(e)
  BY DEF HostIps, DnsText

(* What an Apply installs is what it has read.                              *)
LEMMA TextsAre ==
  ASSUME NEW d
  PROVE  /\ Texts(d).nft.lan_allow = LanAllow(d)
         /\ Texts(d).nft.lan_drop = NftText(d).lan_drop
         /\ Texts(d).nft.blocked_peers = PeerIps(d, "blocked")
         /\ Texts(d).nft.tor_peers = PeerIps(d, "tor_routed")
         /\ Texts(d).nft.panel_forward = AclLines(d)
         /\ Texts(d).nft.blocked_hosts = HostIps(d, "blocked")
         /\ Texts(d).nft.tor_hosts = HostIps(d, "tor_routed")
         /\ Texts(d).dns = DnsText(d)
  BY DEF Texts, NftText

(* A part that is live stays live while its tables and what runs stay.      *)
LEMMA LiveStays ==
  ASSUME AllLive, live' = live,
         UNCHANGED <<lan_restricted_subnets, lan_egress_rules>>,
         WgChanges \/ UNCHANGED <<wg, peer_meta, acl_rules>>,
         ScanRuns \/ UNCHANGED internal_hosts
  PROVE  AllLive'
<1>1. EgressIsLive'
  <2>1. Database'.subnets = Database.subnets /\ Database'.egress = Database.egress
    BY DEF Database
  <2> QED
    BY <2>1, SameEgress DEF AllLive, EgressIsLive
<1>2. UNCHANGED <<wg, peer_meta, acl_rules>> /\ PeersAreLive => PeersAreLive'
  <2> SUFFICES ASSUME UNCHANGED <<wg, peer_meta, acl_rules>>, PeersAreLive PROVE PeersAreLive'
    OBVIOUS
  <2>1. /\ Database'.wg = Database.wg /\ Database'.peer_meta = Database.peer_meta
        /\ Database'.acl_rules = Database.acl_rules
    BY DEF Database
  <2> QED
    BY <2>1, SamePeers DEF PeersAreLive
<1>3. UNCHANGED internal_hosts /\ HostsAreLive => HostsAreLive'
  <2> SUFFICES ASSUME UNCHANGED internal_hosts, HostsAreLive PROVE HostsAreLive'
    OBVIOUS
  <2>1. Database'.internal_hosts = Database.internal_hosts
    BY DEF Database
  <2> QED
    BY <2>1, SameHosts DEF HostsAreLive
<1> QED
  BY <1>1, <1>2, <1>3 DEF AllLive

(* A label changes no peer's part.                                          *)
LEMMA LabelsKeepLive ==
  ASSUME peer_meta \in [Peers -> PeerRow \cup {NoRow}], NEW p \in Peers, SetLabel(p), AllLive
  PROVE  AllLive'
<1>1. /\ live' = live
      /\ UNCHANGED <<wg, internal_hosts, acl_rules, lan_restricted_subnets, lan_egress_rules>>
  BY DEF SetLabel, applier
<1>2. Texts(Database)' = Texts(Database)
  BY LabelsRenderNothing
<1>3. Texts(Database').nft = Texts(Database).nft
  BY <1>2
<1>4. /\ PeerIps(Database', "blocked") = PeerIps(Database, "blocked")
      /\ PeerIps(Database', "tor_routed") = PeerIps(Database, "tor_routed")
      /\ AclLines(Database') = AclLines(Database)
  BY <1>3, TextsAre
<1>5. PeersAreLive => PeersAreLive'
  BY <1>1, <1>4 DEF PeersAreLive
<1>6. EgressIsLive' /\ (HostsAreLive => HostsAreLive')
  <2>1. /\ Database'.subnets = Database.subnets /\ Database'.egress = Database.egress
        /\ Database'.internal_hosts = Database.internal_hosts
    BY <1>1 DEF Database
  <2> QED
    BY <1>1, <2>1, SameEgress, SameHosts DEF AllLive, EgressIsLive, HostsAreLive
<1> QED
  BY <1>5, <1>6 DEF AllLive

LEMMA JobStep ==
  ASSUME ~EditDuringApply, JobIsCurrent, [Next]_vars
  PROVE  JobIsCurrent'
<1>1. CASE Handlers
  <2>1. UNCHANGED <<stage, job>> /\ stage = "idle"
    BY <1>1, HandlersMark
  <2> QED
    BY <2>1 DEF JobIsCurrent
<1>2. ASSUME NEW from, NEW to, NEW part, Read(from, to, part),
             <<from, to, part>> \in {<<"idle", "meta", "wg">>, <<"meta", "hosts", "peer_meta">>,
               <<"hosts", "acl", "internal_hosts">>, <<"acl", "subnets", "acl_rules">>,
               <<"subnets", "egress", "subnets">>, <<"egress", "install", "egress">>}
      PROVE  JobIsCurrent'
  <2>1. /\ stage = from /\ stage' = to /\ job' = [job EXCEPT ![part] = Database[part]]
        /\ UNCHANGED <<wg, peer_meta, internal_hosts, acl_rules, lan_restricted_subnets, lan_egress_rules>>
    BY <1>2 DEF Read, tables
  <2>2. part \in DOMAIN job
    BY <1>2 DEF JobIsCurrent
  <2> QED
    BY <1>2, <2>1, <2>2 DEF JobIsCurrent, Database
<1>3. CASE Apply
  <2>1. CASE Commit
    BY <2>1 DEF Commit, tables, JobIsCurrent
  <2>2. CASE Finish \/ Abort
    BY <2>2 DEF Finish, Abort, JobIsCurrent, NothingRead
  <2> QED
    BY <1>2, <1>3, <2>1, <2>2 DEF Apply, ReadPeers, ReadMeta, ReadHosts, ReadAcl, ReadSubnets, ReadEgress
<1>4. CASE UNCHANGED vars
  BY <1>4 DEF vars, tables, flags, applier, JobIsCurrent
<1>5. CASE Scan
  BY <1>5 DEF Scan, applier, JobIsCurrent
<1>6. CASE WgEdit
  BY <1>6 DEF WgEdit, applier, tables, JobIsCurrent
<1> QED
  BY <1>1, <1>3, <1>4, <1>5, <1>6, NextIs

(* The step that installs makes every part live.                            *)
LEMMA CommitStep ==
  ASSUME JobIsCurrent, Commit
  PROVE  AllLive'
<1>1. /\ live' = Texts(job) /\ stage = "install"
      /\ UNCHANGED <<wg, peer_meta, internal_hosts, acl_rules, lan_restricted_subnets, lan_egress_rules>>
  BY DEF Commit, tables
<1>2. /\ job.peer_meta = Database'.peer_meta /\ job.acl_rules = Database'.acl_rules
      /\ job.subnets = Database'.subnets /\ job.egress = Database'.egress
      /\ WgChanges \/ job.wg = Database'.wg
      /\ ScanRuns \/ job.internal_hosts = Database'.internal_hosts
  BY <1>1 DEF JobIsCurrent, Database
<1>3. EgressIsLive'
  <2>1. /\ LanAllow(job) = LanAllow(Database')
        /\ NftText(job).lan_drop = NftText(Database').lan_drop
    BY <1>2, SameEgress
  <2> QED
    BY <1>1, <2>1, TextsAre DEF EgressIsLive
<1>4. job.wg = Database'.wg => PeersAreLive'
  <2> SUFFICES ASSUME job.wg = Database'.wg PROVE PeersAreLive'
    OBVIOUS
  <2>1. /\ PeerIps(job, "blocked") = PeerIps(Database', "blocked")
        /\ PeerIps(job, "tor_routed") = PeerIps(Database', "tor_routed")
        /\ AclLines(job) = AclLines(Database')
    BY <1>2, SamePeers
  <2> QED
    BY <1>1, <2>1, TextsAre DEF PeersAreLive
<1>5. job.internal_hosts = Database'.internal_hosts => HostsAreLive'
  <2> SUFFICES ASSUME job.internal_hosts = Database'.internal_hosts PROVE HostsAreLive'
    OBVIOUS
  <2>1. /\ HostIps(job, "blocked") = HostIps(Database', "blocked")
        /\ HostIps(job, "tor_routed") = HostIps(Database', "tor_routed")
        /\ DnsText(job) = DnsText(Database')
    BY <1>2, SameHosts
  <2> QED
    BY <1>1, <2>1, TextsAre DEF HostsAreLive
<1> QED
  BY <1>2, <1>3, <1>4, <1>5 DEF AllLive

LEMMA CleanStep ==
  ASSUME ~EditDuringApply, TypeOK, JobIsCurrent, LiveIsClean, [Next]_vars
  PROVE  LiveIsClean'
<1>1. CASE Handlers
  <2>1. UNCHANGED stage /\ stage = "idle"
    BY <1>1, HandlersMark
  <2>2. CASE Marks
    BY <2>1, <2>2 DEF Marks, LiveIsClean
  <2>3. ASSUME NEW p \in Peers, SetLabel(p) PROVE LiveIsClean'
    <3>1. peer_meta \in [Peers -> PeerRow \cup {NoRow}]
      BY DEF TypeOK
    <3>2. dirty' = dirty /\ pending' = TRUE
      BY <2>3 DEF SetLabel
    <3>3. ~dirty => AllLive'
      BY <2>3, <3>1, LabelsKeepLive DEF LiveIsClean
    <3> QED
      BY <2>1, <3>2, <3>3 DEF LiveIsClean
  <2> QED
    BY <1>1, <2>2, <2>3, HandlersMark
<1>2. CASE Commit
  BY <1>2, CommitStep DEF LiveIsClean
<1>3. CASE Finish
  <2>1. UNCHANGED <<live, wg, peer_meta, internal_hosts, acl_rules, lan_restricted_subnets, lan_egress_rules>>
        /\ stage = "ok"
    BY <1>3 DEF Finish, tables
  <2> QED
    BY <2>1, LiveStays DEF LiveIsClean
<1>4. CASE \/ ReadPeers \/ ReadMeta \/ ReadHosts \/ ReadAcl \/ ReadSubnets \/ ReadEgress \/ Abort
           \/ Scan \/ WgEdit \/ UNCHANGED vars
  <2>1. /\ UNCHANGED <<live, dirty, pending, lan_restricted_subnets, lan_egress_rules, peer_meta, acl_rules>>
        /\ WgChanges \/ UNCHANGED wg
        /\ ScanRuns \/ UNCHANGED internal_hosts
        /\ stage' = "ok" => stage = "ok"
    BY <1>4 DEF ReadPeers, ReadMeta, ReadHosts, ReadAcl, ReadSubnets, ReadEgress, Read, Abort,
                Scan, WgEdit, tables, flags, applier, vars
  <2> QED
    BY <2>1, LiveStays DEF LiveIsClean
<1> QED
  BY <1>1, <1>2, <1>3, <1>4, NextIs DEF Apply

(* As long as no other request gets between the reads of an Apply and its    *)
(* end, a database that counts as clean is what the gateway runs, apart from *)
(* what the scanner has moved or WireGuard has renumbered since.             *)
THEOREM CleanIsLive ==
  ASSUME ~EditDuringApply
  PROVE  Spec => []CleanMeansLive
<1> DEFINE Inv == TypeOK /\ JobIsCurrent /\ LiveIsClean
<1>1. Init => Inv
  <2> SUFFICES ASSUME Init PROVE Inv
    OBVIOUS
  <2>1. JobIsCurrent
    BY DEF Init, JobIsCurrent, NothingRead
  <2>2. AllLive
    BY TextsAre DEF Init, AllLive, EgressIsLive, PeersAreLive, HostsAreLive
  <2> QED
    BY <2>1, <2>2, TypeInit DEF LiveIsClean
<1>2. Inv /\ [Next]_vars => Inv'
  BY TypeStep, JobStep, CleanStep
<1>3. Inv => CleanMeansLive
  BY DEF LiveIsClean, AllLive, CleanMeansLive
<1> HIDE DEF Inv
<1> QED
  BY <1>1, <1>2, <1>3, PTL DEF Spec
--------------------------------------------------------------------------------
(* What an Apply reads has the tables' types.                               *)
DbTyped(d) ==
    /\ d.wg \in [Peers -> SUBSET AllowedIps]
    /\ d.peer_meta \in [Peers -> PeerRow \cup {NoRow}]
    /\ d.internal_hosts \in [Macs -> HostRow \cup {NoRow}]
    /\ d.acl_rules \in [Ids -> AclRow \cup {NoRow}]
    /\ d.subnets \in [Cidrs -> BOOLEAN \cup {NoRow}]
    /\ d.egress \in [Ids -> EgressRow \cup {NoRow}]

Parts == {"wg", "peer_meta", "internal_hosts", "acl_rules", "subnets", "egress"}

JobTyped ==
    /\ DOMAIN job = Parts
    /\ stage # "idle" => job["wg"] \in [Peers -> SUBSET AllowedIps]
    /\ stage \notin {"idle", "meta"} => job["peer_meta"] \in [Peers -> PeerRow \cup {NoRow}]
    /\ stage \notin {"idle", "meta", "hosts"} =>
         job["internal_hosts"] \in [Macs -> HostRow \cup {NoRow}]
    /\ stage \in {"subnets", "egress", "install", "ok"} =>
         job["acl_rules"] \in [Ids -> AclRow \cup {NoRow}]
    /\ stage \in {"egress", "install", "ok"} => job["subnets"] \in [Cidrs -> BOOLEAN \cup {NoRow}]
    /\ stage \in {"install", "ok"} => job["egress"] \in [Ids -> EgressRow \cup {NoRow}]

LEMMA DatabaseTyped == TypeOK => DbTyped(Database)
  BY AddressAssumption DEF TypeOK, DbTyped, Database

LEMMA JobTypedStep ==
  ASSUME TypeOK, JobTyped, [Next]_vars
  PROVE  JobTyped'
<1>1. CASE Handlers \/ Scan \/ WgEdit \/ UNCHANGED vars
  <2>1. UNCHANGED <<stage, job>>
    BY <1>1, HandlersMark DEF Scan, WgEdit, applier, vars
  <2> QED
    BY <2>1 DEF JobTyped
<1>2. ASSUME NEW from, NEW to, NEW part, Read(from, to, part),
             <<from, to, part>> \in {<<"idle", "meta", "wg">>, <<"meta", "hosts", "peer_meta">>,
               <<"hosts", "acl", "internal_hosts">>, <<"acl", "subnets", "acl_rules">>,
               <<"subnets", "egress", "subnets">>, <<"egress", "install", "egress">>}
      PROVE  JobTyped'
  <2>1. /\ stage = from /\ stage' = to /\ job' = [job EXCEPT ![part] = Database[part]]
        /\ DOMAIN job = Parts /\ part \in Parts
    BY <1>2 DEF Read, JobTyped, Parts
  <2>2. /\ Database["wg"] \in [Peers -> SUBSET AllowedIps]
        /\ Database["peer_meta"] \in [Peers -> PeerRow \cup {NoRow}]
        /\ Database["internal_hosts"] \in [Macs -> HostRow \cup {NoRow}]
        /\ Database["acl_rules"] \in [Ids -> AclRow \cup {NoRow}]
        /\ Database["subnets"] \in [Cidrs -> BOOLEAN \cup {NoRow}]
        /\ Database["egress"] \in [Ids -> EgressRow \cup {NoRow}]
    BY DatabaseTyped DEF DbTyped
  <2>3. \A q \in Parts : job'[q] = IF q = part THEN Database[part] ELSE job[q]
    BY <2>1
  <2>4. DOMAIN job' = Parts
    BY <2>1
  <2> QED
    BY <1>2, <2>1, <2>2, <2>3, <2>4 DEF JobTyped, Parts
<1>3. CASE Apply
  <2>1. CASE Commit
    BY <2>1 DEF Commit, JobTyped
  <2>2. CASE Finish \/ Abort
    BY <2>2 DEF Finish, Abort, JobTyped, NothingRead, Parts
  <2> QED
    BY <1>2, <1>3, <2>1, <2>2 DEF Apply, ReadPeers, ReadMeta, ReadHosts, ReadAcl, ReadSubnets, ReadEgress
<1> QED
  BY <1>1, <1>3, NextIs

--------------------------------------------------------------------------------
(* What an Apply installs is the database of one moment, although it reads   *)
(* six times outside any transaction: that of the read of the part that may  *)
(* change under it.  Until then, and from the commit on, none is in flight.  *)
Databases ==
    [wg : [Peers -> SUBSET AllowedIps], peer_meta : [Peers -> PeerRow \cup {NoRow}],
     internal_hosts : [Macs -> HostRow \cup {NoRow}], acl_rules : [Ids -> AclRow \cup {NoRow}],
     subnets : [Cidrs -> BOOLEAN \cup {NoRow}], egress : [Ids -> EgressRow \cup {NoRow}]]

Unfixed == IF WgChanges THEN {"idle", "ok"} ELSE {"idle", "meta", "hosts", "ok"}

Fixed == IF WgChanges THEN [Database EXCEPT !.wg = job["wg"]]
                      ELSE [Database EXCEPT !.internal_hosts = job["internal_hosts"]]

InFlight == IF stage \in Unfixed THEN NothingRead ELSE Texts(Fixed)

Configs == {Texts(d) : d \in Databases}

Promise == INSTANCE AtomicApply WITH
    Configs <- Configs, Deployable <- {t \in Configs : Startable(t.dns)}, NoJob <- NothingRead,
    want <- Texts(Database), inflight <- InFlight

LEMMA SameTexts ==
  ASSUME NEW d, NEW e, d.wg = e.wg, d.peer_meta = e.peer_meta,
         d.internal_hosts = e.internal_hosts, d.acl_rules = e.acl_rules,
         d.subnets = e.subnets, d.egress = e.egress
  PROVE  Texts(d) = Texts(e)
<1>1. PeerIps(d, "blocked") = PeerIps(e, "blocked") /\ PeerIps(d, "tor_routed") = PeerIps(e, "tor_routed")
      /\ AclLines(d) = AclLines(e)
  BY SamePeers
<1>2. HostIps(d, "blocked") = HostIps(e, "blocked") /\ HostIps(d, "tor_routed") = HostIps(e, "tor_routed")
      /\ DnsText(d) = DnsText(e)
  BY SameHosts
<1>3. LanAllow(d) = LanAllow(e)
  BY SameEgress
<1> QED
  BY <1>1, <1>2, <1>3 DEF Texts, NftText

LEMMA DatabaseIn == TypeOK => Database \in Databases
  BY AddressAssumption DEF TypeOK, Database, Databases

LEMMA NothingIsNoConfig == NothingRead \notin Configs
<1>1. "wg" \in DOMAIN NothingRead
  BY DEF NothingRead
<1>2. \A d : DOMAIN Texts(d) = {"nft", "dns"}
  BY DEF Texts
<1>3. "wg" \notin {"nft", "dns"}
  OBVIOUS
<1> QED
  BY <1>1, <1>2, <1>3 DEF Configs

(* The configuration in flight is one the database has rendered to.         *)
LEMMA FixedIn ==
  ASSUME TypeOK, JobTyped, stage \notin Unfixed
  PROVE  Fixed \in Databases /\ Texts(Fixed) \in Configs
<1>1. Database \in Databases
  BY DatabaseIn
<1>2. CASE WgChanges
  <2>1. job["wg"] \in [Peers -> SUBSET AllowedIps]
    BY <1>2 DEF Unfixed, JobTyped
  <2> QED
    BY <1>1, <1>2, <2>1 DEF Fixed, Databases, Configs
<1>3. CASE ~WgChanges
  <2>1. job["internal_hosts"] \in [Macs -> HostRow \cup {NoRow}]
    BY <1>3 DEF Unfixed, JobTyped
  <2> QED
    BY <1>1, <1>3, <2>1 DEF Fixed, Databases, Configs
<1> QED
  BY <1>2, <1>3

LEMMA PromiseStep ==
  ASSUME ~EditDuringApply, ~(ScanRuns /\ WgChanges), TypeOK, TypeOK', JobIsCurrent, JobTyped,
         [Next]_vars
  PROVE  [Promise!Next \/ ResetHosts]_(Promise!vars)
<1>w. Texts(Database)' \in Configs
  <2>1. Database' \in Databases
    BY AddressAssumption DEF TypeOK, Database, Databases
  <2> QED
    BY <2>1 DEF Configs
<1>1. CASE Handlers
  <2>1. stage = "idle" /\ stage' = "idle"
    BY <1>1, HandlersMark
  <2>2. InFlight' = InFlight
    BY <2>1 DEF InFlight, Unfixed
  <2>3. live' = live \/ ResetHosts
    BY <1>1 DEF Handlers, SetLabel, Mutation, TogglePeer, AddAcl, ToggleAcl, DeleteAcl,
       AddSubnet, ToggleSubnet, DeleteSubnet, AddEgress, ToggleEgress, DeleteEgress,
       CreateHost, ToggleHost, SetHostIp, DeleteHost, applier
  <2> QED
    BY <1>w, <2>2, <2>3 DEF Promise!Next, Promise!Edit
<1>2. CASE Scan
  <2>1. UNCHANGED <<wg, peer_meta, acl_rules, lan_restricted_subnets, lan_egress_rules, stage, job, live>>
        /\ ~WgChanges
    BY <1>2 DEF Scan, applier
  <2>2. Fixed' = Fixed
    BY <2>1 DEF Fixed, Database
  <2>3. InFlight' = InFlight
    BY <2>1, <2>2 DEF InFlight
  <2> QED
    BY <1>w, <2>1, <2>3 DEF Promise!Next, Promise!Edit
<1>3. CASE WgEdit
  <2>1. UNCHANGED <<tables, stage, job, live>> /\ WgChanges
    BY <1>3 DEF WgEdit, applier
  <2>2. Fixed' = Fixed
    BY <2>1 DEF Fixed, Database, tables
  <2>3. InFlight' = InFlight
    BY <2>1, <2>2 DEF InFlight
  <2> QED
    BY <1>w, <2>1, <2>3 DEF Promise!Next, Promise!Edit
<1>4. ASSUME NEW from, NEW to, NEW part, Read(from, to, part),
             <<from, to, part>> \in {<<"idle", "meta", "wg">>, <<"meta", "hosts", "peer_meta">>,
               <<"hosts", "acl", "internal_hosts">>, <<"acl", "subnets", "acl_rules">>,
               <<"subnets", "egress", "subnets">>, <<"egress", "install", "egress">>}
      PROVE  [Promise!Next \/ ResetHosts]_(Promise!vars)
  <2>1. /\ stage = from /\ stage' = to /\ job' = [job EXCEPT ![part] = Database[part]]
        /\ Database' = Database /\ live' = live
    BY <1>4 DEF Read, Database, tables
  <2>2. DOMAIN job = Parts /\ part \in Parts
    BY <1>4 DEF JobTyped, Parts
  <2>3. CASE part = IF WgChanges THEN "wg" ELSE "internal_hosts"
    <3>1. stage \in Unfixed /\ stage' \notin Unfixed
      BY <1>4, <2>1, <2>3 DEF Unfixed
    <3>2. job'[part] = Database'[part]
      BY <2>1, <2>2
    <3>3. Fixed' = Database
      BY <2>1, <2>3, <3>2 DEF Fixed, Database
    <3> QED
      BY <2>1, <3>1, <3>3 DEF InFlight, Promise!Next, Promise!Begin
  <2>4. CASE part # IF WgChanges THEN "wg" ELSE "internal_hosts"
    <3>1. stage \in Unfixed <=> stage' \in Unfixed
      BY <1>4, <2>1, <2>4 DEF Unfixed
    <3>2. Fixed' = Fixed
      BY <2>1, <2>2, <2>4 DEF Fixed, Parts
    <3> QED
      BY <2>1, <3>1, <3>2 DEF InFlight, Promise!vars
  <2> QED
    BY <2>3, <2>4
<1>5. CASE Commit
  <2>1. /\ stage = "install" /\ stage' = "ok" /\ Startable(DnsText(job)) /\ live' = Texts(job)
        /\ Database' = Database
    BY <1>5 DEF Commit, Database, tables
  <2>2. stage \notin Unfixed /\ stage' \in Unfixed
    BY <2>1 DEF Unfixed
  <2>3. /\ Fixed.wg = job.wg /\ Fixed.peer_meta = job.peer_meta
        /\ Fixed.internal_hosts = job.internal_hosts /\ Fixed.acl_rules = job.acl_rules
        /\ Fixed.subnets = job.subnets /\ Fixed.egress = job.egress
    BY <2>1 DEF Fixed, Database, JobIsCurrent
  <2>4. Texts(Fixed) = Texts(job)
    BY <2>3, SameTexts
  <2>5. Texts(job) \in Configs /\ Texts(job).dns = DnsText(job)
    BY <2>2, <2>4, FixedIn, TextsAre
  <2> QED
    BY <2>1, <2>2, <2>4, <2>5 DEF InFlight, Promise!Next, Promise!Commit
<1>6. CASE Abort
  <2>1. stage = "install" /\ stage' = "idle" /\ Database' = Database /\ live' = live
    BY <1>6 DEF Abort, Database, tables
  <2>2. stage \notin Unfixed /\ stage' \in Unfixed
    BY <2>1 DEF Unfixed
  <2> QED
    BY <2>1, <2>2, FixedIn, NothingIsNoConfig DEF InFlight, Promise!Next, Promise!Abort
<1>7. CASE Finish \/ UNCHANGED vars
  <2>1. Database' = Database /\ live' = live /\ InFlight' = InFlight
    <3>1. CASE Finish
      BY <3>1 DEF Finish, Database, tables, InFlight, Unfixed
    <3>2. CASE UNCHANGED vars
      <4>1. Database' = Database /\ UNCHANGED <<stage, job, live>>
        BY <3>2 DEF vars, tables, applier, Database
      <4>2. Fixed' = Fixed
        BY <4>1 DEF Fixed
      <4> QED
        BY <4>1, <4>2 DEF InFlight
    <3> QED
      BY <1>7, <3>1, <3>2
  <2> QED
    BY <2>1 DEF Promise!vars
<1> QED
  BY <1>1, <1>2, <1>3, <1>4, <1>5, <1>6, <1>7, NextIs
  DEF Apply, ReadPeers, ReadMeta, ReadHosts, ReadAcl, ReadSubnets, ReadEgress

(* As long as no other request gets into an Apply, and the scanner and       *)
(* WireGuard do not both do, an Apply makes the rendering of the database of *)
(* one moment the running one, or nothing.  A reset of the LAN, which        *)
(* empties the reservations under it, is the only other step that touches    *)
(* what runs.                                                               *)
THEOREM ApplyIsAtomic ==
  ASSUME ~EditDuringApply, ~(ScanRuns /\ WgChanges)
  PROVE  Spec => Promise!Init /\ [][Promise!Next \/ ResetHosts]_(Promise!vars)
<1> DEFINE Inv == TypeOK /\ JobIsCurrent /\ JobTyped
<1>1. Init => Inv /\ Promise!Init
  <2> SUFFICES ASSUME Init PROVE Inv /\ Promise!Init
    OBVIOUS
  <2>1. JobIsCurrent /\ JobTyped
    BY DEF Init, JobIsCurrent, JobTyped, NothingRead, Parts
  <2>2. TypeOK /\ Texts(Database) \in Configs
    BY TypeInit, DatabaseIn DEF Configs
  <2>3. Startable(DnsText(Database))
    BY DEF Init, Startable, DnsText, Database, Rows
  <2>4. live = Texts(Database) /\ InFlight = NothingRead
    BY DEF Init, InFlight, Unfixed
  <2> QED
    BY <2>1, <2>2, <2>3, <2>4, TextsAre DEF Promise!Init
<1>2. Inv /\ [Next]_vars => Inv'
  BY TypeStep, JobStep, JobTypedStep
<1>3. Inv /\ Inv' /\ [Next]_vars => [Promise!Next \/ ResetHosts]_(Promise!vars)
  BY PromiseStep
<1> HIDE DEF Inv
<1> QED
  BY <1>1, <1>2, <1>3, PTL DEF Spec
--------------------------------------------------------------------------------
LEMMA PeersKeepBlocks ==
  ASSUME TypeOK, Handlers \/ Scan \/ Others, NEW p \in Rows(peer_meta),
         peer_meta[p].blocked, ~peer_meta'[p].blocked
  PROVE  /\ peer_meta' = [peer_meta EXCEPT ![p].blocked = FALSE]
         /\ UNCHANGED <<acl_rules, internal_hosts>>
<1>1. /\ peer_meta \in [Peers -> PeerRow \cup {NoRow}] /\ p \in Peers
      /\ peer_meta[p] # NoRow /\ peer_meta[p] \in PeerRow
  BY DEF TypeOK, Rows
<1>2. ASSUME NEW q \in Peers, peer_meta' = [peer_meta EXCEPT ![q] = IF @ = NoRow THEN Peer0 ELSE @]
      PROVE  FALSE
  BY <1>1, <1>2
<1>3. ASSUME NEW q \in Peers, NEW field \in {"blocked", "tor_routed"}, TogglePeer(q, field)
      PROVE  /\ peer_meta' = [peer_meta EXCEPT ![p].blocked = FALSE]
             /\ UNCHANGED <<acl_rules, internal_hosts>>
  <2>1. UNCHANGED <<acl_rules, internal_hosts>>
    BY <1>3 DEF TogglePeer
  <2>2. q = p
    BY <1>1, <1>3 DEF TogglePeer
  <2>3. peer_meta' = [peer_meta EXCEPT ![p] = Toggled(peer_meta[p], field)]
    BY <1>1, <1>3, <2>2 DEF TogglePeer
  <2>4. field = "blocked"
    BY <1>1, <2>3 DEF Toggled, PeerRow
  <2>5. Toggled(peer_meta[p], "blocked") = [peer_meta[p] EXCEPT !.blocked = FALSE]
    BY <1>1 DEF Toggled, PeerRow
  <2> QED
    BY <2>1, <2>3, <2>4, <2>5
<1>4. \/ UNCHANGED peer_meta
      \/ \E q \in Peers : \/ \E field \in {"blocked", "tor_routed"} : TogglePeer(q, field)
                          \/ peer_meta' = [peer_meta EXCEPT ![q] = IF @ = NoRow THEN Peer0 ELSE @]
  BY OthersKeep DEF Handlers, SetLabel, AddAcl, ToggleAcl, DeleteAcl, AddSubnet, ToggleSubnet,
     DeleteSubnet, AddEgress, ToggleEgress, DeleteEgress, CreateHost, ToggleHost, SetHostIp,
     DeleteHost, ResetHosts, Scan, tables
<1> QED
  BY <1>2, <1>3, <1>4

LEMMA HostsKeepBlocks ==
  ASSUME TypeOK, Handlers \/ Scan \/ Others,
         NEW m \in Rows(internal_hosts) \cap Rows(internal_hosts'),
         internal_hosts[m].blocked, ~internal_hosts'[m].blocked
  PROVE  internal_hosts' = [internal_hosts EXCEPT ![m].blocked = FALSE]
<1> DEFINE Ok == internal_hosts' = [internal_hosts EXCEPT ![m].blocked = FALSE]
<1>1. /\ internal_hosts \in [Macs -> HostRow \cup {NoRow}] /\ m \in Macs
      /\ internal_hosts[m] # NoRow /\ internal_hosts[m] \in HostRow
      /\ internal_hosts'[m] # NoRow
  <2>1. m \in Macs /\ internal_hosts[m] # NoRow
    BY DEF TypeOK, Rows
  <2>2. internal_hosts'[m] # NoRow
    BY DEF Rows
  <2> QED
    BY <2>1, <2>2 DEF TypeOK
<1>2. ASSUME NEW n \in Macs, NEW ip \in Ips, NEW name \in Names \cup {NoName},
             CreateHost(n, ip, name)
      PROVE  FALSE
  BY <1>1, <1>2 DEF CreateHost, HostRow
<1>3. ASSUME NEW n \in Macs, NEW ip \in Ips, SetHostIp(n, ip) PROVE FALSE
  BY <1>1, <1>3 DEF SetHostIp, HostRow
<1>4. ASSUME NEW n \in Macs, DeleteHost(n) \/ ResetHosts PROVE FALSE
  BY <1>1, <1>4 DEF DeleteHost, ResetHosts
<1>5. ASSUME NEW n \in Macs, NEW field \in {"blocked", "tor_routed", "static"}, ToggleHost(n, field)
      PROVE  Ok
  <2>1. n = m
    BY <1>1, <1>5 DEF ToggleHost
  <2>2. internal_hosts' = [internal_hosts EXCEPT ![m] = Toggled(internal_hosts[m], field)]
    BY <1>1, <1>5, <2>1 DEF ToggleHost
  <2>3. field = "blocked"
    BY <1>1, <2>2 DEF Toggled, HostRow
  <2>4. Toggled(internal_hosts[m], "blocked") = [internal_hosts[m] EXCEPT !.blocked = FALSE]
    BY <1>1 DEF Toggled, HostRow
  <2> QED
    BY <2>2, <2>3, <2>4
<1>6. ASSUME Scan PROVE FALSE
  <2>1. \A ip, name : Upsert(internal_hosts[m], ip, name).blocked = internal_hosts[m].blocked
    BY <1>1 DEF Upsert, HostRow
  <2>2. internal_hosts'[m] = internal_hosts[m]
        \/ \E ip, name : internal_hosts'[m] = Upsert(internal_hosts[m], ip, name)
    BY <1>1, <1>6 DEF Scan
  <2> QED
    BY <2>1, <2>2
<1>7. \/ UNCHANGED internal_hosts \/ ResetHosts \/ Scan
      \/ \E n \in Macs :
         \/ \E ip \in Ips, name \in Names \cup {NoName} : CreateHost(n, ip, name)
         \/ \E field \in {"blocked", "tor_routed", "static"} : ToggleHost(n, field)
         \/ \E ip \in Ips : SetHostIp(n, ip)
         \/ DeleteHost(n)
  BY OthersKeep DEF Handlers, TogglePeer, SetLabel, AddAcl, ToggleAcl, DeleteAcl, AddSubnet,
     ToggleSubnet, DeleteSubnet, AddEgress, ToggleEgress, DeleteEgress, tables
<1> QED
  BY <1>1, <1>2, <1>3, <1>4, <1>5, <1>6, <1>7

(* Only an operator's own toggle, or the end of its row, lifts a block.     *)
THEOREM UnblockIsDeliberateAlways == Spec => UnblockIsDeliberate
<1>1. TypeOK /\ [Next]_vars =>
        [/\ \A p \in Rows(peer_meta) :
              peer_meta[p].blocked /\ ~peer_meta'[p].blocked =>
                /\ peer_meta' = [peer_meta EXCEPT ![p].blocked = FALSE]
                /\ UNCHANGED <<acl_rules, internal_hosts>>
         /\ \A m \in Rows(internal_hosts) \cap Rows(internal_hosts') :
              internal_hosts[m].blocked /\ ~internal_hosts'[m].blocked =>
                internal_hosts' = [internal_hosts EXCEPT ![m].blocked = FALSE]]_vars
  <2> SUFFICES ASSUME TypeOK, Handlers \/ Scan \/ Others
               PROVE
         /\ \A p \in Rows(peer_meta) :
              peer_meta[p].blocked /\ ~peer_meta'[p].blocked =>
                /\ peer_meta' = [peer_meta EXCEPT ![p].blocked = FALSE]
                /\ UNCHANGED <<acl_rules, internal_hosts>>
         /\ \A m \in Rows(internal_hosts) \cap Rows(internal_hosts') :
              internal_hosts[m].blocked /\ ~internal_hosts'[m].blocked =>
                internal_hosts' = [internal_hosts EXCEPT ![m].blocked = FALSE]
    BY NextIs DEF Others
  <2> QED
    BY PeersKeepBlocks, HostsKeepBlocks
<1> QED
  BY TypeCorrect, <1>1, PTL DEF Spec, UnblockIsDeliberate
================================================================================
