---------------------------- MODULE LanHostsProofs ----------------------------
(***************************************************************************)
(* Theorems about LanHosts, for any hosts, addresses and number of requests *)
(* that overlap.                                                            *)
(***************************************************************************)
EXTENDS LanHosts, TLAPS

HostRow == [ip : Ips, static : BOOLEAN]

ReqTypes == req \in [Threads -> Calls \cup {Idle}]

TypesInv ==
    /\ rows \in [Macs -> HostRow \cup {NoRow}]
    /\ {leases, neigh, file, res, mem} \subseteq Book
    /\ {up, enabled, unread, forced} \subseteq BOOLEAN
    /\ away \subseteq Macs /\ kept \subseteq Macs
    /\ ReqTypes

(* dnsmasq holds no lease while it is down, and the lease file has nothing  *)
(* it does not know of while it runs.                                       *)
LeasesAgree ==
    \A m \in Macs : IF up THEN leases[m] \in {mem[m], NoIp} ELSE mem[m] = NoIp

(* What a request does next, from its record alone. *)
LEMMA CallFields ==
  ASSUME NEW c \in Calls
  PROVE  /\ c # Idle
         /\ c.op \in {"neigh", "upsert"} => c.book \in Book
         /\ c.op \in {"delete", "release"} => c.mac \in Macs /\ c.ip \in Ips \cup {NoIp}
         /\ c.op = "snapshot" => c.book \in Book
         /\ c.op = "install" => c.book \in Book /\ c.old \in Book
         /\ c.op \in {"restart", "restore"} => c.old \in Book
         /\ c.op \in {"write", "systemctl"} => c.new \in BOOLEAN
  BY IdleAssumption DEF Calls

(* Going on to another step keeps the rest of the request.                  *)
LEMMA GoesOn ==
  ASSUME ReqTypes, NEW t \in Threads, NEW op, Goes(t, op),
         \/ Does(t, "delete") /\ op = "release"
         \/ \E old \in {"stop", "leases", "hosts"} :
              Does(t, old) /\ op \in {"leases", "hosts", "start"}
         \/ Does(t, "restart") /\ op = "restore"
         \/ Does(t, "write") /\ op = "systemctl"
  PROVE  /\ ReqTypes' /\ req'[t] \in Calls
         /\ req'[t].op = op
         /\ \A s \in Threads \ {t} : req'[s] = req[s]
         /\ op = "release" => req'[t].mac = req[t].mac /\ req'[t].ip = req[t].ip
         /\ op = "systemctl" => req'[t].new = req[t].new
<1>1. req[t] \in Calls
  BY DEF ReqTypes, Does
<1>2. req' = [req EXCEPT ![t] = [req[t] EXCEPT !.op = op]]
  BY DEF Goes
<1>3. [req[t] EXCEPT !.op = op] \in Calls
  <2>1. CASE Does(t, "delete") /\ op = "release"
    BY <1>1, <2>1 DEF Calls, Does
  <2>2. CASE \E old \in {"stop", "leases", "hosts"} :
              Does(t, old) /\ op \in {"leases", "hosts", "start"}
    BY <1>1, <2>2 DEF Calls, Does
  <2>3. CASE Does(t, "restart") /\ op = "restore"
    BY <1>1, <2>3 DEF Calls, Does
  <2>4. CASE Does(t, "write") /\ op = "systemctl"
    BY <1>1, <2>4 DEF Calls, Does
  <2> QED
    BY <2>1, <2>2, <2>3, <2>4
<1> QED
  BY <1>1, <1>2, <1>3 DEF ReqTypes, Calls

LEMMA StartsOn ==
  ASSUME ReqTypes, NEW t \in Threads, NEW c \in Calls, Starts(t, c)
  PROVE  ReqTypes' /\ req[t] = Idle /\ req'[t] = c /\ \A s \in Threads \ {t} : req'[s] = req[s]
  BY DEF ReqTypes, Starts

LEMMA EndsSo ==
  ASSUME ReqTypes, NEW t \in Threads, Ends(t)
  PROVE  ReqTypes' /\ req'[t] = Idle /\ \A s \in Threads \ {t} : req'[s] = req[s]
  BY DEF ReqTypes, Ends
--------------------------------------------------------------------------------
(* Types *)

LEMMA BookFacts ==
  /\ None \in Book
  /\ \A b \in Book, m \in Macs, ip \in Ips \cup {NoIp} : [b EXCEPT ![m] = ip] \in Book
  /\ TypesInv => Reservations \in Book
  /\ TypesInv => \A b \in Book : Merged(b) \in Book
<1>1. None \in Book
  BY DEF None, Book
<1>2. \A b \in Book, m \in Macs, ip \in Ips \cup {NoIp} : [b EXCEPT ![m] = ip] \in Book
  BY DEF Book
<1>3. TypesInv => Reservations \in Book
  BY DEF TypesInv, Reservations, Book, HostRow
<1>4. TypesInv => \A b \in Book : Merged(b) \in Book
  BY DEF TypesInv, Merged, Book
<1> QED
  BY <1>1, <1>2, <1>3, <1>4

LEMMA TypesInit == Init => TypesInv
  BY BookFacts DEF Init, TypesInv, ReqTypes

(* What dnsmasq's own steps keep. *)
DnsTypes == up \in BOOLEAN /\ {res, mem} \subseteq Book /\ unread \in BOOLEAN

LEMMA DnsmasqTypes ==
  ASSUME TypesInv
  PROVE  /\ Runs => DnsTypes'
         /\ Stop => DnsTypes'
         /\ Start => DnsTypes'
         /\ Restart => DnsTypes'
<1>2. Runs => DnsTypes'
  BY DEF Runs, DnsTypes, TypesInv
<1>3. Stop => DnsTypes'
  BY BookFacts DEF Stop, DnsTypes, TypesInv
<1>4. UNCHANGED <<dnsmasq, unread>> => DnsTypes'
  BY DEF dnsmasq, DnsTypes, TypesInv
<1> QED
  BY <1>2, <1>3, <1>4 DEF Start, Restart

LEMMA RequestTypes ==
  ASSUME TypesInv, NEW t \in Threads, Request(t) PROVE TypesInv'
<1>1. CASE ScanLeases(t)
  <2>1. [op |-> "neigh", book |-> leases] \in Calls
    BY DEF TypesInv, Calls
  <2> QED
    BY <1>1, <2>1, StartsOn DEF ScanLeases, TypesInv, dnsmasq, history
<1>2. CASE ScanNeigh(t)
  <2>1. [op |-> "upsert", book |-> Merged(req[t].book)] \in Calls
    BY <1>2, BookFacts, CallFields DEF ScanNeigh, TypesInv, ReqTypes, Does, Calls
  <2> QED
    BY <1>2, <2>1 DEF ScanNeigh, TypesInv, ReqTypes, dnsmasq, history
<1>3. CASE UpsertAll(t)
  <2>1. req[t].book \in Book
    BY <1>3, CallFields DEF UpsertAll, Does, TypesInv, ReqTypes
  <2>2. rows' \in [Macs -> HostRow \cup {NoRow}]
    BY <1>3, <2>1 DEF UpsertAll, Upsert, TypesInv, HostRow, Book
  <2> QED
    BY <1>3, <2>2, EndsSo DEF UpsertAll, TypesInv, dnsmasq, history
<1>4. CASE \E m \in Macs : DeleteReads(t, m)
  <2>1. PICK m \in Macs : DeleteReads(t, m)
    BY <1>4
  <2> DEFINE c == [op |-> "delete", mac |-> m, ip |-> IF rows[m] = NoRow THEN NoIp ELSE rows[m].ip]
  <2>2. c \in Calls
    BY DEF TypesInv, HostRow, Calls
  <2>3. Starts(t, c)
    BY <2>1 DEF DeleteReads
  <2> HIDE DEF c
  <2> QED
    BY <2>1, <2>2, <2>3, StartsOn DEF DeleteReads, TypesInv, dnsmasq, history
<1>5. CASE DeleteRow(t)
  <2>1. req[t].mac \in Macs
    BY <1>5, CallFields DEF DeleteRow, Does, TypesInv, ReqTypes
  <2> QED
    BY <1>5, <2>1, GoesOn DEF DeleteRow, TypesInv, dnsmasq
<1>6. CASE ReleaseLease(t)
  <2>1. req[t].mac \in Macs
    BY <1>6, CallFields DEF ReleaseLease, Does, TypesInv, ReqTypes
  <2>2. up' \in BOOLEAN /\ {res', mem', leases'} \subseteq Book
    <3>1. [mem EXCEPT ![req[t].mac] = NoIp] \in Book
      BY <2>1, BookFacts DEF TypesInv
    <3>2. CASE Leases(req[t].mac, NoIp)
      BY <3>1, <3>2 DEF Leases, TypesInv
    <3>3. CASE UNCHANGED <<dnsmasq, leases>>
      BY <3>3 DEF dnsmasq, TypesInv
    <3> QED
      BY <1>6, <3>2, <3>3 DEF ReleaseLease, Release
  <2>3. away' \subseteq Macs /\ kept' \subseteq Macs
    BY <1>6, <2>1 DEF ReleaseLease, TypesInv
  <2>4. ReqTypes'
    BY <1>6, EndsSo DEF ReleaseLease, TypesInv
  <2> QED
    BY <1>6, <2>2, <2>3, <2>4 DEF ReleaseLease, TypesInv
<1>7. CASE ReleaseFails(t) \/ ResetFails(t)
  BY <1>7, EndsSo DEF ReleaseFails, ResetFails, TypesInv, dnsmasq, history
<1>7a. CASE ResetPassesOver(t)
  BY <1>7a, GoesOn DEF ResetPassesOver, TypesInv, dnsmasq, history
<1>8. CASE ResetRows(t)
  <2>1. [op |-> "stop"] \in Calls
    BY DEF Calls
  <2> QED
    BY <1>8, <2>1, StartsOn DEF ResetRows, TypesInv, dnsmasq
<1>9. CASE ResetStops(t)
  BY <1>9, GoesOn, DnsmasqTypes DEF ResetStops, Switched, TypesInv, DnsTypes
<1>10. CASE TruncateLeases(t)
  BY <1>10, GoesOn, BookFacts DEF TruncateLeases, TypesInv, dnsmasq
<1>11. CASE TruncateHosts(t)
  BY <1>11, GoesOn, BookFacts DEF TruncateHosts, TypesInv, dnsmasq, history
<1>12. CASE ResetStarts(t)
  BY <1>12, EndsSo, DnsmasqTypes DEF ResetStarts, Switched, TypesInv, DnsTypes
<1>13. CASE Render(t)
  <2>1. [op |-> "snapshot", book |-> Reservations] \in Calls
    BY BookFacts DEF TypesInv, Calls
  <2> QED
    BY <1>13, <2>1, StartsOn DEF Render, TypesInv, dnsmasq, history
<1>13a. CASE Snapshot(t)
  <2>1. req[t].book \in Book
    BY <1>13a, CallFields DEF Snapshot, Does, TypesInv, ReqTypes
  <2>2. [op |-> "install", book |-> req[t].book, old |-> file] \in Calls
    BY <2>1 DEF TypesInv, Calls
  <2> QED
    BY <1>13a, <2>2 DEF Snapshot, TypesInv, ReqTypes, dnsmasq, history
<1>14. CASE Install(t)
  <2>1. req[t].book \in Book /\ req[t].old \in Book
    BY <1>14, CallFields DEF Install, Does, TypesInv, ReqTypes
  <2>2. [op |-> "restart", old |-> req[t].old] \in Calls
    BY <2>1 DEF Calls
  <2> QED
    BY <1>14, <2>1, <2>2 DEF Install, TypesInv, ReqTypes, dnsmasq, history
<1>15. CASE RestartDnsmasq(t)
  <2>1. ReqTypes'
    BY <1>15, GoesOn, EndsSo DEF RestartDnsmasq, TypesInv
  <2>2. DnsTypes' /\ forced' \in BOOLEAN
    BY <1>15, DnsmasqTypes DEF RestartDnsmasq, Switched, TypesInv, DnsTypes, dnsmasq
  <2> QED
    BY <1>15, <2>1, <2>2 DEF RestartDnsmasq, TypesInv, DnsTypes
<1>16. CASE Restore(t)
  <2>1. req[t].old \in Book
    BY <1>16, CallFields DEF Restore, Does, TypesInv, ReqTypes
  <2>2. [op |-> "again"] \in Calls
    BY DEF Calls
  <2> QED
    BY <1>16, <2>1, <2>2 DEF Restore, TypesInv, ReqTypes, dnsmasq, history
<1>17. CASE RestartAgain(t)
  BY <1>17, EndsSo, DnsmasqTypes DEF RestartAgain, Switched, TypesInv, DnsTypes, dnsmasq
<1>18. CASE ToggleReads(t)
  <2>1. [op |-> "write", new |-> ~enabled] \in Calls
    BY DEF TypesInv, Calls
  <2> QED
    BY <1>18, <2>1, StartsOn DEF ToggleReads, Toggling, Some, TypesInv, dnsmasq
<1>19. CASE ToggleWrites(t)
  <2>1. req[t].new \in BOOLEAN
    BY <1>19, CallFields DEF ToggleWrites, Does, TypesInv, ReqTypes
  <2> QED
    BY <1>19, <2>1, GoesOn DEF ToggleWrites, TypesInv, dnsmasq, history
<1>20. CASE Systemctl(t)
  <2>1. DnsTypes'
    BY <1>20, DnsmasqTypes DEF Systemctl, DnsTypes, dnsmasq, TypesInv
  <2>2. forced' \in BOOLEAN
    BY <1>20 DEF Systemctl
  <2> QED
    BY <1>20, <2>1, <2>2, EndsSo DEF Systemctl, TypesInv, DnsTypes
<1> QED
  BY <1>1, <1>2, <1>3, <1>4, <1>5, <1>6, <1>7, <1>7a, <1>8, <1>9, <1>10, <1>11, <1>12,
     <1>13, <1>13a, <1>14, <1>15, <1>16, <1>17, <1>18, <1>19, <1>20 DEF Request

LEMMA LanTypes ==
  ASSUME TypesInv, Lan \/ Edits \/ Reboot \/ PanelStops \/ UNCHANGED vars PROVE TypesInv'
<1>1. ASSUME NEW m \in Macs, HostAsks(m) PROVE TypesInv'
  <2>1. PICK ip \in Offers(m) : Leases(m, ip)
    BY <1>1 DEF HostAsks
  <2>2. ip \in Ips
    BY <2>1 DEF Offers, Free
  <2>3. mem' \in Book /\ leases' \in Book
    BY <2>1, <2>2, BookFacts DEF Leases, TypesInv
  <2>4. away' \subseteq Macs /\ kept' \subseteq Macs
    BY <1>1 DEF HostAsks, TypesInv
  <2> QED
    BY <1>1, <2>1, <2>3, <2>4 DEF HostAsks, Leases, TypesInv, ReqTypes
<1>2. ASSUME NEW m \in Macs, LeaseEnds(m) PROVE TypesInv'
  <2>1. mem' \in Book /\ leases' \in Book
    BY <1>2, BookFacts DEF LeaseEnds, Leases, TypesInv
  <2> QED
    BY <1>2, <2>1 DEF LeaseEnds, Leases, TypesInv, ReqTypes
<1>3. ASSUME NEW m \in Macs, NEW ip \in Ips \cup {NoIp}, Hears(m, ip) PROVE TypesInv'
  <2>1. neigh' \in Book
    BY <1>3, BookFacts DEF Hears, TypesInv
  <2>2. away' \subseteq Macs
    BY <1>3 DEF Hears, TypesInv
  <2> QED
    BY <1>3, <2>1, <2>2 DEF Hears, TypesInv, ReqTypes, dnsmasq
<1>4. ASSUME NEW m \in Macs, NEW row \in HostRow, Edit(m, row), away' \subseteq away
      PROVE  TypesInv'
  BY <1>4 DEF Edit, TypesInv, ReqTypes, dnsmasq
<1>5. CASE Edits
  <2>1. PICK m \in Macs : ToggleStatic(m) \/ \E ip \in Ips : CreateHost(m, ip) \/ SetHostIp(m, ip)
    BY <1>5 DEF Edits
  <2>2. \A ip \in Ips : [ip |-> ip, static |-> TRUE] \in HostRow
    BY DEF HostRow
  <2>3. rows[m] # NoRow => [rows[m] EXCEPT !.static = ~@] \in HostRow
    BY DEF TypesInv, HostRow
  <2> QED
    BY <1>4, <2>1, <2>2, <2>3 DEF ToggleStatic, CreateHost, SetHostIp
<1>6. CASE Reboot
  BY <1>6, BookFacts DEF Reboot, TypesInv, ReqTypes, Toggling, Some
<1>7. CASE UNCHANGED vars
  BY <1>7 DEF vars, TypesInv, ReqTypes, dnsmasq, history
<1>8. CASE PanelStops
  BY <1>8 DEF PanelStops, TypesInv, ReqTypes, dnsmasq, Toggling, RestartAhead, Some
<1> QED
  BY <1>1, <1>2, <1>3, <1>5, <1>6, <1>7, <1>8 DEF Lan

(* Every row, lease and reservation keeps its type, and so does what each   *)
(* request under way still holds from an earlier read: the address of a row *)
(* that is being deleted, the leases and neighbours a scan has yet to write *)
(* back, the file an Apply may have to restore.                             *)
THEOREM TypeCorrect == Spec => []TypesInv
<1>1. TypesInv /\ [Next]_vars => TypesInv'
  BY RequestTypes, LanTypes DEF Next
<1> QED
  BY <1>1, TypesInit, PTL DEF Spec
--------------------------------------------------------------------------------
(* What dnsmasq serves.  Unless the file changed past it, a dnsmasq that     *)
(* runs and does not serve the file will be restarted by an Apply that is    *)
(* still running.                                                           *)
DnsInv == up /\ ~unread /\ res # file => RestartAhead

(* A step of one request leaves the others where they are. *)
LEMMA OthersStay ==
  ASSUME TypesInv, NEW t \in Threads, Request(t)
  PROVE  \A s \in Threads \ {t} : req'[s] = req[s]
<1>1. \/ (\E c : Starts(t, c)) \/ Ends(t) \/ (\E op : Goes(t, op))
      \/ \E c : req' = [req EXCEPT ![t] = c]
  BY DEF Request, ScanLeases, ScanNeigh, UpsertAll, DeleteReads, DeleteRow, ReleaseLease,
         ReleaseFails, ResetRows, ResetFails, ResetPassesOver, ResetStops, TruncateLeases,
         TruncateHosts, ResetStarts, Render, Snapshot, Install, RestartDnsmasq, Restore,
         RestartAgain, ToggleReads,
         ToggleWrites, Systemctl
<1> QED
  BY <1>1 DEF Starts, Ends, Goes, TypesInv, ReqTypes

(* A request counts as one of some kind by what the others do and by itself. *)
LEMMA SomeSplits ==
  ASSUME NEW t \in Threads, NEW ops
  PROVE  Some(ops) <=> \/ \E op \in ops : Does(t, op)
                       \/ \E s \in Threads \ {t} : \E op \in ops : Does(s, op)
  BY DEF Some

LEMMA SomeMoves ==
  ASSUME TypesInv, NEW t \in Threads, Request(t), NEW ops
  PROVE  Some(ops)' <=> \/ \E op \in ops : Does(t, op)'
                        \/ \E s \in Threads \ {t} : \E op \in ops : Does(s, op)
<1>1. \A s \in Threads \ {t}, op \in ops : Does(s, op)' <=> Does(s, op)
  BY OthersStay DEF Does
<1> QED
  BY <1>1 DEF Some

(* How a step may touch dnsmasq and its file. *)
LEMMA DnsFrom ==
  ASSUME DnsInv,
         \/ up' = FALSE
         \/ Runs /\ file' = file
         \/ unread' = TRUE
         \/ /\ UNCHANGED <<up, res, unread>>
            /\ RestartAhead' \/ (file' = file /\ (RestartAhead => RestartAhead'))
  PROVE  DnsInv'
  BY DEF DnsInv, Runs

LEMMA RequestDns ==
  ASSUME TypesInv, DnsInv, NEW t \in Threads, Request(t) PROVE DnsInv'
<1> DEFINE late == {"restart", "restore", "again"}
           Late == \E op \in late : Does(t, op)
<1>1. /\ RestartAhead <=> Late \/ \E s \in Threads \ {t} : \E op \in late : Does(s, op)
      /\ RestartAhead' <=> Late' \/ \E s \in Threads \ {t} : \E op \in late : Does(s, op)
  BY SomeSplits, SomeMoves DEF RestartAhead
<1>2. CASE ScanLeases(t) \/ (\E m \in Macs : DeleteReads(t, m)) \/ ResetRows(t) \/ Render(t)
           \/ ToggleReads(t)
  <2>1. req[t] = Idle
    BY <1>2 DEF ScanLeases, DeleteReads, ResetRows, Render, ToggleReads, Starts
  <2>2. UNCHANGED <<up, res, file, unread>>
    BY <1>2 DEF ScanLeases, DeleteReads, ResetRows, Render, ToggleReads, dnsmasq, history
  <2> QED
    BY <1>1, <2>1, <2>2, DnsFrom DEF Does
<1>3. CASE ScanNeigh(t) \/ UpsertAll(t) \/ DeleteRow(t) \/ ReleaseLease(t) \/ ReleaseFails(t)
           \/ ResetFails(t) \/ ResetPassesOver(t) \/ TruncateLeases(t) \/ Snapshot(t)
           \/ ToggleWrites(t)
  <2>1. ~Late
    BY <1>3 DEF ScanNeigh, UpsertAll, DeleteRow, ReleaseLease, ReleaseFails, ResetFails,
         ResetPassesOver, TruncateLeases, Snapshot, ToggleWrites, Does
  <2>2. UNCHANGED <<up, res, file, unread>>
    BY <1>3 DEF ScanNeigh, UpsertAll, DeleteRow, ReleaseLease, Release, Leases, ReleaseFails,
         ResetFails, ResetPassesOver, TruncateLeases, Snapshot, ToggleWrites, dnsmasq, history
  <2> QED
    BY <1>1, <2>1, <2>2, DnsFrom
<1>4. CASE ResetStops(t)
  BY <1>4, DnsFrom DEF ResetStops, Stop
<1>5. CASE TruncateHosts(t)
  BY <1>5, DnsFrom DEF TruncateHosts, dnsmasq, TypesInv
<1>6. CASE ResetStarts(t) \/ Systemctl(t)
  <2>1. ~Late /\ file' = file
    BY <1>6 DEF ResetStarts, Systemctl, Does
  <2>2. Runs \/ Stop \/ UNCHANGED <<dnsmasq, unread>>
    BY <1>6 DEF ResetStarts, Systemctl, Start
  <2> QED
    BY <1>1, <2>1, <2>2, DnsFrom DEF Stop, dnsmasq
<1>7. CASE Install(t) \/ Restore(t)
  <2>1. Late'
    <3>1. PICK c : c.op \in late /\ c \in Calls /\ req'[t] = c
      <4>1. req[t] \in Calls
        BY <1>7 DEF Install, Restore, Does, TypesInv, ReqTypes
      <4>2. Install(t) => [op |-> "restart", old |-> req[t].old] \in Calls
        BY <4>1, CallFields DEF Install, Does, Calls
      <4>3. [op |-> "again"] \in Calls
        BY DEF Calls
      <4> QED
        BY <1>7, <4>2, <4>3 DEF Install, Restore, TypesInv, ReqTypes
    <3> QED
      BY <3>1, CallFields DEF Does
  <2>2. UNCHANGED <<up, res, unread>>
    BY <1>7 DEF Install, Restore, dnsmasq, history
  <2> QED
    BY <1>1, <2>1, <2>2, DnsFrom
<1>8. CASE RestartDnsmasq(t)
  <2>1. file' = file /\ (Goes(t, "restore") => Late')
    BY <1>8, GoesOn, CallFields DEF RestartDnsmasq, Does, TypesInv
  <2>2. Runs \/ Stop \/ (UNCHANGED <<dnsmasq, unread>> /\ Goes(t, "restore"))
    BY <1>8 DEF RestartDnsmasq, Restart
  <2> QED
    BY <1>1, <2>1, <2>2, DnsFrom DEF Stop, dnsmasq
<1>9. CASE RestartAgain(t)
  <2>1. file' = file
    BY <1>9 DEF RestartAgain
  <2>2. Runs \/ Stop \/ unread' = TRUE
    BY <1>9 DEF RestartAgain, Restart
  <2> QED
    BY <2>1, <2>2, DnsFrom DEF Stop
<1> QED
  BY <1>2, <1>3, <1>4, <1>5, <1>6, <1>7, <1>8, <1>9 DEF Request

LEMMA LanDns ==
  ASSUME TypesInv, DnsInv, Lan \/ Edits \/ Reboot \/ PanelStops \/ UNCHANGED vars
  PROVE  DnsInv'
<1>1. CASE Lan \/ Edits \/ UNCHANGED vars
  <2>1. UNCHANGED <<up, res, file, unread, req>>
    BY <1>1 DEF Lan, HostAsks, LeaseEnds, Hears, Leases, Edits, ToggleStatic, CreateHost,
                SetHostIp, Edit, vars, dnsmasq, history
  <2> QED
    BY <2>1 DEF DnsInv, RestartAhead, Some, Does
<1>2. CASE Reboot
  BY <1>2 DEF Reboot, DnsInv
<1>3. CASE PanelStops
  BY <1>3 DEF PanelStops, DnsInv, dnsmasq, TypesInv
<1> QED
  BY <1>1, <1>2, <1>3

(* However many Applies, resets and toggles overlap, what dnsmasq serves    *)
(* once they are over is what the file says, unless a reset emptied the file *)
(* under a dnsmasq that ran, the panel stopped before an Apply's restart, or *)
(* the restart of a rollback failed, and it was not started since.          *)
THEOREM DnsmasqFollowsFile == Spec => []DnsmasqRunsTheFile
<1>1. Init => DnsInv
  BY DEF Init, DnsInv, None
<1>2. TypesInv /\ DnsInv /\ [Next]_vars => DnsInv'
  BY RequestDns, LanDns DEF Next
<1>3. DnsInv => DnsmasqRunsTheFile
  BY DEF DnsInv, DnsmasqRunsTheFile, RestartAhead, Some, Does, Quiet
<1> QED
  BY <1>1, <1>2, <1>3, TypeCorrect, PTL DEF Spec
--------------------------------------------------------------------------------
(* What is known of a host.  One that is away is in no table, and no scan    *)
(* has seen it; one that keeps its pin is leased it, and no scan under way   *)
(* will write another address.                                              *)
Silent(m) ==
    /\ rows[m] = NoRow
    /\ neigh[m] = NoIp /\ leases[m] = NoIp /\ mem[m] = NoIp
    /\ \A t \in Threads : Scans(t) => req[t].book[m] = NoIp

Held(m) ==
    /\ leases[m] # NoIp /\ Pinned(m, leases[m])
    /\ up => mem[m] = leases[m]
    /\ ScansAgree(m, leases[m])

HostsInv ==
    /\ LeasesAgree
    /\ \A m \in away : Silent(m)
    /\ \A m \in kept : Held(m)

(* Scans may end, and go on as they are. *)
ScansGoOn == \A s \in Threads : \A op \in {"neigh", "upsert"} :
    Does(s, op)' => Does(s, op) /\ req'[s].book = req[s].book

LEMMA BooksKept ==
  ASSUME TypesInv, NEW t \in Threads, Request(t), ~Scans(t)' PROVE ScansGoOn
  BY OthersStay DEF ScansGoOn, Scans, Does

(* What a step that starts no scan keeps of the scans under way.            *)
LEMMA ScansStay ==
  ASSUME ScansGoOn
  PROVE  /\ \A m, ip : ScansAgree(m, ip) => ScansAgree(m, ip)'
         /\ \A m \in Macs : (\A s \in Threads : Scans(s) => req[s].book[m] = NoIp)
                            => (\A s \in Threads : Scans(s) => req[s].book[m] = NoIp)'
  BY DEF ScansGoOn, ScansAgree, Scans

(* Whatever dnsmasq does at a start or a stop, the leases stay in the file.  *)
LEMMA ServiceKeepsHosts ==
  ASSUME TypesInv, HostsInv, UNCHANGED <<rows, neigh, leases>>, away' = away, kept' = kept,
         Runs \/ Stop \/ UNCHANGED dnsmasq,
         ScansGoOn
  PROVE  HostsInv'
<1>1. LeasesAgree'
  BY DEF LeasesAgree, Runs, Stop, None, HostsInv, dnsmasq
<1>2. ASSUME NEW m \in away PROVE Silent(m)'
  BY <1>2, ScansStay DEF TypesInv, HostsInv, Silent, Runs, Stop, None, dnsmasq
<1>3. ASSUME NEW m \in kept PROVE Held(m)'
  BY <1>3, ScansStay DEF TypesInv, HostsInv, Held, Pinned, Runs, Stop, None, dnsmasq
<1> QED
  BY <1>1, <1>2, <1>3 DEF HostsInv

LEMMA RequestHosts ==
  ASSUME TypesInv, HostsInv, NEW t \in Threads, Request(t) PROVE HostsInv'
<1>1. ~Scans(t)' => ScansGoOn
  BY BooksKept
<1>2. \A s \in Threads \ {t} : req'[s] = req[s] /\ (Scans(s)' <=> Scans(s))
                               /\ \A op : Does(s, op)' <=> Does(s, op)
  BY OthersStay DEF Scans, Does
<1>3. CASE ScanLeases(t)
  <2>1. req'[t].book = leases
    BY <1>3 DEF ScanLeases, Starts, TypesInv, ReqTypes
  <2>2. UNCHANGED <<rows, leases, neigh, dnsmasq, away, kept>>
    BY <1>3 DEF ScanLeases, history
  <2> QED
    BY <1>2, <2>1, <2>2 DEF HostsInv, LeasesAgree, Silent, Held, Pinned, ScansAgree, dnsmasq
<1>4. CASE ScanNeigh(t)
  <2>1. req'[t].book = Merged(req[t].book) /\ Scans(t) /\ Does(t, "neigh")
    BY <1>4 DEF ScanNeigh, TypesInv, ReqTypes, Scans
  <2>2. UNCHANGED <<rows, leases, neigh, dnsmasq, away, kept>>
    BY <1>4 DEF ScanNeigh, history
  <2>3. \A m \in Macs : Merged(req[t].book)[m] =
           IF req[t].book[m] # NoIp THEN req[t].book[m] ELSE neigh[m]
    BY DEF Merged
  <2> QED
    BY <1>2, <2>1, <2>2, <2>3 DEF HostsInv, LeasesAgree, Silent, Held, Pinned, ScansAgree,
         dnsmasq, TypesInv
<1>5. CASE UpsertAll(t)
  <2>1. ~Scans(t)' /\ Scans(t)
    BY <1>5, EndsSo DEF UpsertAll, Scans, Does, TypesInv
  <2>2. UNCHANGED <<leases, neigh, dnsmasq, away, kept>>
    BY <1>5 DEF UpsertAll, history
  <2>3. ASSUME NEW m \in away PROVE rows'[m] = NoRow
    BY <1>5, <2>1 DEF UpsertAll, HostsInv, Silent, TypesInv
  <2>4. ASSUME NEW m \in kept PROVE rows'[m] = rows[m]
    <3>1. rows[m] # NoRow /\ rows[m].ip = leases[m] /\ req[t].book[m] \in {leases[m], NoIp}
          /\ rows[m] \in HostRow
      BY <1>5 DEF UpsertAll, HostsInv, Held, Pinned, ScansAgree, TypesInv
    <3> QED
      BY <1>5, <3>1 DEF UpsertAll, Upsert, TypesInv, HostRow
  <2> QED
    BY <1>1, <2>1, <2>2, <2>3, <2>4, ScansStay DEF HostsInv, LeasesAgree, Silent, Held,
         Pinned, dnsmasq, TypesInv
<1>6. CASE \E m \in Macs : DeleteReads(t, m)
  <2>1. ~Scans(t)' /\ UNCHANGED <<rows, leases, neigh, dnsmasq, away, kept>>
    BY <1>6 DEF DeleteReads, Starts, Scans, Does, TypesInv, ReqTypes, history
  <2> QED
    BY <1>1, <2>1, ServiceKeepsHosts
<1>7. CASE DeleteRow(t)
  <2>1. ~Scans(t)'
    BY <1>7, GoesOn DEF DeleteRow, Scans, Does, TypesInv
  <2>2. UNCHANGED <<leases, neigh, dnsmasq, away>> /\ kept' = kept \ {req[t].mac}
    BY <1>7 DEF DeleteRow
  <2>3. \A m \in Macs : rows'[m] = IF m = req[t].mac THEN NoRow ELSE rows[m]
    BY <1>7 DEF DeleteRow, TypesInv
  <2> QED
    BY <1>1, <2>1, <2>2, <2>3, ScansStay DEF HostsInv, LeasesAgree, Silent, Held, Pinned,
         dnsmasq, TypesInv
<1>8. CASE ReleaseFails(t) \/ ResetFails(t) \/ ResetPassesOver(t)
  <2>1. ~Scans(t)' /\ UNCHANGED <<rows, leases, neigh, dnsmasq, away, kept>>
    BY <1>8, EndsSo, GoesOn DEF ReleaseFails, ResetFails, ResetPassesOver, Scans, Does,
         TypesInv, history
  <2> QED
    BY <1>1, <2>1, ServiceKeepsHosts
<1>9. CASE ReleaseLease(t)
  <2> DEFINE h == req[t].mac
             ip == req[t].ip
  <2>1. ~Scans(t)' /\ h \in Macs
    BY <1>9, EndsSo, CallFields DEF ReleaseLease, Scans, Does, TypesInv, ReqTypes
  <2>2. UNCHANGED <<rows, neigh, up>> /\ kept' = kept \ {h}
    BY <1>9 DEF ReleaseLease, Release, Leases, dnsmasq
  <2>3. \A m \in Macs \ {h} : mem'[m] = mem[m] /\ leases'[m] \in {leases[m], mem[m]}
                              /\ (~up => leases'[m] = leases[m])
    BY <1>9 DEF ReleaseLease, Release, Leases, TypesInv, Book, dnsmasq
  <2>4. \/ up /\ ip # NoIp /\ mem[h] = ip /\ mem'[h] = NoIp /\ leases'[h] = NoIp
        \/ ~(up /\ ip # NoIp /\ mem[h] = ip) /\ mem'[h] = mem[h] /\ leases'[h] = leases[h]
    BY <1>9, <2>1 DEF ReleaseLease, Release, Leases, TypesInv, Book, dnsmasq
  <2> HIDE DEF h, ip
  <2>5. LeasesAgree'
    BY <2>2, <2>3, <2>4 DEF HostsInv, LeasesAgree
  <2>6. \A m \in away' : m \in away \/ (m = h /\ Silenced(h) /\ up /\ mem[h] \in {NoIp, ip})
    BY <1>9 DEF ReleaseLease, h, ip
  <2>7. ASSUME NEW m \in away' PROVE Silent(m)'
    <3>1. CASE m \in away
      BY <1>1, <2>1, <2>2, <2>3, <2>4, <3>1, ScansStay DEF HostsInv, Silent, TypesInv
    <3>2. CASE m = h /\ Silenced(h) /\ up /\ mem[h] \in {NoIp, ip}
      <4>1. mem'[m] = NoIp /\ leases'[m] = NoIp
        BY <2>1, <2>4, <3>2 DEF HostsInv, LeasesAgree
      <4> QED
        BY <1>1, <2>1, <2>2, <3>2, <4>1, ScansStay DEF Silenced, Silent
    <3> QED
      BY <2>6, <2>7, <3>1, <3>2
  <2>8. ASSUME NEW m \in kept' PROVE Held(m)'
    BY <1>1, <2>1, <2>2, <2>3, <2>8, ScansStay DEF HostsInv, Held, Pinned, TypesInv
  <2> QED
    BY <2>5, <2>7, <2>8 DEF HostsInv
<1>10. CASE ResetRows(t)
  <2>1. ~Scans(t)' /\ UNCHANGED <<leases, neigh, dnsmasq, away>> /\ kept' = {}
    BY <1>10 DEF ResetRows, Starts, Scans, Does, TypesInv, ReqTypes
  <2>2. \A m \in Macs : rows'[m] = NoRow
    BY <1>10 DEF ResetRows
  <2> QED
    BY <1>1, <2>1, <2>2, ScansStay DEF HostsInv, LeasesAgree, Silent, dnsmasq, TypesInv
<1>11. CASE ResetStops(t)
  <2>1. ~Scans(t)' /\ Stop /\ UNCHANGED <<rows, leases, neigh, away, kept>>
    BY <1>11, GoesOn DEF ResetStops, Scans, Does, TypesInv
  <2> QED
    BY <1>1, <2>1, ServiceKeepsHosts
<1>12. CASE TruncateLeases(t)
  <2>1. ~Scans(t)' /\ UNCHANGED <<rows, neigh, dnsmasq>> /\ kept' = {} /\ leases' = None
    BY <1>12, GoesOn DEF TruncateLeases, Scans, Does, TypesInv
  <2>2. \A m \in Macs : leases'[m] = NoIp
    BY <2>1 DEF None
  <2>3. ASSUME NEW m \in away' \ away
        PROVE  ~up /\ Silenced(m) /\ m \in Macs
    BY <1>12, <2>3 DEF TruncateLeases
  <2>4. ASSUME NEW m \in away' PROVE Silent(m)'
    <3>1. CASE m \in away
      BY <1>1, <2>1, <2>2, <3>1, ScansStay DEF HostsInv, Silent, TypesInv, dnsmasq
    <3>2. CASE m \notin away
      BY <1>1, <2>1, <2>2, <2>3, <2>4, <3>2, ScansStay DEF HostsInv, LeasesAgree,
           Silenced, Silent, dnsmasq
    <3> QED
      BY <3>1, <3>2
  <2> QED
    BY <2>1, <2>2, <2>4 DEF HostsInv, LeasesAgree, dnsmasq
<1>13. CASE TruncateHosts(t)
  <2>1. ~Scans(t)' /\ UNCHANGED <<rows, leases, neigh, dnsmasq, away, kept>>
    BY <1>13, GoesOn DEF TruncateHosts, Scans, Does, TypesInv, history
  <2> QED
    BY <1>1, <2>1, ServiceKeepsHosts
<1>14. CASE ResetStarts(t) \/ RestartAgain(t) \/ Systemctl(t)
  <2>1. ~Scans(t)' /\ UNCHANGED <<rows, leases, neigh, away, kept>>
    BY <1>14, EndsSo DEF ResetStarts, RestartAgain, Systemctl, Scans, Does, TypesInv
  <2>2. Runs \/ Stop \/ UNCHANGED dnsmasq
    BY <1>14 DEF dnsmasq, ResetStarts, RestartAgain, Systemctl, Start, Restart
  <2> QED
    BY <1>1, <2>1, <2>2, ServiceKeepsHosts
<1>15. CASE Render(t) \/ ToggleReads(t)
  <2>1. ~Scans(t)' /\ UNCHANGED <<rows, leases, neigh, dnsmasq, away, kept>>
    BY <1>15 DEF Render, ToggleReads, Starts, Scans, Does, TypesInv, ReqTypes, history
  <2> QED
    BY <1>1, <2>1, ServiceKeepsHosts
<1>16. CASE Snapshot(t) \/ Install(t) \/ Restore(t)
  <2>1. ~Scans(t)' /\ UNCHANGED <<rows, leases, neigh, dnsmasq, away, kept>>
    BY <1>16 DEF Snapshot, Install, Restore, Scans, Does, TypesInv, ReqTypes, history
  <2> QED
    BY <1>1, <2>1, ServiceKeepsHosts
<1>17. CASE RestartDnsmasq(t)
  <2>1. ~Scans(t)' /\ UNCHANGED <<rows, leases, neigh, away, kept>>
    BY <1>17, EndsSo, GoesOn DEF RestartDnsmasq, Scans, Does, TypesInv
  <2>2. Runs \/ Stop \/ UNCHANGED dnsmasq
    BY <1>17 DEF RestartDnsmasq, Restart
  <2> QED
    BY <1>1, <2>1, <2>2, ServiceKeepsHosts
<1>18. CASE ToggleWrites(t)
  <2>1. ~Scans(t)' /\ UNCHANGED <<rows, leases, neigh, dnsmasq, away, kept>>
    BY <1>18, GoesOn DEF ToggleWrites, Scans, Does, TypesInv, history
  <2> QED
    BY <1>1, <2>1, ServiceKeepsHosts
<1> QED
  BY <1>3, <1>4, <1>5, <1>6, <1>7, <1>8, <1>9, <1>10, <1>11, <1>12, <1>13, <1>14, <1>15,
     <1>16, <1>17, <1>18 DEF Request

LEMMA LanStepsHosts ==
  ASSUME TypesInv, HostsInv, Lan \/ Edits \/ Reboot \/ PanelStops \/ UNCHANGED vars
  PROVE  HostsInv'
<1>1. ASSUME NEW h \in Macs, HostAsks(h) PROVE HostsInv'
  <2>1. PICK ip \in Offers(h) :
          /\ up /\ Leases(h, ip) /\ away' = away \ {h}
          /\ kept' = IF Pinned(h, ip) /\ ScansAgree(h, ip) THEN kept \cup {h}
                     ELSE IF ip = mem[h] THEN kept ELSE kept \ {h}
          /\ UNCHANGED <<rows, neigh, req>>
    BY <1>1 DEF HostAsks
  <2>2. ip \in Ips /\ ip # NoIp
    BY <2>1, NullAssumption DEF Offers, Free
  <2>3. up' = up /\ leases' = mem' /\ mem'[h] = ip /\ \A m \in Macs \ {h} : mem'[m] = mem[m]
    BY <2>1 DEF Leases, TypesInv, Book
  <2>4. ScansGoOn
    BY <2>1 DEF ScansGoOn, Does
  <2>5. ASSUME NEW m \in away' PROVE Silent(m)'
    BY <2>1, <2>3, <2>4, <2>5, ScansStay DEF HostsInv, Silent, TypesInv
  <2>6. ASSUME NEW m \in kept' PROVE Held(m)'
    <3>1. CASE m # h
      BY <2>1, <2>3, <2>4, <2>6, <3>1, ScansStay DEF HostsInv, Held, Pinned, TypesInv
    <3>2. CASE m = h /\ Pinned(h, ip) /\ ScansAgree(h, ip)
      BY <2>1, <2>2, <2>3, <2>4, <3>2, ScansStay DEF Held, Pinned
    <3>3. CASE m = h /\ m \in kept /\ ip = mem[h]
      BY <2>1, <2>2, <2>3, <2>4, <3>3, ScansStay DEF HostsInv, Held, Pinned
    <3> QED
      BY <2>1, <2>6, <3>1, <3>2, <3>3
  <2> QED
    BY <2>1, <2>3, <2>5, <2>6 DEF HostsInv, LeasesAgree
<1>2. ASSUME NEW h \in Macs, LeaseEnds(h) PROVE HostsInv'
  <2>1. /\ up /\ up' = up /\ leases' = mem' /\ mem'[h] = NoIp
        /\ \A m \in Macs \ {h} : mem'[m] = mem[m]
    BY <1>2 DEF LeaseEnds, Leases, TypesInv, Book
  <2>2. UNCHANGED <<rows, neigh, req, away>> /\ kept' = kept \ {h}
    BY <1>2 DEF LeaseEnds
  <2> QED
    BY <2>1, <2>2 DEF HostsInv, LeasesAgree, Silent, Held, Pinned, ScansAgree, Scans, Does,
         TypesInv
<1>3. ASSUME NEW h \in Macs, NEW ip \in Ips \cup {NoIp}, Hears(h, ip) PROVE HostsInv'
  <2>1. /\ neigh'[h] = ip /\ \A m \in Macs \ {h} : neigh'[m] = neigh[m]
        /\ away' = (IF ip = NoIp THEN away ELSE away \ {h})
        /\ UNCHANGED <<rows, leases, dnsmasq, req, kept>>
    BY <1>3 DEF Hears, TypesInv, Book
  <2> QED
    BY <2>1 DEF HostsInv, LeasesAgree, Silent, Held, Pinned, ScansAgree, Scans, Does, TypesInv,
         dnsmasq
<1>4. ASSUME NEW h \in Macs, NEW row, Edit(h, row), away' \subseteq away, h \notin away'
      PROVE  HostsInv'
  <2>1. /\ \A m \in Macs \ {h} : rows'[m] = rows[m]
        /\ UNCHANGED <<leases, neigh, dnsmasq, req>> /\ kept' = kept \ {h}
    BY <1>4 DEF Edit, TypesInv
  <2> QED
    BY <1>4, <2>1 DEF HostsInv, LeasesAgree, Silent, Held, Pinned, ScansAgree, Scans, Does,
         TypesInv, dnsmasq
<1>5. CASE Edits
  <2>1. \A h \in Macs : rows[h] # NoRow => h \notin away
    BY DEF HostsInv, Silent
  <2> QED
    BY <1>4, <1>5, <2>1 DEF Edits, ToggleStatic, CreateHost, SetHostIp
<1>6. CASE Reboot
  <2>1. \A s \in Threads : ~Scans(s)' /\ ~Does(s, "neigh")' /\ ~Does(s, "upsert")'
    BY <1>6 DEF Reboot, Scans, Does
  <2>2. UNCHANGED <<rows, leases, away, kept>> /\ \A m \in Macs : neigh'[m] = NoIp
    BY <1>6 DEF Reboot, None
  <2>3. \A m \in Macs : None[m] = NoIp
    BY DEF None
  <2> QED
    BY <1>6, <2>1, <2>2, <2>3 DEF Reboot, HostsInv, LeasesAgree, Silent, Held, Pinned,
         ScansAgree, TypesInv
<1>7. CASE UNCHANGED vars
  BY <1>7 DEF vars, dnsmasq, history, HostsInv, LeasesAgree, Silent, Held, Pinned,
       ScansAgree, Scans, Does
<1>8. CASE PanelStops
  <2>1. ScansGoOn
    BY <1>8 DEF PanelStops, ScansGoOn, Does
  <2>2. UNCHANGED <<rows, neigh, leases, dnsmasq, away, kept>>
    BY <1>8 DEF PanelStops
  <2> QED
    BY <2>1, <2>2, ServiceKeepsHosts
<1> QED
  BY <1>1, <1>2, <1>3, <1>5, <1>6, <1>7, <1>8 DEF Lan

LEMMA HostsHold == Spec => []HostsInv
<1>1. Init => HostsInv
  BY DEF Init, HostsInv, LeasesAgree, None
<1>2. TypesInv /\ HostsInv /\ [Next]_vars => HostsInv'
  BY RequestHosts, LanStepsHosts DEF Next
<1> QED
  BY <1>1, <1>2, TypeCorrect, PTL DEF Spec

(* A host that was deleted or wiped, of which nothing but a lease could      *)
(* still tell, and whose lease went with it, is brought back by no scan,     *)
(* whatever Applies, resets and other scans overlap, until it speaks or is   *)
(* created.  Its lease did not go, and it is not among these hosts, if       *)
(* dhcp_release failed, dnsmasq was down, or the lease was at an address     *)
(* other than the one delete had looked up; nor if a scan that was under way *)
(* had read of it.                                                          *)
THEOREM SilentHostsStayAway == Spec => []AwayStaysAway
<1>1. HostsInv => AwayStaysAway
  BY DEF HostsInv, Silent, AwayStaysAway
<1> QED
  BY <1>1, HostsHold, PTL

(* A host that leases the address it is pinned to keeps its pin through     *)
(* every scan that starts after that, and every scan under way that had read *)
(* the same lease, whatever the neighbour table says, as long as the lease   *)
(* lasts.  A scan that had read something else is not covered.              *)
THEOREM LeasedPinsAreKept == Spec => []KeptPinsHold
<1>1. HostsInv => KeptPinsHold
  BY DEF HostsInv, Held, KeptPinsHold
<1> QED
  BY <1>1, HostsHold, PTL
--------------------------------------------------------------------------------
(* The toggle.  As long as nothing has switched dnsmasq past the setting, one *)
(* toggle at most is under way, and only before its command may the setting *)
(* and the service differ.                                                  *)
Toggles(t) == Does(t, "write") \/ Does(t, "systemctl")

ToggleInv == ~forced =>
    /\ \A s, t \in Threads : Toggles(s) /\ Toggles(t) => s = t
    /\ \A t \in Threads : Does(t, "systemctl") => req[t].new = enabled
    /\ (\A t \in Threads : ~Toggles(t)) => enabled = up

LEMMA TogglingMeans == Toggling <=> \E t \in Threads : Toggles(t)
  BY DEF Toggling, Some, Toggles

LEMMA RequestToggle ==
  ASSUME TypesInv, ToggleInv, NEW t \in Threads, Request(t) PROVE ToggleInv'
<1>1. \A s \in Threads \ {t} : /\ req'[s] = req[s] /\ (Toggles(s)' <=> Toggles(s))
                               /\ (Does(s, "systemctl")' <=> Does(s, "systemctl"))
  BY OthersStay DEF Toggles, Does
<1>2. ASSUME ~Toggles(t), ~Toggles(t)', forced' \/ (forced' = forced /\ UNCHANGED <<enabled, up>>)
      PROVE  ToggleInv'
  BY <1>1, <1>2 DEF ToggleInv, Toggles
<1>3. CASE ScanLeases(t) \/ (\E m \in Macs : DeleteReads(t, m)) \/ ResetRows(t) \/ Render(t)
  <2>1. ~Toggles(t) /\ ~Toggles(t)'
    BY <1>3 DEF ScanLeases, DeleteReads, ResetRows, Render, Starts, Toggles, Does,
         TypesInv, ReqTypes
  <2> QED
    BY <1>2, <1>3, <2>1 DEF ScanLeases, DeleteReads, ResetRows, Render, dnsmasq, history
<1>4. CASE UpsertAll(t) \/ ReleaseLease(t) \/ ReleaseFails(t) \/ ResetFails(t) \/ ResetStarts(t)
           \/ RestartAgain(t)
  <2>1. ~Toggles(t) /\ ~Toggles(t)'
    BY <1>4, EndsSo DEF UpsertAll, ReleaseLease, ReleaseFails, ResetFails, ResetStarts,
          RestartAgain, Toggles, Does, TypesInv
  <2>2. ReleaseLease(t) => UNCHANGED <<forced, enabled, up>>
    BY DEF ReleaseLease, Release, Leases, dnsmasq
  <2>3. forced' \/ (forced' = forced /\ UNCHANGED <<enabled, up>>)
    BY <1>4, <2>2 DEF UpsertAll, ReleaseFails, ResetFails, ResetStarts, RestartAgain,
         Switched, dnsmasq, history, TypesInv
  <2> QED
    BY <1>2, <2>1, <2>3
<1>5. CASE ScanNeigh(t) \/ Snapshot(t) \/ Install(t) \/ Restore(t)
  <2>1. ~Toggles(t) /\ ~Toggles(t)'
    BY <1>5 DEF ScanNeigh, Snapshot, Install, Restore, Toggles, Does, TypesInv, ReqTypes
  <2> QED
    BY <1>2, <1>5, <2>1 DEF ScanNeigh, Snapshot, Install, Restore, dnsmasq, history
<1>6. CASE DeleteRow(t) \/ ResetPassesOver(t) \/ ResetStops(t) \/ TruncateLeases(t)
           \/ TruncateHosts(t)
  <2>1. ~Toggles(t) /\ ~Toggles(t)'
    BY <1>6, GoesOn DEF DeleteRow, ResetPassesOver, ResetStops, TruncateLeases, TruncateHosts, Toggles,
         Does, TypesInv
  <2> QED
    BY <1>2, <1>6, <2>1 DEF DeleteRow, ResetPassesOver, ResetStops, TruncateLeases,
         TruncateHosts, Switched, dnsmasq, history, TypesInv
<1>7. CASE RestartDnsmasq(t)
  <2>1. ~Toggles(t) /\ ~Toggles(t)'
    BY <1>7, GoesOn, EndsSo DEF RestartDnsmasq, Toggles, Does, TypesInv
  <2>2. forced' \/ (forced' = forced /\ UNCHANGED <<enabled, up>>)
    BY <1>7 DEF RestartDnsmasq, Switched, TypesInv
  <2> QED
    BY <1>2, <2>1, <2>2
<1>8. CASE ToggleReads(t)
  <2>1. ~Does(t, "systemctl")' /\ Toggles(t)'
    <3>1. [op |-> "write", new |-> ~enabled] \in Calls
      BY DEF TypesInv, Calls
    <3>2. req'[t] = [op |-> "write", new |-> ~enabled]
      BY <1>8 DEF ToggleReads, Starts, TypesInv, ReqTypes
    <3>3. req'[t].op = "write" /\ req'[t] # Idle
      BY <3>1, <3>2, CallFields
    <3> QED
      BY <3>3 DEF Toggles, Does
  <2>2. ~forced' => \A s \in Threads : ~Toggles(s)
    <3>1. forced' = Toggling
      BY <1>8 DEF ToggleReads
    <3> QED
      BY <3>1, TogglingMeans
  <2>3. ~Toggles(t)
    BY <1>8 DEF ToggleReads, Starts, Toggles, Does
  <2> QED
    BY <1>1, <2>1, <2>2, <2>3 DEF ToggleInv, Toggles
<1>9. CASE ToggleWrites(t)
  <2>1. Toggles(t) /\ Toggles(t)' /\ req'[t].new = req[t].new
    BY <1>9, GoesOn, CallFields DEF ToggleWrites, Toggles, Does, TypesInv
  <2>2. enabled' = req[t].new /\ forced' = forced
    BY <1>9 DEF ToggleWrites, history
  <2> QED
    BY <1>1, <2>1, <2>2 DEF ToggleInv, Toggles
<1>10. CASE Systemctl(t)
  <2>1. Does(t, "systemctl") /\ ~Toggles(t)'
    BY <1>10, EndsSo DEF Systemctl, Toggles, Does, TypesInv
  <2>2. req[t].new \in BOOLEAN
    BY <2>1, CallFields DEF Does, TypesInv, ReqTypes
  <2>3. /\ enabled' = enabled
        /\ ~forced' => ~forced /\ up' = req[t].new
    BY <1>10, <2>2 DEF Systemctl, Start, Stop, Runs, dnsmasq, TypesInv
  <2> QED
    BY <1>1, <2>1, <2>3 DEF ToggleInv, Toggles
<1> QED
  BY <1>3, <1>4, <1>5, <1>6, <1>7, <1>8, <1>9, <1>10 DEF Request

LEMMA LanToggle ==
  ASSUME TypesInv, ToggleInv, Lan \/ Edits \/ Reboot \/ PanelStops \/ UNCHANGED vars
  PROVE  ToggleInv'
<1>1. CASE Lan \/ Edits \/ UNCHANGED vars
  <2>1. UNCHANGED <<up, enabled, forced, req>>
    BY <1>1 DEF Lan, HostAsks, LeaseEnds, Hears, Leases, Edits, ToggleStatic, CreateHost,
                SetHostIp, Edit, vars, dnsmasq, history
  <2> QED
    BY <2>1 DEF ToggleInv, Toggles, Does
<1>2. CASE Reboot
  <2>1. ~forced' => ~forced /\ ~Toggling /\ up' = up
    BY <1>2 DEF Reboot
  <2>2. enabled' = enabled /\ \A t \in Threads : ~Toggles(t)'
    BY <1>2 DEF Reboot, Toggles, Does
  <2> QED
    BY <2>1, <2>2, TogglingMeans DEF ToggleInv, Toggles
<1>3. CASE PanelStops
  <2>1. ~forced' => ~forced /\ ~Toggling
    BY <1>3 DEF PanelStops
  <2>2. UNCHANGED <<enabled, up>> /\ \A t \in Threads : Toggles(t)' => Toggles(t)
    BY <1>3 DEF PanelStops, Toggles, Does, dnsmasq
  <2> QED
    BY <2>1, <2>2, TogglingMeans DEF ToggleInv, Toggles
<1> QED
  BY <1>1, <1>2, <1>3

(* A toggle that overlaps no other, whose command did what it says and       *)
(* inside which the panel was not stopped leaves the setting and the service *)
(* agreed, until an Apply, a reset or a boot starts or stops dnsmasq.        *)
THEOREM SettingIsObeyed == Spec => []SettingMatchesService
<1>1. Init => ToggleInv
  BY DEF Init, ToggleInv, Toggles, Does
<1>2. TypesInv /\ ToggleInv /\ [Next]_vars => ToggleInv'
  BY RequestToggle, LanToggle DEF Next
<1>3. ToggleInv => SettingMatchesService
  BY DEF ToggleInv, SettingMatchesService, Quiet, Toggles, Does
<1> QED
  BY <1>1, <1>2, <1>3, TypeCorrect, PTL DEF Spec
================================================================================
