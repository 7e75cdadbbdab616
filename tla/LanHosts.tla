-------------------------------- MODULE LanHosts --------------------------------
(***************************************************************************)
(* LAN hosts and dnsmasq: the scanner (services/scanner.py), the handlers   *)
(* of routers/hosts.py with the commands they start after their             *)
(* transaction, the dnsmasq part of an Apply and the dhcp_enabled toggle of *)
(* routers/settings.py.  A thread's step is one read, one transaction, one  *)
(* file operation or one command; nothing keeps two requests apart.  What   *)
(* a row means for the firewall is module PanelStore.                       *)
(***************************************************************************)
EXTENDS FiniteSets

CONSTANTS
    Macs,     \* LAN hosts
    Ips,      \* addresses
    Threads,  \* requests at a time
    NoIp,     \* no address, no lease, no reservation
    NoRow,    \* not in internal_hosts
    Idle      \* a thread without a request

ASSUME NullAssumption == NoIp \notin Ips

VARIABLES
    rows,      \* internal_hosts: mac -> [ip, static]
    leases,    \* /var/lib/misc/dnsmasq.leases: mac -> ip
    neigh,     \* the usable entries of `ip neigh`: mac -> ip
    file,      \* /etc/dnsmasq.d/gateway-hosts.conf: mac -> ip
    up,        \* dnsmasq runs
    res,       \* the reservations it has read
    mem,       \* the leases it holds
    enabled,   \* settings.dhcp_enabled
    req        \* what each thread does

\* history
VARIABLES
    away,      \* hosts deleted or wiped for good, silent since
    kept,      \* hosts whose lease has moved to the pinned address
    unread,    \* the file changed under a dnsmasq that ran, and no restart came
    forced     \* dnsmasq was started or stopped past the setting

dnsmasq == <<up, res, mem>>
history == <<away, kept, unread, forced>>
vars    == <<rows, leases, neigh, file, dnsmasq, enabled, req, history>>

Book == [Macs -> Ips \cup {NoIp}]
None == [m \in Macs |-> NoIp]

(* A request: its next step, and what it has read so far.                   *)
Calls ==
    [op : {"neigh", "upsert"}, book : Book]
    \cup [op : {"delete", "release"}, mac : Macs, ip : Ips \cup {NoIp}]
    \cup [op : {"stop", "leases", "hosts", "start"}]
    \cup [op : {"snapshot"}, book : Book] \cup [op : {"install"}, book : Book, old : Book]
    \cup [op : {"restart", "restore"}, old : Book] \cup [op : {"again"}]
    \cup [op : {"write", "systemctl"}, new : BOOLEAN]

ASSUME IdleAssumption == Idle \notin Calls

Init ==
    /\ rows = [m \in Macs |-> NoRow]
    /\ leases = None /\ neigh = None /\ file = None
    /\ up = TRUE /\ res = None /\ mem = None
    /\ enabled = TRUE
    /\ req = [t \in Threads |-> Idle]
    /\ away = {} /\ kept = {} /\ unread = FALSE /\ forced = FALSE

Does(t, op)  == req[t] # Idle /\ req[t].op = op
Starts(t, r) == req[t] = Idle /\ req' = [req EXCEPT ![t] = r]
Goes(t, op)  == req' = [req EXCEPT ![t].op = op]
Ends(t)      == req' = [req EXCEPT ![t] = Idle]
Some(ops)    == \E t \in Threads : \E op \in ops : Does(t, op)

Quiet        == \A t \in Threads : req[t] = Idle
Scans(t)     == Does(t, "neigh") \/ Does(t, "upsert")
Toggling     == Some({"write", "systemctl"})
RestartAhead == Some({"restart", "restore", "again"})

(* dnsmasq refuses to start with one address reserved twice.                *)
Startable(book) == \A m, n \in Macs : book[m] = book[n] /\ book[m] # NoIp => m = n

(* What an Apply writes into the reservations file.                         *)
Reservations == [m \in Macs |->
    IF rows[m] # NoRow /\ rows[m].static THEN rows[m].ip ELSE NoIp]
--------------------------------------------------------------------------------
(* dnsmasq *)

Runs ==
    /\ up' = TRUE /\ res' = file /\ mem' = leases
    /\ unread' = FALSE

Stop ==
    /\ up' = FALSE /\ res' = None /\ mem' = None
    /\ UNCHANGED unread

(* systemctl start leaves a dnsmasq that runs as it is.                     *)
Start == IF up \/ ~Startable(file) THEN UNCHANGED <<dnsmasq, unread>> ELSE Runs

Restart == IF Startable(file) THEN Runs ELSE Stop

(* An Apply or a reset starts or stops what the setting speaks of.          *)
Switched == forced' = (forced \/ up' # up)

(* It changes one lease and writes the lease file anew.                     *)
Leases(m, ip) ==
    /\ mem' = [mem EXCEPT ![m] = ip]
    /\ leases' = mem'
    /\ UNCHANGED <<up, res>>

Free(m) == {ip \in Ips : \A n \in Macs \ {m} : ip \notin {mem[n], res[n]}}

(* A host's reservation, else its old address, else a free one.             *)
Offers(m) ==
    IF res[m] \in Free(m) THEN {res[m]}
    ELSE IF mem[m] \in Free(m) THEN {mem[m]} ELSE Free(m)
--------------------------------------------------------------------------------
(* The LAN *)

Pinned(m, ip) == rows[m] # NoRow /\ rows[m].static /\ rows[m].ip = ip

(* No scan that is under way will write another address than this.  One that *)
(* has read the leases may still take the neighbour table's.                 *)
ScansAgree(m, ip) == \A t \in Threads :
    /\ Does(t, "neigh") => req[t].book[m] = ip
    /\ Does(t, "upsert") => req[t].book[m] \in {ip, NoIp}

HostAsks(m) == \E ip \in Offers(m) :
    /\ up
    /\ Leases(m, ip)
    /\ away' = away \ {m}
    /\ kept' = IF Pinned(m, ip) /\ ScansAgree(m, ip) THEN kept \cup {m}
               ELSE IF ip = mem[m] THEN kept ELSE kept \ {m}
    /\ UNCHANGED <<rows, neigh, file, enabled, req, unread, forced>>

LeaseEnds(m) ==
    /\ up /\ mem[m] # NoIp
    /\ Leases(m, NoIp)
    /\ kept' = kept \ {m}
    /\ UNCHANGED <<rows, neigh, file, enabled, req, away, unread, forced>>

(* The gateway hears a host, at a leased, an old or a static address, or    *)
(* its entry fades.                                                         *)
Hears(m, ip) ==
    /\ neigh[m] # ip
    /\ neigh' = [neigh EXCEPT ![m] = ip]
    /\ away' = IF ip = NoIp THEN away ELSE away \ {m}
    /\ UNCHANGED <<rows, leases, file, dnsmasq, enabled, req, kept, unread, forced>>
--------------------------------------------------------------------------------
(* Plausible mistakes, used to show what the properties see. *)

(* The neighbour table overrides the lease. *)
MergedNeighFirst(book) == [m \in Macs |-> IF neigh[m] # NoIp THEN neigh[m] ELSE book[m]]

(* delete does not release the lease. *)
ReleaseNothing(m, ip) == UNCHANGED <<dnsmasq, leases>>

(* toggle writes the value it has read. *)
ToggleWritesOld(t) ==
    /\ Does(t, "write")
    /\ enabled' = ~req[t].new
    /\ Goes(t, "systemctl")
    /\ UNCHANGED <<rows, leases, neigh, file, dnsmasq, history>>

(* A failed Apply puts the old file back and leaves dnsmasq alone. *)
RestoreOnly(t) ==
    /\ Does(t, "restore")
    /\ file' = req[t].old
    /\ Ends(t)
    /\ UNCHANGED <<rows, leases, neigh, dnsmasq, enabled, history>>
--------------------------------------------------------------------------------
(* services/scanner.py, from the timer or POST /hosts/scan: leases first,   *)
(* then the neighbours that have none.                                      *)
Merged(book) == [m \in Macs |-> IF book[m] # NoIp THEN book[m] ELSE neigh[m]]

ScanLeases(t) ==
    /\ Starts(t, [op |-> "neigh", book |-> leases])
    /\ UNCHANGED <<rows, leases, neigh, file, dnsmasq, enabled, history>>

ScanNeigh(t) ==
    /\ Does(t, "neigh")
    /\ req' = [req EXCEPT ![t] = [op |-> "upsert", book |-> Merged(req[t].book)]]
    /\ UNCHANGED <<rows, leases, neigh, file, dnsmasq, enabled, history>>

Upsert(row, ip) == IF row = NoRow THEN [ip |-> ip, static |-> FALSE] ELSE [row EXCEPT !.ip = ip]

UpsertAll(t) ==
    /\ Does(t, "upsert")
    /\ rows' = [m \in Macs |-> IF req[t].book[m] = NoIp THEN rows[m]
                                ELSE Upsert(rows[m], req[t].book[m])]
    /\ Ends(t)
    /\ UNCHANGED <<leases, neigh, file, dnsmasq, enabled, history>>
--------------------------------------------------------------------------------
(* routers/hosts.py: the handlers that are one transaction.                 *)
Edit(m, row) ==
    /\ rows' = [rows EXCEPT ![m] = row]
    /\ kept' = kept \ {m}
    /\ UNCHANGED <<leases, neigh, file, dnsmasq, enabled, req, unread, forced>>

CreateHost(m, ip) ==
    /\ Edit(m, [ip |-> ip, static |-> TRUE])
    /\ away' = away \ {m}

SetHostIp(m, ip) ==
    /\ rows[m] # NoRow
    /\ Edit(m, [ip |-> ip, static |-> TRUE])
    /\ UNCHANGED away

ToggleStatic(m) ==
    /\ rows[m] # NoRow
    /\ Edit(m, [rows[m] EXCEPT !.static = ~@])
    /\ UNCHANGED away

(* delete *)
DeleteReads(t, m) ==
    /\ Starts(t, [op |-> "delete", mac |-> m,
                  ip |-> IF rows[m] = NoRow THEN NoIp ELSE rows[m].ip])
    /\ UNCHANGED <<rows, leases, neigh, file, dnsmasq, enabled, history>>

DeleteRow(t) ==
    /\ Does(t, "delete")
    /\ rows' = [rows EXCEPT ![req[t].mac] = NoRow]
    /\ kept' = kept \ {req[t].mac}
    /\ Goes(t, "release")
    /\ UNCHANGED <<leases, neigh, file, dnsmasq, enabled, away, unread, forced>>

(* dhcp_release: dnsmasq forgets the lease of this address and host.        *)
Release(m, ip) ==
    IF up /\ ip # NoIp /\ mem[m] = ip
      THEN Leases(m, NoIp) ELSE UNCHANGED <<dnsmasq, leases>>

(* Only a lease could still tell of the host: it has no row, the gateway    *)
(* has not heard it lately, and no scan under way has it.                   *)
Silenced(m) ==
    /\ rows[m] = NoRow /\ neigh[m] = NoIp
    /\ \A t \in Threads : Scans(t) => req[t].book[m] = NoIp

ReleaseLease(t) == LET m == req[t].mac IN
    /\ Does(t, "release")
    /\ Release(m, req[t].ip)
    /\ away' = IF Silenced(m) /\ up /\ mem[m] \in {NoIp, req[t].ip}
                 THEN away \cup {m} ELSE away
    /\ kept' = kept \ {m}
    /\ Ends(t)
    /\ UNCHANGED <<rows, neigh, file, enabled, unread, forced>>

(* dhcp_release is missing or times out.                                    *)
ReleaseFails(t) ==
    /\ Does(t, "release")
    /\ Ends(t)
    /\ UNCHANGED <<rows, leases, neigh, file, dnsmasq, enabled, history>>

(* reset_lan_state, then gateway-lan-reset: stop, two truncations, start.   *)
ResetRows(t) ==
    /\ Starts(t, [op |-> "stop"])
    /\ rows' = [m \in Macs |-> NoRow]
    /\ kept' = {}
    /\ UNCHANGED <<leases, neigh, file, dnsmasq, enabled, away, unread, forced>>

(* The helper is missing, its start fails, or its ten seconds are over.     *)
ResetFails(t) ==
    /\ \E op \in {"stop", "leases", "hosts", "start"} : Does(t, op)
    /\ Ends(t)
    /\ UNCHANGED <<rows, leases, neigh, file, dnsmasq, enabled, history>>

(* A stop or a truncation that fails is passed over (|| true).              *)
ResetPassesOver(t) ==
    /\ \E op \in {<<"stop", "leases">>, <<"leases", "hosts">>, <<"hosts", "start">>} :
         Does(t, op[1]) /\ Goes(t, op[2])
    /\ UNCHANGED <<rows, leases, neigh, file, dnsmasq, enabled, history>>

ResetStops(t) ==
    /\ Does(t, "stop")
    /\ Stop
    /\ Goes(t, "leases")
    /\ Switched
    /\ UNCHANGED <<rows, leases, neigh, file, enabled, away, kept>>

TruncateLeases(t) ==
    /\ Does(t, "leases")
    /\ leases' = None
    /\ away' = IF up THEN away ELSE away \cup {m \in Macs : Silenced(m)}
    /\ kept' = {}
    /\ Goes(t, "hosts")
    /\ UNCHANGED <<rows, neigh, file, dnsmasq, enabled, unread, forced>>

TruncateHosts(t) ==
    /\ Does(t, "hosts")
    /\ file' = None
    /\ unread' = (unread \/ up)
    /\ Goes(t, "start")
    /\ UNCHANGED <<rows, leases, neigh, dnsmasq, enabled, away, kept, forced>>

ResetStarts(t) ==
    /\ Does(t, "start")
    /\ Start
    /\ Switched
    /\ Ends(t)
    /\ UNCHANGED <<rows, leases, neigh, file, enabled, away, kept>>
--------------------------------------------------------------------------------
(* The dnsmasq half of an Apply: module Applier has the rest of it.         *)
Render(t) ==
    /\ Starts(t, [op |-> "snapshot", book |-> Reservations])
    /\ UNCHANGED <<rows, leases, neigh, file, dnsmasq, enabled, history>>

Snapshot(t) ==
    /\ Does(t, "snapshot")
    /\ req' = [req EXCEPT ![t] = [op |-> "install", book |-> req[t].book, old |-> file]]
    /\ UNCHANGED <<rows, leases, neigh, file, dnsmasq, enabled, history>>

Install(t) ==
    /\ Does(t, "install")
    /\ file' = req[t].book
    /\ req' = [req EXCEPT ![t] = [op |-> "restart", old |-> req[t].old]]
    /\ UNCHANGED <<rows, leases, neigh, dnsmasq, enabled, history>>

(* The restart succeeds, or it or an nft call before it fails.              *)
RestartDnsmasq(t) ==
    /\ Does(t, "restart")
    /\ \/ /\ Restart
          /\ IF Startable(file) THEN Ends(t) ELSE Goes(t, "restore")
       \/ /\ Goes(t, "restore")
          /\ UNCHANGED <<dnsmasq, unread>>
    /\ Switched
    /\ UNCHANGED <<rows, leases, neigh, file, enabled, away, kept>>

Restore(t) ==
    /\ Does(t, "restore")
    /\ file' = req[t].old
    /\ req' = [req EXCEPT ![t] = [op |-> "again"]]
    /\ UNCHANGED <<rows, leases, neigh, dnsmasq, enabled, history>>

(* check=False: a restart that fails is passed over.                        *)
RestartAgain(t) ==
    /\ Does(t, "again")
    /\ Restart \/ (UNCHANGED dnsmasq /\ unread' = TRUE)
    /\ Switched
    /\ Ends(t)
    /\ UNCHANGED <<rows, leases, neigh, file, enabled, away, kept>>
--------------------------------------------------------------------------------
(* routers/settings.py, toggle of dhcp_enabled: read, write, systemctl.     *)
ToggleReads(t) ==
    /\ Starts(t, [op |-> "write", new |-> ~enabled])
    /\ forced' = Toggling
    /\ UNCHANGED <<rows, leases, neigh, file, dnsmasq, enabled, away, kept, unread>>

ToggleWrites(t) ==
    /\ Does(t, "write")
    /\ enabled' = req[t].new
    /\ Goes(t, "systemctl")
    /\ UNCHANGED <<rows, leases, neigh, file, dnsmasq, history>>

(* check=False: a command that fails, or a start that dnsmasq refuses, is   *)
(* passed over.                                                             *)
Systemctl(t) ==
    /\ Does(t, "systemctl")
    /\ Ends(t)
    /\ (IF req[t].new THEN Start ELSE Stop) \/ UNCHANGED <<dnsmasq, unread>>
    /\ forced' = (forced \/ up' # req[t].new)
    /\ UNCHANGED <<rows, leases, neigh, file, enabled, away, kept>>

(* The panel is stopped, or fails and is started again: its requests and the *)
(* commands they run end where they are.  A scan of the timer's goes on.    *)
PanelStops ==
    /\ \E gone \in SUBSET {t \in Threads : req[t] # Idle} :
         /\ \A t \in Threads : req[t] = Idle \/ Scans(t) \/ t \in gone
         /\ req' = [t \in Threads |-> IF t \in gone THEN Idle ELSE req[t]]
    /\ unread' = (unread \/ RestartAhead)
    /\ forced' = (forced \/ Toggling)
    /\ UNCHANGED <<rows, leases, neigh, file, dnsmasq, enabled, away, kept>>

(* The gateway reboots: dnsmasq is enabled whatever the setting says.       *)
Reboot ==
    /\ req' = [t \in Threads |-> Idle]
    /\ neigh' = None
    /\ IF Startable(file) THEN up' = TRUE /\ res' = file /\ mem' = leases
                          ELSE up' = FALSE /\ res' = None /\ mem' = None
    /\ unread' = FALSE
    /\ forced' = (forced \/ up' # up \/ Toggling)
    /\ UNCHANGED <<rows, leases, file, enabled, away, kept>>
--------------------------------------------------------------------------------
Lan == \E m \in Macs :
    HostAsks(m) \/ LeaseEnds(m) \/ \E ip \in Ips \cup {NoIp} : Hears(m, ip)

(* An edit takes a free thread, and has ended before anything else happens. *)
Edits ==
    /\ \E t \in Threads : req[t] = Idle
    /\ \E m \in Macs :
         ToggleStatic(m) \/ \E ip \in Ips : CreateHost(m, ip) \/ SetHostIp(m, ip)

Request(t) ==
    \/ ScanLeases(t) \/ ScanNeigh(t) \/ UpsertAll(t)
    \/ (\E m \in Macs : DeleteReads(t, m))
    \/ DeleteRow(t) \/ ReleaseLease(t) \/ ReleaseFails(t)
    \/ ResetRows(t) \/ ResetFails(t) \/ ResetPassesOver(t) \/ ResetStops(t)
    \/ TruncateLeases(t) \/ TruncateHosts(t) \/ ResetStarts(t)
    \/ Render(t) \/ Snapshot(t) \/ Install(t) \/ RestartDnsmasq(t) \/ Restore(t) \/ RestartAgain(t)
    \/ ToggleReads(t) \/ ToggleWrites(t) \/ Systemctl(t)

Next == Lan \/ Edits \/ Reboot \/ PanelStops \/ \E t \in Threads : Request(t)

Spec == Init /\ [][Next]_vars
--------------------------------------------------------------------------------
(* However Applies, resets and toggles overlap: once every request is over, *)
(* dnsmasq is down or serves the reservations of the file.  The exceptions, *)
(* until it is started again: a reset emptied the file while dnsmasq ran     *)
(* (its stop failed, or another request started it in between), the panel   *)
(* stopped between an Apply's install and its restart, and the restart of a *)
(* rollback failed.                                                         *)
DnsmasqRunsTheFile == Quiet /\ ~unread => ~up \/ res = file

(* The look-up of delete (hosts.py:144-147): a host that is deleted, or      *)
(* wiped, is not imported again by a later scan until it speaks or is        *)
(* created.  That takes that the gateway no longer has it among its          *)
(* neighbours, that no scan under way has read of it, and that its lease is  *)
(* gone for good: for a delete, that dhcp_release ran while dnsmasq was up,   *)
(* and that its lease is at the address delete has looked up; for a reset,   *)
(* that dnsmasq was down when the leases were emptied.  Otherwise the host   *)
(* comes back.                                                              *)
AwayStaysAway == \A m \in away : rows[m] = NoRow

(* Once a host leases the address it was pinned to, scans leave the pin as  *)
(* it is for as long as the lease lasts, whatever the neighbour table says. *)
(* The exception is a scan that was under way when the host leased it, and   *)
(* had read another address or no lease: it moves the row to what it knows,  *)
(* and a later scan moves it back.                                          *)
KeptPinsHold == \A m \in kept : Pinned(m, leases[m])

(* The setting says what runs once no request is under way, if: the last     *)
(* toggle overlapped no other, its command did what it says, the panel was   *)
(* not stopped inside it, and no Apply, reset or boot has started or stopped *)
(* dnsmasq since it began.                                                  *)
SettingMatchesService == Quiet /\ ~forced => enabled = up
================================================================================
