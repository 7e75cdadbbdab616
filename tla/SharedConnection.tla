---------------------------- MODULE SharedConnection ----------------------------
(***************************************************************************)
(* The one SQLite connection of the panel (app.state.db, opened with        *)
(* isolation_level=None and check_same_thread=False) under the threads that  *)
(* serve requests, next to the scanner process with a connection of its own. *)
(* A step is one SQL statement: SQLite serialises the statements of a        *)
(* connection, not the handlers.  A statement outside `with transaction`     *)
(* commits by itself, unless another thread's transaction is open on the     *)
(* connection: then it is part of that one.                                  *)
(***************************************************************************)
EXTENDS Naturals

CONSTANTS
    Edits,    \* requests that write in `with transaction(conn)`
    Logins,   \* requests that write one audit row outside any transaction
    Applies,  \* requests that read the tables, then audit and mark clean
    Scans,    \* runs of `cli scan`
    NoOne     \* no transaction is open on the panel's connection

ASSUME KindsAssumption ==
    /\ NoOne \notin Edits
    /\ \A r \in Edits : r \notin Logins \cup Applies \cup Scans
    /\ \A r \in Scans : r \notin Logins \cup Applies
    /\ Logins \cap Applies = {}

VARIABLES
    committed,  \* effects in the database file
    open,       \* effects of the transaction open on the panel's connection
    owner,      \* the request that began it, or NoOne
    lost,       \* <<effect, the request whose transaction it was rolled back with>>
    pc,         \* the next statement of each request
    seen,       \* the edits each Apply has read, table by table
    before      \* the edits answered "ok" when each Apply began to read

vars == <<committed, open, owner, lost, pc, seen, before>>

Panel    == Edits \cup Logins \cup Applies
Requests == Panel \cup Scans
Stored   == Edits \cup Scans

(* A request writes two tables at most; an effect is <<request, table>>.    *)
Tables     == {1, 2}
Effects(r) == {r} \X Tables
Ended      == {"ok", "failed", "gone"}
InTx       == {"first", "second", "commit"}

Pcs == {"new", "first", "second", "commit", "stored", "audit", "clean"} \cup Ended

Init ==
    /\ committed = {}
    /\ open = {}
    /\ owner = NoOne
    /\ lost = {}
    /\ pc = [r \in Requests |-> "new"]
    /\ seen = [a \in Applies |-> {}]
    /\ before = [a \in Applies |-> {}]

Go(r, from, to) == pc[r] = from /\ pc' = [pc EXCEPT ![r] = to]

(* The scanner has written and not committed: it holds SQLite's write lock. *)
ScannerWrites == \E s \in Scans : pc[s] = "commit"

Unread == UNCHANGED <<seen, before>>

RolledBack ==
    /\ lost' = lost \cup (open \X {owner})
    /\ open' = {}
    /\ owner' = NoOne
    /\ UNCHANGED committed
--------------------------------------------------------------------------------
(* Plausible mistakes, used to show what the properties see. *)

(* transaction() re-raises without ROLLBACK. *)
RefusedKeepsOpen(e) ==
    /\ \E at \in {"first", "second"} : Go(e, at, "failed")
    /\ UNCHANGED <<committed, open, owner, lost>>
    /\ Unread

(* BEGIN inside the try: its failure rolls back the transaction it met. *)
NestedRollsBack(e) ==
    /\ owner # NoOne
    /\ Go(e, "new", "failed")
    /\ RolledBack
    /\ Unread

(* transaction() skips BEGIN when one is open. *)
NestedJoins(e) ==
    /\ owner # NoOne
    /\ Go(e, "new", "first")
    /\ UNCHANGED <<committed, open, owner, lost>>
    /\ Unread

(* `finally: ROLLBACK` in place of COMMIT. *)
CommitRollsBack(e) ==
    /\ Go(e, "commit", "stored")
    /\ RolledBack
    /\ Unread

(* The response is made inside the `with` block, before COMMIT. *)
WrittenAnswers(e) ==
    /\ ~ScannerWrites
    /\ Go(e, "second", "stored")
    /\ open' = open \cup {<<e, 2>>}
    /\ UNCHANGED <<committed, owner, lost>>
    /\ Unread
--------------------------------------------------------------------------------
(* `with transaction(conn)` of a handler *)

Begin(e) ==
    /\ owner = NoOne
    /\ Go(e, "new", "first")
    /\ owner' = e
    /\ UNCHANGED <<committed, open, lost>>
    /\ Unread

(* "cannot start a transaction within a transaction": BEGIN comes before    *)
(* the try, so the request fails and the open transaction is not touched.   *)
BeginNested(e) ==
    /\ owner # NoOne
    /\ Go(e, "new", "failed")
    /\ UNCHANGED <<committed, open, owner, lost>>
    /\ Unread

WriteFirst(e) ==
    /\ ~ScannerWrites
    /\ Go(e, "first", "second")
    /\ open' = open \cup {<<e, 1>>}
    /\ UNCHANGED <<committed, owner, lost>>
    /\ Unread

WriteSecond(e) ==
    /\ ~ScannerWrites
    /\ Go(e, "second", "commit")
    /\ open' = open \cup {<<e, 2>>}
    /\ UNCHANGED <<committed, owner, lost>>
    /\ Unread

(* A statement raises (a user that exists by now, the scanner's lock held    *)
(* longer than the timeout): ROLLBACK, and the request fails.               *)
Refused(e) ==
    /\ \E at \in {"first", "second"} : Go(e, at, "failed")
    /\ RolledBack
    /\ Unread

Commit(e) ==
    /\ Go(e, "commit", "stored")
    /\ committed' = committed \cup open
    /\ open' = {}
    /\ owner' = NoOne
    /\ UNCHANGED lost
    /\ Unread

Respond(e) ==
    /\ Go(e, "stored", "ok")
    /\ UNCHANGED <<committed, open, owner, lost>>
    /\ Unread

(* A statement outside `with transaction`: audit() of login and of apply(),  *)
(* and mark_clean.                                                          *)
Bare(r, from, to, effect) ==
    /\ ~ScannerWrites
    /\ Go(r, from, to)
    /\ IF owner = NoOne
         THEN committed' = committed \cup {effect} /\ UNCHANGED open
         ELSE open' = open \cup {effect} /\ UNCHANGED committed
    /\ UNCHANGED <<owner, lost>>
    /\ Unread

(* The scanner holds the lock for longer than the timeout. *)
BareBusy(r, from) ==
    /\ ScannerWrites
    /\ Go(r, from, "failed")
    /\ UNCHANGED <<committed, open, owner, lost>>
    /\ Unread

(* POST /login, from its audit row on. *)
Login(l) == Bare(l, "new", "ok", <<l, 1>>) \/ BareBusy(l, "new")

(* One SELECT of render(): on this connection it sees the edits that are    *)
(* committed and those the open transaction has made so far.                *)
Select(a, from, to, table) ==
    /\ Go(a, from, to)
    /\ seen' = [seen EXCEPT ![a] = @ \cup
         ((committed \cup open) \cap (Edits \X {table}))]
    /\ before' = IF from = "new"
         THEN [before EXCEPT ![a] = {e \in Edits : pc[e] = "ok"}] ELSE before
    /\ UNCHANGED <<committed, open, owner, lost>>

(* apply(): two tables, then the row apply.ok and mark_clean, or the row    *)
(* apply.fail.                                                              *)
Apply(a) ==
    \/ Select(a, "new", "second", 1)
    \/ Select(a, "second", "audit", 2)
    \/ Bare(a, "audit", "clean", <<a, 1>>)
    \/ Bare(a, "audit", "failed", <<a, 1>>)
    \/ Bare(a, "clean", "ok", <<a, 2>>)
    \/ \E at \in {"audit", "clean"} : BareBusy(a, at)

(* `cli scan`: BEGIN and its upserts wait while the panel holds the lock.   *)
ScanWrites(s) ==
    /\ open = {} /\ ~ScannerWrites
    /\ Go(s, "new", "commit")
    /\ UNCHANGED <<committed, open, owner, lost>>
    /\ Unread

ScanCommits(s) ==
    /\ Go(s, "commit", "stored")
    /\ committed' = committed \cup Effects(s)
    /\ UNCHANGED <<open, owner, lost>>
    /\ Unread

ScanEnds(s) ==
    /\ Go(s, "stored", "ok")
    /\ UNCHANGED <<committed, open, owner, lost>>
    /\ Unread

(* The panel's transaction outlasts the timeout, or the process is killed.  *)
ScanFails(s) ==
    /\ \E at \in {"new", "commit"} : Go(s, at, "failed")
    /\ UNCHANGED <<committed, open, owner, lost>>
    /\ Unread

(* The panel stops: its connection's transaction is rolled back.            *)
PanelStops ==
    /\ pc' = [r \in Requests |->
         IF r \in Panel /\ pc[r] \notin Ended \cup {"new"} THEN "gone" ELSE pc[r]]
    /\ RolledBack
    /\ Unread
--------------------------------------------------------------------------------
Handler(e) ==
    \/ Begin(e) \/ BeginNested(e) \/ WriteFirst(e) \/ WriteSecond(e)
    \/ Refused(e) \/ Commit(e) \/ Respond(e)

Scan(s) == ScanWrites(s) \/ ScanCommits(s) \/ ScanEnds(s) \/ ScanFails(s)

Next ==
    \/ \E e \in Edits : Handler(e)
    \/ \E l \in Logins : Login(l)
    \/ \E a \in Applies : Apply(a)
    \/ \E s \in Scans : Scan(s)
    \/ PanelStops

(* A thread that has begun goes on with its next statement, and a scan ends. *)
Fairness ==
    /\ \A e \in Edits : WF_vars(pc[e] # "new" /\ Handler(e))
    /\ \A s \in Scans : WF_vars(pc[s] # "new" /\ Scan(s))

Spec == Init /\ [][Next]_vars /\ Fairness
--------------------------------------------------------------------------------
(* Every variable has its type, a transaction that is open belongs to a     *)
(* request inside its `with` block, and nothing is open without one.        *)
TypeOK ==
    /\ {committed, open} \subseteq SUBSET (Requests \X Tables)
    /\ lost \subseteq (Requests \X Tables) \X Edits
    /\ pc \in [Requests -> Pcs]
    /\ seen \in [Applies -> SUBSET (Edits \X Tables)]
    /\ before \in [Applies -> SUBSET Edits]
    /\ owner # NoOne => owner \in Edits /\ pc[owner] \in InTx
    /\ owner = NoOne => open = {}

(* Whatever the other threads, the scanner and restarts do, an edit is in   *)
(* the database with all its effects or with none: no handler's COMMIT      *)
(* stores half of another's change.                                         *)
AllOrNothing ==
    \A e \in Edits : Effects(e) \subseteq committed \/ Effects(e) \cap committed = {}

(* An Apply renders every edit that the panel had confirmed before it began *)
(* to read, although its SELECTs are no transaction of their own and meet   *)
(* half-written edits of others.                                            *)
AppliesSeeConfirmedEdits ==
    \A a \in Applies : pc[a] \in {"audit", "clean", "ok"} =>
      \A e \in before[a] : Effects(e) \subseteq seen[a]

(* What an Apply has rendered and the database does not hold was written by *)
(* an edit that is still open or that the panel has reported as failed.     *)
PhantomsAreFailedEdits ==
    \A a \in Applies : \A x \in seen[a] \ committed :
      \/ x \in open /\ x[1] = owner
      \/ pc[x[1]] \in {"failed", "gone"}

(* The record of a login or of an Apply is lost only when it fell into the  *)
(* open transaction of an edit, and that very edit failed or was cut off:   *)
(* an edit that the panel confirms takes no other request's record along.   *)
RecordsAreLostWithAnEdit ==
    \A x \in lost : x[1][1] \in Logins \cup Applies => pc[x[2]] \in {"failed", "gone"}

(* No request keeps the connection in its transaction for ever, which would *)
(* make every later edit fail.                                              *)
ConnectionIsReleased == owner # NoOne ~> owner = NoOne

(* To a client, requests are atomic. *)
Abstract == INSTANCE AtomicRequests WITH
    Requests <- Stored,
    stored   <- {r \in Stored : Effects(r) \subseteq committed},
    outcome  <- [r \in Stored |-> IF pc[r] \in Ended THEN pc[r] ELSE "none"]

ImplementsAtomicRequests == Abstract!Spec
================================================================================
