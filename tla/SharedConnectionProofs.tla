------------------------- MODULE SharedConnectionProofs -------------------------
(***************************************************************************)
(* Theorems about SharedConnection, for any number of requests of each kind. *)
(***************************************************************************)
EXTENDS SharedConnection, TLAPS

(* A record of one of an edit's effects is open exactly while the edit is   *)
(* past the statement that writes it and before its COMMIT; COMMIT stores   *)
(* both; only the request that owns the transaction is inside one.          *)
EditState(e) ==
    /\ pc[e] \in InTx <=> owner = e
    /\ <<e, 1>> \in open <=> pc[e] \in {"second", "commit"}
    /\ <<e, 2>> \in open <=> pc[e] = "commit"
    /\ <<e, 1>> \in committed <=> <<e, 2>> \in committed
    /\ pc[e] \in {"stored", "ok"} => <<e, 1>> \in committed
    /\ pc[e] \in InTx \cup {"new", "failed"} => <<e, 1>> \notin committed

(* The scanner's effects never pass through the panel's connection.         *)
ScanState(s) ==
    /\ <<s, 1>> \notin open /\ <<s, 2>> \notin open
    /\ <<s, 1>> \in committed <=> <<s, 2>> \in committed
    /\ pc[s] \in {"stored", "ok"} => <<s, 1>> \in committed
    /\ pc[s] \in {"new", "commit", "failed"} => <<s, 1>> \notin committed
    /\ pc[s] \in {"new", "commit", "stored", "ok", "failed"}

(* What an Apply has read so far of the edits confirmed when it began.      *)
ReadState(a) ==
    /\ pc[a] # "new" => \A e \in before[a] : pc[e] = "ok"
    /\ pc[a] = "second" => \A e \in before[a] : <<e, 1>> \in seen[a]
    /\ pc[a] \in {"audit", "clean", "ok"} =>
         \A e \in before[a] : <<e, 1>> \in seen[a] /\ <<e, 2>> \in seen[a]

(* What an Apply has read and is not stored.                                *)
ReadUnstored(a, d, n) ==
    <<d, n>> \in seen[a] \ committed =>
      (<<d, n>> \in open /\ d = owner) \/ pc[d] \in {"failed", "gone"}

EditsInv == \A e \in Edits : EditState(e)
ScansInv == \A s \in Scans : ScanState(s)
ReadsInv == \A a \in Applies : ReadState(a)
--------------------------------------------------------------------------------
LEMMA EffectsAre == ASSUME NEW r PROVE Effects(r) = {<<r, 1>>, <<r, 2>>}
  BY DEF Effects, Tables

(* The actions, without their grouping. *)
Steps ==
    \/ \E e \in Edits : Begin(e) \/ BeginNested(e) \/ WriteFirst(e) \/ WriteSecond(e)
                          \/ Refused(e) \/ Commit(e) \/ Respond(e)
    \/ \E l \in Logins : Bare(l, "new", "ok", <<l, 1>>) \/ BareBusy(l, "new")
    \/ \E a \in Applies :
         \/ Select(a, "new", "second", 1)
         \/ Select(a, "second", "audit", 2)
         \/ Bare(a, "audit", "clean", <<a, 1>>)
         \/ Bare(a, "audit", "failed", <<a, 1>>)
         \/ Bare(a, "clean", "ok", <<a, 2>>)
         \/ BareBusy(a, "audit") \/ BareBusy(a, "clean")
    \/ \E s \in Scans : ScanWrites(s) \/ ScanCommits(s) \/ ScanEnds(s) \/ ScanFails(s)
    \/ PanelStops

LEMMA NextIsSteps == Next => Steps
  BY DEF Next, Steps, Handler, Login, Apply, Scan

(* A request that leaves its `with` block, by COMMIT, ROLLBACK or a restart, *)
(* leaves no transaction open; a write is made by the owner only.           *)
LEMMA TypeNext == ASSUME TypeOK, EditsInv, [Next]_vars PROVE TypeOK'
<1> USE KindsAssumption DEF TypeOK, Requests, Panel, Pcs, InTx, Ended, Tables
<1>0. CASE UNCHANGED vars
  BY <1>0 DEF vars
<1>1. ASSUME NEW e \in Edits, Begin(e) PROVE TypeOK'
  BY <1>1 DEF Begin, Go, Unread
<1>2. ASSUME NEW e \in Edits, BeginNested(e) PROVE TypeOK'
  BY <1>2 DEF BeginNested, Go, Unread
<1>3. ASSUME NEW e \in Edits, WriteFirst(e) \/ WriteSecond(e) PROVE TypeOK'
  <2>1. CASE WriteFirst(e)
    <3>1. owner = e /\ owner # NoOne
      BY <2>1 DEF WriteFirst, Go, EditsInv, EditState
    <3>2. open' \subseteq Requests \X Tables
      BY <2>1 DEF WriteFirst
    <3> QED
      BY <2>1, <3>1, <3>2 DEF WriteFirst, Go, Unread
  <2>2. CASE WriteSecond(e)
    <3>1. owner = e /\ owner # NoOne
      BY <2>2 DEF WriteSecond, Go, EditsInv, EditState
    <3>2. open' \subseteq Requests \X Tables
      BY <2>2 DEF WriteSecond
    <3> QED
      BY <2>2, <3>1, <3>2 DEF WriteSecond, Go, Unread
  <2> QED
    BY <1>3, <2>1, <2>2
<1>4. ASSUME NEW e \in Edits, Refused(e) PROVE TypeOK'
  BY <1>4 DEF Refused, RolledBack, Go, Unread
<1>5. ASSUME NEW e \in Edits, Commit(e) PROVE TypeOK'
  BY <1>5 DEF Commit, Go, Unread
<1>6. ASSUME NEW e \in Edits, Respond(e) PROVE TypeOK'
  BY <1>6 DEF Respond, Go, Unread
<1>7. ASSUME NEW r \in Logins \cup Applies, NEW from \in Pcs, NEW to \in Pcs, NEW n \in Tables,
             Bare(r, from, to, <<r, n>>) \/ BareBusy(r, from)
      PROVE  TypeOK'
  BY <1>7 DEF Bare, BareBusy, Go, Unread
<1>8. ASSUME NEW a \in Applies, NEW from \in Pcs, NEW to \in Pcs, NEW n \in Tables,
             Select(a, from, to, n)
      PROVE  TypeOK'
  BY <1>8 DEF Select, Go
<1>9. ASSUME NEW s \in Scans, ScanWrites(s) \/ ScanCommits(s) \/ ScanEnds(s) \/ ScanFails(s)
      PROVE  TypeOK'
  BY <1>9, EffectsAre DEF ScanWrites, ScanCommits, ScanEnds, ScanFails, Go, Unread
<1>10. CASE PanelStops
  BY <1>10 DEF PanelStops, RolledBack, Unread
<1> QED
  BY <1>0, <1>1, <1>2, <1>3, <1>4, <1>5, <1>6, <1>7, <1>8, <1>9, <1>10, NextIsSteps DEF Steps

LEMMA EditsNext == ASSUME TypeOK, EditsInv, [Next]_vars PROVE EditsInv'
<1> SUFFICES ASSUME NEW d \in Edits PROVE EditState(d)'
  BY DEF EditsInv
<1> USE KindsAssumption DEF TypeOK, EditsInv, EditState, Requests, Panel, InTx, Ended
<1>0. CASE UNCHANGED vars
  BY <1>0 DEF vars
<1>1. ASSUME NEW e \in Edits, Begin(e) PROVE EditState(d)'
  BY <1>1 DEF Begin, Go
<1>2. ASSUME NEW e \in Edits, BeginNested(e) PROVE EditState(d)'
  BY <1>2 DEF BeginNested, Go
<1>3. ASSUME NEW e \in Edits, WriteFirst(e) \/ WriteSecond(e) PROVE EditState(d)'
  <2>1. CASE WriteFirst(e)
    BY <2>1 DEF WriteFirst, Go
  <2>2. CASE WriteSecond(e)
    BY <2>2 DEF WriteSecond, Go
  <2> QED
    BY <1>3, <2>1, <2>2
<1>4. ASSUME NEW e \in Edits, Refused(e) PROVE EditState(d)'
  BY <1>4 DEF Refused, RolledBack, Go
<1>5. ASSUME NEW e \in Edits, Commit(e) PROVE EditState(d)'
  BY <1>5 DEF Commit, Go
<1>6. ASSUME NEW e \in Edits, Respond(e) PROVE EditState(d)'
  BY <1>6 DEF Respond, Go
<1>7. ASSUME NEW r \in Logins \cup Applies, NEW from, NEW to, NEW n,
             Bare(r, from, to, <<r, n>>) \/ BareBusy(r, from)
      PROVE  EditState(d)'
  BY <1>7 DEF Bare, BareBusy, Go
<1>8. ASSUME NEW a \in Applies, NEW from, NEW to, NEW n, Select(a, from, to, n)
      PROVE  EditState(d)'
  BY <1>8 DEF Select, Go
<1>9. ASSUME NEW s \in Scans, ScanWrites(s) \/ ScanCommits(s) \/ ScanEnds(s) \/ ScanFails(s)
      PROVE  EditState(d)'
  BY <1>9, EffectsAre DEF ScanWrites, ScanCommits, ScanEnds, ScanFails, Go
<1>10. CASE PanelStops
  BY <1>10 DEF PanelStops, RolledBack
<1> QED
  BY <1>0, <1>1, <1>2, <1>3, <1>4, <1>5, <1>6, <1>7, <1>8, <1>9, <1>10, NextIsSteps DEF Steps

LEMMA ScansNext == ASSUME TypeOK, EditsInv, ScansInv, [Next]_vars PROVE ScansInv'
<1> SUFFICES ASSUME NEW d \in Scans PROVE ScanState(d)'
  BY DEF ScansInv
<1> USE KindsAssumption DEF TypeOK, ScansInv, ScanState, Requests, Panel, InTx, Ended
<1>0. CASE UNCHANGED vars
  BY <1>0 DEF vars
<1>1. ASSUME NEW e \in Edits, Begin(e) \/ BeginNested(e) \/ Respond(e) PROVE ScanState(d)'
  BY <1>1 DEF Begin, BeginNested, Respond, Go
<1>3. ASSUME NEW e \in Edits, WriteFirst(e) \/ WriteSecond(e) PROVE ScanState(d)'
  BY <1>3 DEF WriteFirst, WriteSecond, Go
<1>4. ASSUME NEW e \in Edits, Refused(e) PROVE ScanState(d)'
  BY <1>4 DEF Refused, RolledBack, Go
<1>5. ASSUME NEW e \in Edits, Commit(e) PROVE ScanState(d)'
  BY <1>5 DEF Commit, Go
<1>7. ASSUME NEW r \in Logins \cup Applies, NEW from, NEW to, NEW n,
             Bare(r, from, to, <<r, n>>) \/ BareBusy(r, from)
      PROVE  ScanState(d)'
  BY <1>7 DEF Bare, BareBusy, Go
<1>8. ASSUME NEW a \in Applies, NEW from, NEW to, NEW n, Select(a, from, to, n)
      PROVE  ScanState(d)'
  BY <1>8 DEF Select, Go
<1>9. ASSUME NEW s \in Scans, ScanWrites(s) \/ ScanCommits(s) \/ ScanEnds(s) \/ ScanFails(s)
      PROVE  ScanState(d)'
  BY <1>9, EffectsAre DEF ScanWrites, ScanCommits, ScanEnds, ScanFails, Go
<1>10. CASE PanelStops
  BY <1>10 DEF PanelStops, RolledBack
<1> QED
  BY <1>0, <1>1, <1>3, <1>4, <1>5, <1>7, <1>8, <1>9, <1>10, NextIsSteps DEF Steps

LEMMA ReadsNext == ASSUME TypeOK, EditsInv, ReadsInv, [Next]_vars PROVE ReadsInv'
<1> SUFFICES ASSUME NEW a \in Applies PROVE ReadState(a)'
  BY DEF ReadsInv
<1> USE KindsAssumption DEF TypeOK, EditsInv, EditState, ReadsInv, ReadState, Requests, Panel,
            InTx, Ended, Tables
<1>0. CASE UNCHANGED vars
  BY <1>0 DEF vars
<1>1. ASSUME NEW e \in Edits, Begin(e) \/ BeginNested(e) PROVE ReadState(a)'
  BY <1>1 DEF Begin, BeginNested, Go, Unread
<1>2. ASSUME NEW e \in Edits, WriteFirst(e) \/ WriteSecond(e) PROVE ReadState(a)'
  BY <1>2 DEF WriteFirst, WriteSecond, Go, Unread
<1>3. ASSUME NEW e \in Edits, Refused(e) PROVE ReadState(a)'
  BY <1>3 DEF Refused, RolledBack, Go, Unread
<1>4. ASSUME NEW e \in Edits, Commit(e) \/ Respond(e) PROVE ReadState(a)'
  BY <1>4 DEF Commit, Respond, Go, Unread
<1>5. ASSUME NEW l \in Logins, Bare(l, "new", "ok", <<l, 1>>) \/ BareBusy(l, "new")
      PROVE  ReadState(a)'
  BY <1>5 DEF Bare, BareBusy, Go, Unread
<1>6. ASSUME NEW b \in Applies, Select(b, "new", "second", 1) PROVE ReadState(a)'
  BY <1>6 DEF Select, Go
<1>7. ASSUME NEW b \in Applies, Select(b, "second", "audit", 2)
      PROVE  ReadState(a)'
  BY <1>7 DEF Select, Go
<1>8. ASSUME NEW b \in Applies,
             Bare(b, "audit", "clean", <<b, 1>>) \/ Bare(b, "audit", "failed", <<b, 1>>)
      PROVE  ReadState(a)'
  BY <1>8 DEF Bare, Go, Unread
<1>9. ASSUME NEW b \in Applies,
             Bare(b, "clean", "ok", <<b, 2>>) \/ BareBusy(b, "audit") \/ BareBusy(b, "clean")
      PROVE  ReadState(a)'
  BY <1>9 DEF Bare, BareBusy, Go, Unread
<1>10. ASSUME NEW s \in Scans,
             ScanWrites(s) \/ ScanCommits(s) \/ ScanEnds(s) \/ ScanFails(s)
      PROVE  ReadState(a)'
  BY <1>10, EffectsAre DEF ScanWrites, ScanCommits, ScanEnds, ScanFails, Go, Unread
<1>11. CASE PanelStops
  BY <1>11 DEF PanelStops, RolledBack, Unread
<1> QED
  BY <1>0, <1>1, <1>2, <1>3, <1>4, <1>5, <1>6, <1>7, <1>8, <1>9, <1>10, <1>11,
     NextIsSteps DEF Steps

LEMMA PhantomsAre ==
  ASSUME TypeOK
  PROVE  PhantomsAreFailedEdits <=>
           \A a \in Applies, d \in Edits, n \in Tables : ReadUnstored(a, d, n)
  BY DEF TypeOK, PhantomsAreFailedEdits, ReadUnstored

LEMMA PhantomsNext == ASSUME TypeOK, TypeOK', EditsInv, PhantomsAreFailedEdits, [Next]_vars PROVE PhantomsAreFailedEdits'
<1>a. \A a \in Applies, d \in Edits, n \in Tables : ReadUnstored(a, d, n)
  BY PhantomsAre
<1>b. SUFFICES ASSUME NEW a \in Applies, NEW d \in Edits, NEW n \in Tables
               PROVE  ReadUnstored(a, d, n)'
  BY DEF TypeOK, PhantomsAreFailedEdits, ReadUnstored
<1>c. ReadUnstored(a, d, n)
  BY <1>a
<1> USE <1>c, KindsAssumption DEF TypeOK, EditsInv, EditState, ReadUnstored, Requests, Panel,
            InTx, Ended, Tables
<1>0. CASE UNCHANGED vars
  BY <1>0 DEF vars
<1>1. ASSUME NEW e \in Edits, Begin(e) \/ BeginNested(e)
      PROVE  ReadUnstored(a, d, n)'
  BY <1>1 DEF Begin, BeginNested, Go, Unread
<1>2. ASSUME NEW e \in Edits, WriteFirst(e) \/ WriteSecond(e)
      PROVE  ReadUnstored(a, d, n)'
  BY <1>2 DEF WriteFirst, WriteSecond, Go, Unread
<1>3. ASSUME NEW e \in Edits, Refused(e) PROVE ReadUnstored(a, d, n)'
  BY <1>3 DEF Refused, RolledBack, Go, Unread
<1>4. ASSUME NEW e \in Edits, Commit(e) \/ Respond(e) PROVE ReadUnstored(a, d, n)'
  BY <1>4 DEF Commit, Respond, Go, Unread
<1>5. ASSUME NEW l \in Logins, Bare(l, "new", "ok", <<l, 1>>) \/ BareBusy(l, "new")
      PROVE  ReadUnstored(a, d, n)'
  BY <1>5 DEF Bare, BareBusy, Go, Unread
<1>6. ASSUME NEW b \in Applies, Select(b, "new", "second", 1)
      PROVE  ReadUnstored(a, d, n)'
  BY <1>6 DEF Select, Go
<1>7. ASSUME NEW b \in Applies, Select(b, "second", "audit", 2)
      PROVE  ReadUnstored(a, d, n)'
  BY <1>7 DEF Select, Go
<1>8. ASSUME NEW b \in Applies,
             Bare(b, "audit", "clean", <<b, 1>>) \/ Bare(b, "audit", "failed", <<b, 1>>)
      PROVE  ReadUnstored(a, d, n)'
  BY <1>8 DEF Bare, Go, Unread
<1>9. ASSUME NEW b \in Applies,
             Bare(b, "clean", "ok", <<b, 2>>) \/ BareBusy(b, "audit") \/ BareBusy(b, "clean")
      PROVE  ReadUnstored(a, d, n)'
  BY <1>9 DEF Bare, BareBusy, Go, Unread
<1>10. ASSUME NEW s \in Scans,
             ScanWrites(s) \/ ScanCommits(s) \/ ScanEnds(s) \/ ScanFails(s)
      PROVE  ReadUnstored(a, d, n)'
  BY <1>10, EffectsAre DEF ScanWrites, ScanCommits, ScanEnds, ScanFails, Go, Unread
<1>11. CASE PanelStops
  BY <1>11 DEF PanelStops, RolledBack, Unread
<1> QED
  BY <1>0, <1>1, <1>2, <1>3, <1>4, <1>5, <1>6, <1>7, <1>8, <1>9, <1>10, <1>11,
     NextIsSteps DEF Steps

(* Effects are rolled back only with an edit that failed or was cut off.    *)
LostInv == \A x \in lost : pc[x[2]] \in {"failed", "gone"}

LEMMA LostNext == ASSUME TypeOK, EditsInv, LostInv, [Next]_vars PROVE LostInv'
<1> USE KindsAssumption DEF TypeOK, LostInv, Requests, Panel, InTx, Ended
<1>0. CASE UNCHANGED vars
  BY <1>0 DEF vars
<1>1. ASSUME NEW e \in Edits, Refused(e) PROVE LostInv'
  <2>1. owner = e /\ pc'[e] = "failed" /\ lost' = lost \cup (open \X {e})
    BY <1>1 DEF Refused, RolledBack, Go, EditsInv, EditState
  <2>2. \A x \in lost : x[2] \in Edits
    OBVIOUS
  <2> QED
    BY <1>1, <2>1, <2>2 DEF Refused, Go
<1>2. CASE PanelStops
  <2>1. owner # NoOne => pc'[owner] = "gone"
    BY <1>2 DEF PanelStops
  <2>2. \A x \in lost : x[2] \in Edits /\ pc'[x[2]] = pc[x[2]]
    BY <1>2 DEF PanelStops
  <2> QED
    BY <1>2, <2>1, <2>2 DEF PanelStops, RolledBack
<1>3. ASSUME NEW r \in Requests, NEW to, pc[r] \notin {"failed", "gone"},
             pc' = [pc EXCEPT ![r] = to], lost' = lost
      PROVE  LostInv'
  <2>1. \A x \in lost : x[2] \in Edits
    OBVIOUS
  <2> QED
    BY <1>3, <2>1
<1>4. ASSUME NEW e \in Edits, Begin(e) \/ BeginNested(e) \/ WriteFirst(e) \/ WriteSecond(e)
                                 \/ Commit(e) \/ Respond(e)
      PROVE  LostInv'
  BY <1>4 DEF Begin, BeginNested, WriteFirst, WriteSecond, Commit, Respond, Go
<1>5. ASSUME NEW l \in Logins, Bare(l, "new", "ok", <<l, 1>>) \/ BareBusy(l, "new")
      PROVE  LostInv'
  BY <1>5 DEF Bare, BareBusy, Go
<1>6. ASSUME NEW a \in Applies, Apply(a) PROVE LostInv'
  BY <1>6 DEF Apply, Select, Bare, BareBusy, Go
<1>7. ASSUME NEW s \in Scans, Scan(s) PROVE LostInv'
  BY <1>7 DEF Scan, ScanWrites, ScanCommits, ScanEnds, ScanFails, Go
<1> QED
  BY <1>0, <1>1, <1>2, <1>4, <1>5, <1>6, <1>7 DEF Next, Handler, Login
--------------------------------------------------------------------------------
ConnInv ==
    /\ TypeOK
    /\ EditsInv
    /\ ScansInv
    /\ ReadsInv
    /\ PhantomsAreFailedEdits
    /\ LostInv

LEMMA ConnInit == Init => ConnInv
<1> SUFFICES ASSUME Init PROVE ConnInv
  OBVIOUS
<1> USE KindsAssumption DEF Init
<1>1. TypeOK
  BY DEF TypeOK, Requests, Panel, Pcs, Tables, Ended
<1>2. EditsInv
  BY DEF EditsInv, EditState, InTx, Requests, Panel
<1>3. ScansInv /\ ReadsInv
  BY DEF ScansInv, ScanState, ReadsInv, ReadState, Requests, Panel
<1>4. PhantomsAreFailedEdits /\ LostInv
  BY DEF PhantomsAreFailedEdits, LostInv
<1> QED
  BY <1>1, <1>2, <1>3, <1>4 DEF ConnInv

LEMMA ConnStep == ConnInv /\ [Next]_vars => ConnInv'
  BY TypeNext, EditsNext, ScansNext, ReadsNext, PhantomsNext, LostNext DEF ConnInv

LEMMA ConnAlways == Spec => []ConnInv
  BY ConnInit, ConnStep, PTL DEF Spec

(* Types, and an open transaction always belongs to a request that is       *)
(* inside its `with transaction(conn)`: db.py never leaves one behind.      *)
THEOREM TypeCorrect == Spec => []TypeOK
  BY ConnAlways, PTL DEF ConnInv

(* For any number of threads on the one connection: the database holds an   *)
(* edit's effects all together or not at all.                               *)
THEOREM EditsAreAtomic == Spec => []AllOrNothing
<1>1. ConnInv => AllOrNothing
  BY EffectsAre DEF ConnInv, EditsInv, EditState, AllOrNothing
<1> QED
  BY ConnAlways, <1>1, PTL

(* render() reads every edit that was answered before it began.             *)
THEOREM ConfirmedEditsAreRendered == Spec => []AppliesSeeConfirmedEdits
<1>1. ConnInv => AppliesSeeConfirmedEdits
  BY EffectsAre DEF ConnInv, ReadsInv, ReadState, AppliesSeeConfirmedEdits
<1> QED
  BY ConnAlways, <1>1, PTL

(* What render() reads and the database never keeps belongs to an edit that *)
(* is still open or was reported as failed.                                 *)
THEOREM PhantomsHaveFailed == Spec => []PhantomsAreFailedEdits
  BY ConnAlways, PTL DEF ConnInv

(* The record of a login or of an Apply is lost only when it fell into the  *)
(* transaction of an edit that then failed or was cut off.                  *)
THEOREM LostWithAnEdit == Spec => []RecordsAreLostWithAnEdit
<1>1. ConnInv => RecordsAreLostWithAnEdit
  BY DEF ConnInv, LostInv, RecordsAreLostWithAnEdit
<1> QED
  BY ConnAlways, <1>1, PTL
--------------------------------------------------------------------------------
StoredNow  == {r \in Stored : Effects(r) \subseteq committed}
OutcomeNow == [r \in Stored |-> IF pc[r] \in Ended THEN pc[r] ELSE "none"]

(* Both effects of an edit or a scan are stored, or neither.                *)
LEMMA StoredIs ==
  ASSUME ConnInv, NEW r \in Stored
  PROVE  /\ r \in StoredNow <=> <<r, 1>> \in committed
         /\ <<r, 1>> \in committed <=> <<r, 2>> \in committed
         /\ r \in Requests
  BY EffectsAre DEF ConnInv, EditsInv, EditState, ScansInv, ScanState, Stored, StoredNow,
                    Requests, Panel

(* A statement that neither stores nor answers an edit or a scan.           *)
LEMMA Stutter ==
  ASSUME ConnInv, ConnInv', NEW q \in Requests, NEW to,
         pc' = [pc EXCEPT ![q] = to],
         q \in Stored => pc[q] \notin Ended /\ to \notin Ended,
         \A r \in Stored : <<r, 1>> \in committed' <=> <<r, 1>> \in committed
  PROVE  StoredNow' = StoredNow /\ OutcomeNow' = OutcomeNow
<1>1. StoredNow' = StoredNow
  <2>1. \A r \in Stored : r \in StoredNow' <=> <<r, 1>> \in committed'
    BY EffectsAre DEF ConnInv, StoredNow, EditsInv, EditState, ScansInv, ScanState, Stored
  <2>2. \A r \in Stored : r \in StoredNow' <=> r \in StoredNow
    BY <2>1, StoredIs
  <2>3. StoredNow' \subseteq Stored /\ StoredNow \subseteq Stored
    BY DEF StoredNow
  <2> QED
    BY <2>2, <2>3
<1>2. OutcomeNow' = OutcomeNow
  BY StoredIs DEF OutcomeNow, ConnInv, TypeOK
<1> QED
  BY <1>1, <1>2

(* COMMIT of the panel or of the scanner: one request more is stored.       *)
LEMMA StoreOne ==
  ASSUME ConnInv, ConnInv', NEW q \in Stored, NEW from, NEW to,
         Go(q, from, to), from \notin Ended, to \notin Ended,
         \A r \in Stored : <<r, 1>> \in committed' <=> r = q \/ <<r, 1>> \in committed
  PROVE  Abstract!Store(q)
<1>1. \A r \in Stored : r \in StoredNow' <=> <<r, 1>> \in committed'
  BY EffectsAre DEF ConnInv, StoredNow, EditsInv, EditState, ScansInv, ScanState, Stored
<1>2. StoredNow' = StoredNow \cup {q}
  <2>1. StoredNow' \subseteq Stored /\ StoredNow \subseteq Stored
    BY DEF StoredNow
  <2> QED
    BY <1>1, <2>1, StoredIs
<1>3. OutcomeNow' = OutcomeNow /\ OutcomeNow[q] = "none"
  BY StoredIs DEF OutcomeNow, ConnInv, TypeOK, Go
<1> QED
  BY <1>2, <1>3 DEF Abstract!Store, StoredNow, OutcomeNow

(* A request is answered as what it is.                                     *)
LEMMA AnswerOne ==
  ASSUME ConnInv, ConnInv', NEW q \in Stored, NEW from, NEW to,
         Go(q, from, to), from \notin Ended, committed' = committed,
         to = IF <<q, 1>> \in committed THEN "ok" ELSE "failed"
  PROVE  Abstract!Answer(q)
<1>1. StoredNow' = StoredNow
  BY DEF StoredNow
<1>2. OutcomeNow[q] = "none"
  BY DEF OutcomeNow, Go
<1>3. OutcomeNow' = [OutcomeNow EXCEPT ![q] = to]
  BY StoredIs DEF OutcomeNow, ConnInv, TypeOK, Go, Ended
<1> QED
  BY <1>1, <1>2, <1>3, StoredIs DEF Abstract!Answer, StoredNow, OutcomeNow

LEMMA RefinementStep ==
  ASSUME ConnInv, ConnInv', [Next]_vars
  PROVE  [Abstract!Next]_(Abstract!vars)
<1> USE KindsAssumption
<1> DEFINE Same == StoredNow' = StoredNow /\ OutcomeNow' = OutcomeNow
<1>a. Same => UNCHANGED Abstract!vars
  BY DEF Abstract!vars, StoredNow, OutcomeNow
<1>b. \A q \in Stored : Abstract!Store(q) \/ Abstract!Answer(q) => Abstract!Next
  BY DEF Abstract!Next
<1>c. Edits \subseteq Stored /\ Scans \subseteq Stored /\ Stored \subseteq Requests
  BY DEF Stored, Requests, Panel
<1> HIDE DEF Same
<1>0. CASE UNCHANGED vars
  <2>1. Same
    BY <1>0 DEF vars, Same, StoredNow, OutcomeNow
  <2> QED
    BY <2>1, <1>a
<1>1. ASSUME NEW e \in Edits, Begin(e) \/ WriteFirst(e) \/ WriteSecond(e) PROVE Same
  BY <1>1, <1>c, Stutter DEF Begin, WriteFirst, WriteSecond, Go, Ended, Same
<1>2. ASSUME NEW e \in Edits, BeginNested(e) \/ Refused(e) PROVE Abstract!Answer(e)
  <2>1. <<e, 1>> \notin committed
    BY <1>2 DEF BeginNested, Refused, Go, ConnInv, EditsInv, EditState, InTx
  <2> QED
    BY <1>2, <2>1, <1>c, AnswerOne DEF BeginNested, Refused, RolledBack, Ended
<1>3. ASSUME NEW e \in Edits, Commit(e) PROVE Abstract!Store(e)
  <2>1. \A r \in Stored : <<r, 1>> \in open <=> r = e
    BY <1>3 DEF Commit, Go, ConnInv, EditsInv, EditState, ScansInv, ScanState, Stored, InTx
  <2> QED
    BY <1>3, <2>1, <1>c, StoreOne DEF Commit, Ended
<1>4. ASSUME NEW e \in Edits, Respond(e) PROVE Abstract!Answer(e)
  <2>1. <<e, 1>> \in committed
    BY <1>4 DEF Respond, Go, ConnInv, EditsInv, EditState
  <2> QED
    BY <1>4, <2>1, <1>c, AnswerOne DEF Respond, Ended
<1>5. ASSUME NEW l \in Logins, Login(l) PROVE Same
  BY <1>5, <1>c, Stutter DEF Login, Bare, BareBusy, Go, Same, Stored, Requests, Panel
<1>6. ASSUME NEW a \in Applies, Apply(a) PROVE Same
  BY <1>6, <1>c, Stutter DEF Apply, Select, Bare, BareBusy, Go, Same, Stored, Requests, Panel
<1>7. ASSUME NEW s \in Scans, ScanWrites(s) PROVE Same
  BY <1>7, <1>c, Stutter DEF ScanWrites, Go, Ended, Same
<1>8. ASSUME NEW s \in Scans, ScanCommits(s) PROVE Abstract!Store(s)
  BY <1>8, <1>c, StoreOne, EffectsAre DEF ScanCommits, Ended
<1>9. ASSUME NEW s \in Scans, ScanEnds(s) PROVE Abstract!Answer(s)
  <2>1. <<s, 1>> \in committed
    BY <1>9 DEF ScanEnds, Go, ConnInv, ScansInv, ScanState
  <2> QED
    BY <1>9, <2>1, <1>c, AnswerOne DEF ScanEnds, Ended
<1>10. ASSUME NEW s \in Scans, ScanFails(s) PROVE Abstract!Answer(s)
  <2>1. <<s, 1>> \notin committed
    BY <1>10 DEF ScanFails, Go, ConnInv, ScansInv, ScanState
  <2> QED
    BY <1>10, <2>1, <1>c, AnswerOne DEF ScanFails, Ended
<1>11. CASE PanelStops
  <2>1. StoredNow' = StoredNow
    BY <1>11 DEF PanelStops, RolledBack, StoredNow
  <2>2. OutcomeNow' \in [Stored -> {"none", "ok", "failed", "gone"}]
    BY DEF OutcomeNow, Ended
  <2>3. \A r \in Stored : OutcomeNow'[r] # OutcomeNow[r] =>
           OutcomeNow[r] = "none" /\ OutcomeNow'[r] = "gone"
    BY <1>11, <1>c DEF PanelStops, OutcomeNow, Ended, ConnInv, TypeOK
  <2> QED
    BY <2>1, <2>2, <2>3 DEF Abstract!Next, Abstract!CutOff, StoredNow, OutcomeNow
<1> QED
  BY <1>0, <1>1, <1>2, <1>3, <1>4, <1>5, <1>6, <1>7, <1>8, <1>9, <1>10, <1>11,
     <1>a, <1>b, <1>c DEF Next, Handler, Scan

LEMMA RefinementInit == Init => Abstract!Init
  BY EffectsAre DEF Init, Abstract!Init, Stored, Requests, Panel, Ended

(* To a client, requests are atomic: on the one connection, with any number *)
(* of threads, with scans and restarts, `with transaction(conn)` stores all *)
(* of a request or nothing of it, and an answer says which.                 *)
THEOREM RequestsAreAtomic == Spec => ImplementsAtomicRequests
<1>1. ConnInv /\ ConnInv' /\ [Next]_vars => [Abstract!Next]_(Abstract!vars)
  BY RefinementStep
<1> QED
  BY ConnAlways, <1>1, RefinementInit, PTL
     DEF Spec, ImplementsAtomicRequests, Abstract!Spec
================================================================================
