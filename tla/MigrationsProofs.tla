---------------------------- MODULE MigrationsProofs ----------------------------
(***************************************************************************)
(* Theorems about Migrations, for any set of processes that run init_db and *)
(* any number of kills.                                                     *)
(***************************************************************************)
EXTENDS Migrations, TLAPS

(* A process has in place whatever it no longer has to do.                  *)
DoneInPlace ==
    \A p \in Processes :
      /\ stage[p] \in {"migrate", "record", "up"} => Versions \ todo[p] \subseteq schema
      /\ stage[p] = "up" => todo[p] = {}

(* Version v is about to be recorded by p. *)
Records(p, v) == stage[p] = "record" /\ Min(todo[p]) = v

(* While nobody was killed, a migration that cannot be made twice and is in *)
(* place is recorded, or about to be.                                       *)
RecordFollows ==
    crashes = 0 => \A v \in Once \cap schema : v \in recorded \/ \E p \in Processes : Records(p, v)

MigrInv == MigrTypeOK /\ DoneInPlace /\ RecordFollows
--------------------------------------------------------------------------------
LEMMA MinIsIn == ASSUME NEW T, T \subseteq Versions, T # {}  PROVE Min(T) \in T
<1>1. \E x \in T : \A y \in T : x <= y
  <2>1. \A y \in T : y = 1 \/ y = 2 \/ y = 3
    BY DEF Versions
  <2>2. CASE 1 \in T
    BY <2>1, <2>2
  <2>3. CASE 1 \notin T /\ 2 \in T
    BY <2>1, <2>3
  <2>4. CASE 1 \notin T /\ 2 \notin T
    BY <2>1, <2>4
  <2> QED
    BY <2>2, <2>3, <2>4
<1> QED
  BY <1>1 DEF Min

LEMMA InvAtStart == MigrInit => MigrInv
<1> SUFFICES ASSUME MigrInit PROVE MigrInv
  OBVIOUS
<1>1. MigrTypeOK
  BY MaxCrashesAssumption DEF MigrInit, MigrTypeOK, Versions, Stages
<1>2. DoneInPlace /\ RecordFollows
  BY DEF MigrInit, DoneInPlace, RecordFollows
<1> QED
  BY <1>1, <1>2 DEF MigrInv

LEMMA TypeStep == MigrInv /\ [MigrNext]_migrVars => MigrTypeOK'
<1> SUFFICES ASSUME MigrTypeOK, [MigrNext]_migrVars PROVE MigrTypeOK'
  BY DEF MigrInv
<1> USE DEF MigrTypeOK, To, Stages
<1>1. ASSUME NEW p \in Processes, Open(p) PROVE MigrTypeOK'
  BY <1>1 DEF Open, Versions
<1>2. ASSUME NEW p \in Processes, ApplyDdl(p) PROVE MigrTypeOK'
  BY <1>2, MinIsIn DEF ApplyDdl
<1>3. ASSUME NEW p \in Processes, Duplicate(p) PROVE MigrTypeOK'
  BY <1>3 DEF Duplicate
<1>4. ASSUME NEW p \in Processes, Record(p) PROVE MigrTypeOK'
  BY <1>4, MinIsIn DEF Record
<1>5. ASSUME NEW p \in Processes, Migrated(p) \/ Retry(p) \/ Leaves(p) PROVE MigrTypeOK'
  BY <1>5 DEF Migrated, Retry, Leaves
<1>6. ASSUME NEW p \in Processes, Killed(p) PROVE MigrTypeOK'
  BY <1>6, MaxCrashesAssumption DEF Killed
<1>7. CASE UNCHANGED migrVars
  BY <1>7 DEF migrVars
<1> QED
  BY <1>1, <1>2, <1>3, <1>4, <1>5, <1>6, <1>7 DEF MigrNext, InitDb

LEMMA DoneStep == MigrInv /\ [MigrNext]_migrVars => DoneInPlace'
<1> SUFFICES ASSUME MigrTypeOK, DoneInPlace, [MigrNext]_migrVars PROVE DoneInPlace'
  BY DEF MigrInv
<1> USE DEF MigrTypeOK, DoneInPlace, To, Stages
<1>1. ASSUME NEW p \in Processes, Open(p) PROVE DoneInPlace'
  BY <1>1 DEF Open
<1>2. ASSUME NEW p \in Processes, ApplyDdl(p) PROVE DoneInPlace'
  BY <1>2 DEF ApplyDdl
<1>3. ASSUME NEW p \in Processes, Duplicate(p) PROVE DoneInPlace'
  BY <1>3 DEF Duplicate
<1>4. ASSUME NEW p \in Processes, Record(p) PROVE DoneInPlace'
  BY <1>4, MinIsIn DEF Record
<1>5. ASSUME NEW p \in Processes, Migrated(p) \/ Retry(p) \/ Leaves(p) PROVE DoneInPlace'
  BY <1>5 DEF Migrated, Retry, Leaves
<1>6. ASSUME NEW p \in Processes, Killed(p) PROVE DoneInPlace'
  BY <1>6 DEF Killed
<1>7. CASE UNCHANGED migrVars
  BY <1>7 DEF migrVars
<1> QED
  BY <1>1, <1>2, <1>3, <1>4, <1>5, <1>6, <1>7 DEF MigrNext, InitDb

LEMMA RecordStep == MigrInv /\ [MigrNext]_migrVars => RecordFollows'
<1> SUFFICES ASSUME MigrTypeOK, RecordFollows, [MigrNext]_migrVars PROVE RecordFollows'
  BY DEF MigrInv
<1> USE DEF MigrTypeOK, RecordFollows, Records, To
<1>1. ASSUME NEW p \in Processes, Open(p) \/ Duplicate(p) \/ Migrated(p) \/ Retry(p) \/ Leaves(p)
      PROVE RecordFollows'
  BY <1>1 DEF Open, Duplicate, Migrated, Retry, Leaves
<1>2. ASSUME NEW p \in Processes, ApplyDdl(p) PROVE RecordFollows'
  <2>1. Records(p, Min(todo[p]))'
    BY <1>2 DEF ApplyDdl
  <2>2. \A q \in Processes : \A v : Records(q, v) => Records(q, v)'
    BY <1>2 DEF ApplyDdl
  <2> QED
    BY <1>2, <2>1, <2>2 DEF ApplyDdl
<1>3. ASSUME NEW p \in Processes, Record(p) PROVE RecordFollows'
  <2>1. \A q \in Processes \ {p} : \A v : Records(q, v) => Records(q, v)'
    BY <1>3 DEF Record
  <2>2. \A v : Records(p, v) => v \in recorded'
    BY <1>3 DEF Record
  <2> QED
    BY <1>3, <2>1, <2>2 DEF Record
<1>4. ASSUME NEW p \in Processes, Killed(p) PROVE RecordFollows'
  BY <1>4, MaxCrashesAssumption DEF Killed
<1>5. CASE UNCHANGED migrVars
  BY <1>5 DEF migrVars
<1> QED
  BY <1>1, <1>2, <1>3, <1>4, <1>5 DEF MigrNext, InitDb

LEMMA MigrAlways == MigrSpec => []MigrInv
<1>1. MigrInv /\ [MigrNext]_migrVars => MigrInv'
  BY TypeStep, DoneStep, RecordStep DEF MigrInv
<1> QED
  BY InvAtStart, <1>1, PTL DEF MigrSpec
--------------------------------------------------------------------------------
(* However many processes run init_db at once and are killed in it, no      *)
(* version is recorded before its tables and columns exist.                 *)
THEOREM TypeCorrect == MigrSpec => []MigrTypeOK
  BY MigrAlways, PTL DEF MigrInv

(* Whoever gets past init_db finds every table and column.                  *)
THEOREM NothingIsSkipped == MigrSpec => []UpMeansMigrated
<1>1. MigrInv => UpMeansMigrated
  BY DEF MigrInv, MigrTypeOK, DoneInPlace, UpMeansMigrated
<1> QED
  BY MigrAlways, <1>1, PTL

(* No overlap of starts makes the half migration that blocks every later    *)
(* start: only a kill does.                                                 *)
THEOREM OverlapsAreHarmless == MigrSpec => []OnlyAKillHalfMigrates
<1>1. MigrInv => OnlyAKillHalfMigrates
  BY DEF MigrInv, MigrTypeOK, RecordFollows, Records, OnlyAKillHalfMigrates, HalfMigrated
<1> QED
  BY MigrAlways, <1>1, PTL
================================================================================
