------------------------------- MODULE Migrations -------------------------------
(***************************************************************************)
(* init_db() of panel/app/db.py: run by the installer's `cli init-db` and   *)
(* by every boot of the panel, each a process of its own.  executescript    *)
(* commits statement by statement, so the DDL of a migration and its row in *)
(* schema_version are two steps, and a process may die between them.        *)
(* 0001 and 0002 say IF NOT EXISTS; the ALTER TABLE of 0003 raises          *)
(* "duplicate column" the second time.                                      *)
(***************************************************************************)
EXTENDS Naturals, FiniteSetsExt

CONSTANTS
    Processes,   \* that may run init_db
    MaxCrashes   \* bound: processes killed inside init_db

ASSUME MaxCrashesAssumption == MaxCrashes \in Nat
ASSUME PanelAssumption == "panel" \in Processes

VARIABLES
    schema,    \* migrations whose tables and columns exist
    recorded,  \* rows of schema_version
    stage,     \* where each process is
    todo,      \* the versions it still has to apply
    crashes

migrVars == <<schema, recorded, stage, todo, crashes>>

Versions == 1..3
Once     == {3}
Stages   == {"off", "migrate", "record", "up", "failed"}

(* A new machine, or one that an earlier release has set up.                *)
MigrInit ==
    /\ recorded \in {{}, {1}, {1, 2}}
    /\ schema = recorded
    /\ stage = [p \in Processes |-> "off"]
    /\ todo = [p \in Processes |-> {}]
    /\ crashes = 0

To(p, s) == stage' = [stage EXCEPT ![p] = s]
--------------------------------------------------------------------------------
(* Plausible mistakes, used to show what the properties see. *)

(* The row of schema_version comes first in the script. *)
ApplyDdlRecordsFirst(p) ==
    /\ stage[p] = "migrate" /\ todo[p] # {}
    /\ recorded' = recorded \cup {Min(todo[p])}
    /\ To(p, "record")
    /\ UNCHANGED <<schema, todo, crashes>>

(* A script without its INSERT INTO schema_version. *)
RecordMissing(p) ==
    /\ stage[p] = "record"
    /\ todo' = [todo EXCEPT ![p] = @ \ {Min(@)}]
    /\ To(p, "migrate")
    /\ UNCHANGED <<schema, recorded, crashes>>

(* init_db runs every script again, recorded or not. *)
OpenReappliesAll(p) ==
    /\ stage[p] = "off"
    /\ todo' = [todo EXCEPT ![p] = Versions]
    /\ To(p, "migrate")
    /\ UNCHANGED <<schema, recorded, crashes>>
--------------------------------------------------------------------------------
Open(p) ==
    /\ stage[p] = "off"
    /\ todo' = [todo EXCEPT ![p] = Versions \ recorded]
    /\ To(p, "migrate")
    /\ UNCHANGED <<schema, recorded, crashes>>

ApplyDdl(p) ==
    /\ stage[p] = "migrate" /\ todo[p] # {}
    /\ Min(todo[p]) \notin Once \cap schema
    /\ schema' = schema \cup {Min(todo[p])}
    /\ To(p, "record")
    /\ UNCHANGED <<recorded, todo, crashes>>

Duplicate(p) ==
    /\ stage[p] = "migrate" /\ todo[p] # {}
    /\ Min(todo[p]) \in Once \cap schema
    /\ To(p, "failed")
    /\ todo' = [todo EXCEPT ![p] = {}]
    /\ UNCHANGED <<schema, recorded, crashes>>

Record(p) ==
    /\ stage[p] = "record"
    /\ recorded' = recorded \cup {Min(todo[p])}
    /\ todo' = [todo EXCEPT ![p] = @ \ {Min(@)}]
    /\ To(p, "migrate")
    /\ UNCHANGED <<schema, crashes>>

Migrated(p) ==
    /\ stage[p] = "migrate" /\ todo[p] = {}
    /\ To(p, "up")
    /\ UNCHANGED <<schema, recorded, todo, crashes>>

(* systemd (Restart=on-failure) or the operator starts it again.            *)
Retry(p) ==
    /\ stage[p] = "failed"
    /\ To(p, "off")
    /\ UNCHANGED <<schema, recorded, todo, crashes>>

Killed(p) ==
    /\ stage[p] \in {"migrate", "record"}
    /\ crashes < MaxCrashes
    /\ crashes' = crashes + 1
    /\ To(p, "off")
    /\ todo' = [todo EXCEPT ![p] = {}]
    /\ UNCHANGED <<schema, recorded>>

(* The installer ends; the panel is stopped, killed or restarted.           *)
Leaves(p) ==
    /\ stage[p] = "up"
    /\ To(p, "off")
    /\ UNCHANGED <<schema, recorded, todo, crashes>>

InitDb(p) ==
    Open(p) \/ ApplyDdl(p) \/ Duplicate(p) \/ Record(p) \/ Migrated(p) \/ Retry(p)

MigrNext == \E p \in Processes : InitDb(p) \/ Leaves(p) \/ Killed(p)

(* A start goes on to its end, and systemd starts the panel again.          *)
MigrFairness ==
    /\ WF_migrVars(InitDb("panel"))
    /\ \A p \in Processes : WF_migrVars(stage[p] # "off" /\ InitDb(p))

MigrSpec == MigrInit /\ [][MigrNext]_migrVars /\ MigrFairness
--------------------------------------------------------------------------------
(* Types; and however the processes overlap and die, a version is never     *)
(* recorded before what it stands for exists: a later start would skip it.  *)
MigrTypeOK ==
    /\ recorded \subseteq schema /\ schema \subseteq Versions
    /\ stage \in [Processes -> Stages]
    /\ todo \in [Processes -> SUBSET Versions]
    /\ \A p \in Processes :
         stage[p] = "record" => todo[p] # {} /\ Min(todo[p]) \in schema
    /\ crashes \in 0..MaxCrashes

(* Nobody is about to record a migration that is in place and cannot be     *)
(* made twice: init_db will fail from now on, until someone edits the       *)
(* database by hand.                                                        *)
HalfMigrated ==
    \E v \in Once \cap schema : v \notin recorded /\
      \A p \in Processes : ~(stage[p] = "record" /\ v = Min(todo[p]))

(* A process that goes on after init_db finds every table and column.       *)
UpMeansMigrated == \A p \in Processes : stage[p] = "up" => schema = Versions

(* Only a process killed at that very point does this, never an overlap.    *)
OnlyAKillHalfMigrates == HalfMigrated => crashes > 0

(* A boot that finds another process in the middle of a migration fails and  *)
(* is tried again, and the panel comes up in the end, unless a process died *)
(* between the column and its record.                                       *)
PanelComesUp == stage["panel"] = "off" ~> stage["panel"] = "up" \/ HalfMigrated
================================================================================
