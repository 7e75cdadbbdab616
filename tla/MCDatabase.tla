------------------------------ MODULE MCDatabase ------------------------------
(***************************************************************************)
(* The panel's database, from the start of the processes that migrate it to *)
(* the requests it then serves: Migrations followed by SharedConnection.    *)
(* The two are checked one after the other: once the panel is up and no     *)
(* other process is inside init_db, requests begin, and from then on no     *)
(* process migrates (there is nothing left to do).                          *)
(***************************************************************************)
EXTENDS SharedConnection, Migrations, TLC

CONSTANTS e1, e2, l1, a1, s1

TwoEdits == {e1, e2}
OneLogin == {l1}
OneApply == {a1}
OneScan  == {s1}

NothingBegan == \A r \in Requests : pc[r] = "new"

StartsUp ==
    /\ NothingBegan
    /\ MigrNext
    /\ UNCHANGED vars

Serves ==
    /\ stage = [p \in Processes |-> IF p = "panel" THEN "up" ELSE "off"]
    /\ Next
    /\ UNCHANGED migrVars

DatabaseInit == Init /\ MigrInit

DatabaseSpec ==
    /\ DatabaseInit
    /\ [][StartsUp \/ Serves]_<<vars, migrVars>>
    /\ Fairness /\ MigrFairness
================================================================================
