----------------------------- MODULE AtomicRequests -----------------------------
(***************************************************************************)
(* What `with transaction(conn):` of panel/app/db.py promises the handlers  *)
(* that use it: a request stores all it has to store in one step, or it     *)
(* stores nothing; an answer "ok" is given only for a request that is       *)
(* stored, an error only for one that is not, and a request that a restart  *)
(* cuts off may be either.                                                  *)
(***************************************************************************)
CONSTANT Requests

VARIABLES
    stored,   \* the requests whose effects are in the database
    outcome   \* "none" until the request has been answered or cut off

vars == <<stored, outcome>>

Init ==
    /\ stored = {}
    /\ outcome = [r \in Requests |-> "none"]

Store(r) ==
    /\ outcome[r] = "none"
    /\ stored' = stored \cup {r}
    /\ UNCHANGED outcome

Answer(r) ==
    /\ outcome[r] = "none"
    /\ outcome' = [outcome EXCEPT ![r] = IF r \in stored THEN "ok" ELSE "failed"]
    /\ UNCHANGED stored

(* A restart cuts off any number of requests. *)
CutOff ==
    /\ outcome' \in [Requests -> {"none", "ok", "failed", "gone"}]
    /\ \A r \in Requests : outcome'[r] # outcome[r] =>
         outcome[r] = "none" /\ outcome'[r] = "gone"
    /\ UNCHANGED stored

Next == CutOff \/ \E r \in Requests : Store(r) \/ Answer(r)

Spec == Init /\ [][Next]_vars
================================================================================
