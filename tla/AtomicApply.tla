------------------------------ MODULE AtomicApply ------------------------------
(***************************************************************************)
(* What pressing "Apply" promises (panel/app/services/applier.py:1          *)
(* "Render config from DB and reload services. Atomic, validated.").        *)
(* The gateway runs one configuration.  An Apply takes the configuration    *)
(* the operator wants at that moment and either makes it the running one    *)
(* in a single step, which it may do only if the configuration is valid,    *)
(* or leaves the running one exactly as it was.                             *)
(***************************************************************************)
CONSTANTS
    Configs,      \* every configuration the database can render to
    Deployable,   \* the ones nft and dnsmasq both accept, a subset of Configs
    NoJob         \* no Apply in flight, not a member of Configs

VARIABLES
    want,         \* what the database renders to now
    inflight,     \* the configuration an Apply is trying to install
    live          \* the configuration the gateway runs

vars == <<want, inflight, live>>

Init ==
    /\ want \in Configs
    /\ inflight = NoJob
    /\ live \in Deployable

(* The operator edits the database. *)
Edit ==
    /\ want' \in Configs
    /\ UNCHANGED <<inflight, live>>

(* An Apply fixes the configuration it is going to install. *)
Begin ==
    /\ inflight = NoJob
    /\ inflight' = want
    /\ UNCHANGED <<want, live>>

(* The Apply succeeds: its configuration becomes the running one. *)
Commit ==
    /\ inflight \in Deployable
    /\ live' = inflight
    /\ inflight' = NoJob
    /\ UNCHANGED want

(* The Apply fails: nothing has changed. *)
Abort ==
    /\ inflight # NoJob
    /\ inflight' = NoJob
    /\ UNCHANGED <<want, live>>

Next == Edit \/ Begin \/ Commit \/ Abort

(* Every Apply ends, one way or the other. *)
Fairness == WF_vars(Commit \/ Abort)

Spec == Init /\ [][Next]_vars /\ Fairness
================================================================================
