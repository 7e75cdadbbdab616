------------------------------- MODULE MCAccounts -------------------------------
(* Small instances of Accounts. *)
EXTENDS Accounts, TLC

CONSTANTS admin, bob, t1, t2

TwoNames   == {admin, bob}
TwoThreads == {t1, t2}

ThreadSymmetry == Permutations(TwoThreads)
================================================================================
