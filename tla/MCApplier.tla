------------------------------- MODULE MCApplier -------------------------------
(***************************************************************************)
(* Small instances of Applier.  Two good fragments are enough to tell old   *)
(* from new; one fragment that only the merged check rejects and one the    *)
(* stand-alone check rejects too reach failure modes A and B; one           *)
(* reservation file dnsmasq cannot start with reaches failure mode C.       *)
(***************************************************************************)
EXTENDS Applier, TLC

CONSTANTS w1, w2          \* workers
CONSTANTS n1, n2          \* fragments that load
CONSTANTS nMerge, nSyntax \* rejected merged; rejected on its own as well
CONSTANTS d1, d2, dBad    \* reservations; dBad: dnsmasq does not start

OneWorker  == {w1}
TwoWorkers == {w1, w2}

AllNft   == {n1, n2, nMerge, nSyntax}
PreNft   == {n1, n2, nMerge}
GoodNft  == {n1, n2}
LoadNft  == {n1, n2, nMerge}
AllDns   == {d1, d2, dBad}
TwoDns   == {d1, dBad}
GoodDns  == {d1, d2}
OneDns   == {d1}

Clock    == 0..1
OneSecond == {0}

(* Workers are interchangeable. *)
WorkerSymmetry == Permutations(TwoWorkers)
================================================================================
