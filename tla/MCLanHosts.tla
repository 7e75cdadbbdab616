------------------------------ MODULE MCLanHosts -------------------------------
(* LanHosts for TLC: one host, whose leased, pinned and heard addresses may *)
(* differ; two requests overlap. Neither the threads nor the addresses are  *)
(* told apart.                                                              *)
EXTENDS LanHosts, TLC

Symmetry == Permutations(Threads) \cup Permutations(Ips)
================================================================================
