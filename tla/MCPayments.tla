---- MODULE MCPayments ----
(***************************************************************************)
(* Small instances of Payments.                                            *)
(***************************************************************************)
EXTENDS Payments, TLC

Symmetry == Permutations(Payers) \cup Permutations(Sweeps)
====
