---- MODULE MCBookings ----
(***************************************************************************)
(* Small instances of Bookings: two requests for overlapping dates of one  *)
(* listing, and a block over the first of them.                            *)
(***************************************************************************)
EXTENDS Bookings, TLC

CONSTANTS b1, b2, k1

MCConflicts == {<<b1, b2>>, <<b2, b1>>}
MCHits == [k \in Blocks |-> {b1}]

Symmetry == Permutations(Handlers) \cup Permutations(Sweepers)
====
