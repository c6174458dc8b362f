------------------------------ MODULE MCTracking ------------------------------
(* Two sessions, so that one can be deleted or begun beside the other's file. *)
EXTENDS Tracking, TLC

Symmetry == Permutations(Sessions)
=============================================================================
