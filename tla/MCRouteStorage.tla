---------------------------- MODULE MCRouteStorage ----------------------------
(* Two sessions and a few appends: enough for a torn write, a resume over it *)
(* and a second session beside it.                                           *)
EXTENDS RouteStorage, TLC

Symmetry == Permutations(Sessions)
=============================================================================
