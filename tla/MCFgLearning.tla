------------------------------ MODULE MCFgLearning ------------------------------
(* A small factory run for TLC. *)
EXTENDS FgLearning
=============================================================================
