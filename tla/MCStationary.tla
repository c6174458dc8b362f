------------------------------ MODULE MCStationary ------------------------------
(* A small Stationary device for TLC. *)
EXTENDS Stationary
=============================================================================
