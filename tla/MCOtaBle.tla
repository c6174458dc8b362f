------------------------------- MODULE MCOtaBle -------------------------------
(* Images of up to three bytes in chunks of one to three, two transfers. *)
EXTENDS OtaBle
=============================================================================
