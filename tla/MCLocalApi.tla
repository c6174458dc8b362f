------------------------------ MODULE MCLocalApi ------------------------------
(* One client's worth of changes: each control, the cloud switched off, another *)
(* field alone, and a recovery of the control that smuggles in another field.   *)
EXTENDS LocalApi

MCChanges == {[control |-> "Cloud"], [control |-> "Local"], [cloud |-> "off"], [other |-> "b"],
              [control |-> "Both", other |-> "a"]}
=============================================================================
