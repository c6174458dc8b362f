---------------------------- MODULE MCSettingsStore ----------------------------
(* The settings need no bounds. *)
EXTENDS SettingsStore
=============================================================================
