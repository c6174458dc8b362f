---------------------------- MODULE MCSensorPipeline ----------------------------
(* A small sensor pipeline for TLC. *)
EXTENDS SensorPipeline
=============================================================================
