---------------------------- MODULE MCTelemetry ----------------------------
(* Instance of Telemetry for TLC. *)
EXTENDS Telemetry
=============================================================================
