------------------------------ MODULE MCGpsFix ------------------------------
(* Instance of GpsFix for TLC. *)
EXTENDS GpsFix
=============================================================================
