--------------------------- MODULE MCConnectivity ---------------------------
(* Instance of Connectivity for TLC: one SoftAP visit per boot. *)
EXTENDS Connectivity
=============================================================================
