-------------------------- MODULE MCPairingButton --------------------------
(* Instance of PairingButton for TLC. *)
EXTENDS PairingButton
=============================================================================
