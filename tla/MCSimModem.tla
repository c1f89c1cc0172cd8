----------------------------- MODULE MCSimModem -----------------------------
(* Instance of SimModem for TLC. *)
EXTENDS SimModem
=============================================================================
