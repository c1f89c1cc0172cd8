---------------------------- MODULE UplinkSession ----------------------------
(***************************************************************************)
(* What the dual-uplink stack promises to the rest of the firmware: the    *)
(* device holds at most one uplink, a service session runs only on a held  *)
(* uplink, and the uplink of a session is never swapped underneath it - to *)
(* change from WiFi to cellular the session is closed, the uplink is given *)
(* up and another one is acquired.                                         *)
(*                                                                         *)
(* ConnectivityService.h ("Trae un enlace ... y luego MQTT") and           *)
(* FirmwareController.h (CONNECTING / OPERATIONAL) state this contract;    *)
(* Connectivity.tla implements it.                                         *)
(***************************************************************************)
CONSTANTS Links,   \* the uplinks: WiFi and cellular
          NoLink   \* no uplink is held

VARIABLES link,    \* the uplink held, or NoLink
          session  \* a service session is open (the controller is OPERATIONAL)

vars == <<link, session>>

Init == link = NoLink /\ session = FALSE

\* An uplink is brought up; no other one is held and no session is open.
Acquire(l) ==
    /\ ~session /\ link = NoLink
    /\ link' = l
    /\ UNCHANGED session

\* The service session opens over the uplink held.
Open ==
    /\ ~session /\ link # NoLink
    /\ session' = TRUE
    /\ UNCHANGED link

\* The session ends; the uplink is still on record.
Close ==
    /\ session
    /\ session' = FALSE
    /\ UNCHANGED link

\* The uplink on record is given up before a new attempt.
Release ==
    /\ ~session /\ link # NoLink
    /\ link' = NoLink
    /\ UNCHANGED session

Next == (\E l \in Links : Acquire(l)) \/ Open \/ Close \/ Release

Spec == Init /\ [][Next]_vars
=============================================================================
