----------------------------- MODULE LanServer ------------------------------
(***************************************************************************)
(* LanZeroconfServer and the status LED it controls: the server that runs  *)
(* while WiFi is seen up, the state it announces by mDNS, and the LED      *)
(* setting "sledOnline" (GpioIndicator). Of the announcement the setting   *)
(* is kept; sequence numbers, encryption and texts are left out.           *)
(*                                                                         *)
(* These are actions on the variables below only; Operation adds what they *)
(* do to the configuration.                                                *)
(***************************************************************************)
VARIABLES
    running,    \* running_
    announced,  \* "sledOnline" in the mDNS record; "none" without one
    led,        \* GpioIndicator::sledOnline_
    posted      \* a LAN client has posted /zeroconf/unlink with a valid proof

lanVars == <<running, announced, led, posted>>

LanOK ==
    /\ running \in BOOLEAN /\ led \in BOOLEAN /\ posted \in BOOLEAN
    /\ announced \in {"none", "on", "off"}

LanInit == running = FALSE /\ announced = "none" /\ led = TRUE /\ posted = FALSE

Text(setting) == IF setting THEN "on" ELSE "off"

\* notifyMdnsStateChange(): says nothing while the server is down.
Notified == announced' = IF running' THEN Text(led') ELSE announced

\* loop(true): startServer() announces once the server runs.
Served ==
    /\ running' = TRUE /\ UNCHANGED <<led, posted>>
    /\ IF running THEN UNCHANGED announced ELSE Notified

\* loop(false): stopServer()
Stopped ==
    /\ running' = FALSE /\ announced' = "none"
    /\ UNCHANGED <<led, posted>>

\* /zeroconf/sled, in three parts: the LED, the store, announcement and answer.
SledSet(setting) == led' = setting /\ UNCHANGED <<running, announced, posted>>
SledAnswered == UNCHANGED <<running, led, posted>> /\ Notified

\* /zeroconf/wifi and /zeroconf/config end with an announcement too.
Reannounced == UNCHANGED <<running, led, posted>> /\ Notified

UnlinkPosted   == running /\ ~posted /\ posted' = TRUE /\ UNCHANGED <<running, announced, led>>
UnlinkGivenUp  == posted /\ posted' = FALSE /\ UNCHANGED <<running, announced, led>>
UnlinkAccepted == posted /\ posted' = FALSE /\ UNCHANGED <<running, announced, led>>

\* After a restart; a LAN client does not notice.
LanReset == running' = FALSE /\ announced' = "none" /\ UNCHANGED posted
=============================================================================
