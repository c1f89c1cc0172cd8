---------------------------- MODULE Connectivity ----------------------------
(***************************************************************************)
(* The dual uplink: FirmwareController's CONNECTING and OPERATIONAL states,*)
(* ConnectivityService, the MQTT transport and its socket, and the WiFi    *)
(* and cellular links under them.                                          *)
(*                                                                         *)
(* The main loop is one thread, but every blocking call (15 s of WiFi, up  *)
(* to two minutes of modem retries, a TCP dial) lets the radio, the        *)
(* carrier and the broker change behind it, so the loop is cut where it    *)
(* blocks or reads a link again: pc names the place.                       *)
(*                                                                         *)
(*   loop -> wifi -> cellular -> begin -> dial -> loop     (CONNECTING)    *)
(*   loop -> ensure -> begin -> dial -> serve -> loop      (OPERATIONAL)   *)
(*                                                                         *)
(* Every boot is a behaviour that starts at Init: a restart adds none.     *)
(***************************************************************************)
EXTENDS Naturals

CONSTANT MaxVisits   \* bound: SoftAP portal visits from the button per boot

ASSUME MaxVisitsAssumption == MaxVisits \in Nat

VARIABLES
    state,       \* FirmwareController::state_
    pc,          \* where the loop thread is
    activeType,  \* ConnectivityService::activeType_
    haveLink,    \* ConnectivityService::haveLink_
    socket,      \* the client initMQTT() bound; "None" until begun_
    mqttUp,      \* mqtt.connected()
    ssid,        \* a WiFi SSID is configured (fixed for one boot)
    wifiOn,      \* WiFi.begin() was called: the station associates by itself
    wifiUp,      \* WiFi.status() == WL_CONNECTED
    ap,          \* the configured access point is in reach
    simUp,       \* modem.isGprsConnected()
    coverage,    \* the carrier accepts and keeps a data session
    broker,      \* the broker is reachable and accepts this device
    visits       \* SoftAP visits so far

loopVars == <<state, pc, activeType, haveLink, socket>>
wifiVars == <<wifiOn, wifiUp, ap>>
simVars  == <<simUp, coverage>>
vars     == <<loopVars, mqttUp, ssid, wifiVars, simVars, broker, visits>>

Links  == {"Wifi", "Cellular"}
NoLink == "None"
Places == {"loop", "wifi", "cellular", "begin", "dial", "ensure", "serve"}

TypeOK ==
    /\ state \in {"Connecting", "Operational"}
    /\ pc \in Places
    /\ activeType \in Links
    /\ socket \in Links \cup {NoLink}
    /\ haveLink \in BOOLEAN /\ mqttUp \in BOOLEAN /\ ssid \in BOOLEAN
    /\ wifiOn \in BOOLEAN /\ wifiUp \in BOOLEAN /\ ap \in BOOLEAN
    /\ simUp \in BOOLEAN /\ coverage \in BOOLEAN /\ broker \in BOOLEAN
    /\ visits \in 0 .. MaxVisits

Init ==
    /\ state = "Connecting" /\ pc = "loop"
    /\ activeType = "Cellular" /\ haveLink = FALSE
    /\ socket = NoLink /\ mqttUp = FALSE
    /\ ssid \in BOOLEAN /\ ap \in BOOLEAN /\ coverage \in BOOLEAN /\ broker \in BOOLEAN
    /\ wifiOn = FALSE /\ wifiUp = FALSE /\ simUp = FALSE
    /\ visits = 0

LinkUp(l) == IF l = "Wifi" THEN wifiUp ELSE simUp

HasActiveLink == haveLink /\ LinkUp(activeType)

\* Faulty: the link is not asked.
IsOnlineMqttOnly == mqttUp

IsOnline == HasActiveLink /\ mqttUp

\* A packet of the MQTT socket reaches the broker: through the client the
\* socket was bound to, whatever the active link is.
PathUp == socket # NoLink /\ LinkUp(socket) /\ broker

(***************************************************************************)
(* CONNECTING: ConnectivityService::connect()                              *)
(***************************************************************************)
\* Faulty: the previous link stays on record while another is sought.
StartConnectKeepsLink ==
    /\ pc = "loop" /\ state = "Connecting"
    /\ pc' = IF ssid THEN "wifi" ELSE "cellular"
    /\ wifiOn' = (wifiOn \/ ssid)
    /\ UNCHANGED <<state, activeType, haveLink, socket, mqttUp, ssid, wifiUp, ap, simVars, broker, visits>>

StartConnect ==
    /\ pc = "loop" /\ state = "Connecting"
    /\ haveLink' = FALSE
    /\ pc' = IF ssid THEN "wifi" ELSE "cellular"
    /\ wifiOn' = (wifiOn \/ ssid)
    /\ UNCHANGED <<state, activeType, socket, mqttUp, ssid, wifiUp, ap, simVars, broker, visits>>

\* A link is up: record it as the active one and go on to MQTT.
HoldLink(l) ==
    /\ activeType' = l /\ haveLink' = TRUE
    /\ pc' = "begin"
    /\ UNCHANGED <<state, socket, mqttUp, ssid, wifiVars, coverage, broker, visits>>

WifiConnected ==
    /\ pc = "wifi" /\ wifiUp
    /\ HoldLink("Wifi")
    /\ UNCHANGED simUp

WifiTimeout ==
    /\ pc = "wifi" /\ ~wifiUp
    /\ pc' = "cellular"
    /\ UNCHANGED <<state, activeType, haveLink, socket, mqttUp, ssid, wifiVars, simVars, broker, visits>>

\* initSIM() attaches when the carrier takes it within its retries.
CellularConnected ==
    /\ pc = "cellular" /\ coverage
    /\ simUp' = TRUE
    /\ HoldLink("Cellular")

CellularFailed ==
    /\ pc = "cellular" /\ ~coverage
    /\ pc' = "loop"
    /\ UNCHANGED <<state, activeType, haveLink, socket, mqttUp, ssid, wifiVars, simVars, broker, visits>>

(***************************************************************************)
(* Mqttv5Transport::connect(), called by connect() and ensureConnected().  *)
(***************************************************************************)
ActiveNetworkClient == IF wifiUp THEN "Wifi" ELSE "Cellular"

\* The client is chosen once per boot, by WiFi.status() at that instant.
BeginMqtt ==
    /\ pc = "begin"
    /\ socket' = IF socket = NoLink THEN ActiveNetworkClient ELSE socket
    /\ pc' = "dial"
    /\ UNCHANGED <<state, activeType, haveLink, mqttUp, ssid, wifiVars, simVars, broker, visits>>

DialSucceeds ==
    /\ pc = "dial" /\ (mqttUp \/ PathUp)
    /\ mqttUp' = TRUE
    /\ pc' = IF state = "Connecting" THEN "loop" ELSE "serve"
    /\ state' = "Operational"
    /\ UNCHANGED <<activeType, haveLink, socket, ssid, wifiVars, simVars, broker, visits>>

DialFails ==
    /\ pc = "dial" /\ ~mqttUp /\ ~PathUp
    /\ pc' = "loop"
    /\ state' = "Connecting"
    /\ UNCHANGED <<activeType, haveLink, socket, mqttUp, ssid, wifiVars, simVars, broker, visits>>

(***************************************************************************)
(* OPERATIONAL: isOnline(), then ensureConnected(), which reads both again.*)
(***************************************************************************)
CheckOnline ==
    /\ pc = "loop" /\ state = "Operational"
    /\ pc' = IF IsOnline THEN "serve" ELSE "ensure"
    /\ UNCHANGED <<state, activeType, haveLink, socket, mqttUp, ssid, wifiVars, simVars, broker, visits>>

EnsureLinkLost ==
    /\ pc = "ensure" /\ ~HasActiveLink
    /\ pc' = "loop" /\ state' = "Connecting"
    /\ UNCHANGED <<activeType, haveLink, socket, mqttUp, ssid, wifiVars, simVars, broker, visits>>

\* Faulty: a lost MQTT session is left to the library's own retries.
EnsureLinkUpNoDial ==
    /\ pc = "ensure" /\ HasActiveLink
    /\ pc' = IF mqttUp THEN "serve" ELSE "loop"
    /\ UNCHANGED <<state, activeType, haveLink, socket, mqttUp, ssid, wifiVars, simVars, broker, visits>>

EnsureLinkUp ==
    /\ pc = "ensure" /\ HasActiveLink
    /\ pc' = IF mqttUp THEN "serve" ELSE "begin"
    /\ UNCHANGED <<state, activeType, haveLink, socket, mqttUp, ssid, wifiVars, simVars, broker, visits>>

\* transport().loop() (whose library may reconnect by itself), OTA, GPS and
\* telemetry: one service round.
Serve ==
    /\ pc = "serve"
    /\ mqttUp' \in {mqttUp, mqttUp \/ PathUp}
    /\ pc' = "loop"
    /\ UNCHANGED <<state, activeType, haveLink, socket, ssid, wifiVars, simVars, broker, visits>>

LoopStep ==
    \/ StartConnect
    \/ WifiConnected
    \/ WifiTimeout
    \/ CellularConnected
    \/ CellularFailed
    \/ BeginMqtt
    \/ DialSucceeds
    \/ DialFails
    \/ CheckOnline
    \/ EnsureLinkLost
    \/ EnsureLinkUp
    \/ Serve

\* A long press sends the loop into pairing and on to the SoftAP portal, left
\* with a short press: it drops the station and puts the radio back to STA;
\* whether the station then retries by itself is the WiFi library's business.
SoftApVisit ==
    /\ pc = "loop" /\ visits < MaxVisits
    /\ visits' = visits + 1
    /\ wifiUp' = FALSE
    /\ wifiOn' \in {FALSE, wifiOn}
    /\ UNCHANGED <<loopVars, mqttUp, ssid, ap, simVars, broker>>

(***************************************************************************)
(* The environment.                                                        *)
(***************************************************************************)
ApChanges ==
    /\ ap' = ~ap
    /\ wifiUp' = (wifiUp /\ ap')
    /\ UNCHANGED <<loopVars, mqttUp, ssid, wifiOn, simVars, broker, visits>>

Associate ==
    /\ wifiOn /\ ap /\ ~wifiUp
    /\ wifiUp' = TRUE
    /\ UNCHANGED <<loopVars, mqttUp, ssid, wifiOn, ap, simVars, broker, visits>>

\* A lost data session stays lost until initSIM() runs again.
CoverageChanges ==
    /\ coverage' = ~coverage
    /\ simUp' = (simUp /\ coverage')
    /\ UNCHANGED <<loopVars, mqttUp, ssid, wifiVars, broker, visits>>

BrokerChanges ==
    /\ broker' = ~broker
    /\ UNCHANGED <<loopVars, mqttUp, ssid, wifiVars, simVars, visits>>

\* The client notices, some time later, that its path is gone.
MqttLost ==
    /\ mqttUp /\ ~PathUp
    /\ mqttUp' = FALSE
    /\ UNCHANGED <<loopVars, ssid, wifiVars, simVars, broker, visits>>

Next ==
    \/ LoopStep
    \/ SoftApVisit
    \/ ApChanges
    \/ Associate
    \/ CoverageChanges
    \/ BrokerChanges
    \/ MqttLost

Spec == Init /\ [][Next]_vars

\* loop() runs forever; the station associates with an access point that
\* stays; keep-alive (60 s) ends a dead MQTT session.
Fairness == WF_vars(LoopStep) /\ WF_vars(Associate) /\ WF_vars(MqttLost)

FairSpec == Spec /\ Fairness

(***************************************************************************)
(* Properties                                                              *)
(***************************************************************************)
\* The controller is OPERATIONAL only on a link that connect() brought up and
\* with a bound socket; every place of the loop agrees with the state it is
\* reached in; the places of connect() that look for a link hold none.
ControllerAgrees ==
    /\ state = "Operational" => haveLink /\ socket # NoLink
    /\ pc \in {"ensure", "serve"} => state = "Operational"
    /\ pc \in {"wifi", "cellular"} => state = "Connecting" /\ ~haveLink
    /\ pc = "wifi" => wifiOn
    /\ pc \in {"begin", "dial"} => haveLink
    /\ pc = "dial" => socket # NoLink

\* Nothing is connected without what carries it: an MQTT session without a
\* bound socket, an association without an access point, a data session
\* without a carrier.
CarriersPresent ==
    /\ mqttUp => socket # NoLink
    /\ wifiUp => wifiOn /\ ap
    /\ simUp => coverage

\* The inductive invariant.
IInv == TypeOK /\ ControllerAgrees /\ CarriersPresent

Uplink == INSTANCE UplinkSession WITH
    link    <- IF haveLink THEN activeType ELSE NoLink,
    session <- state = "Operational"

\* The stack implements the uplink contract: the link of a session is never
\* swapped underneath it.
UplinkContract == Uplink!Spec

\* A link that is lost under a session is always noticed, however the MQTT
\* session is doing: the controller goes back to CONNECTING, the only place
\* that runs initSIM() and WiFi.begin(), unless WiFi came back by itself.
LostLinkNoticed ==
    /\ (state = "Operational" /\ activeType = "Cellular" /\ ~simUp) ~> state = "Connecting"
    /\ (state = "Operational" /\ activeType = "Wifi" /\ ~wifiUp) ~> (state = "Connecting" \/ wifiUp)

Serving == pc = "serve"

\* Once the link the socket is bound to stays available (and, for a cellular
\* socket, WiFi no longer competes with it) service rounds never stop.
RecoversOnSocketLink ==
    <>[](broker /\ (\/ socket = "Wifi" /\ ap
                    \/ socket = "Cellular" /\ coverage /\ ~ap)) => []<>Serving

\* README, Networking: "WiFi as the preferred link and automatic fallback to
\* 4G/LTE cellular": with the access point gone for good and the carrier and
\* broker there for good, service resumes.
FallsBackToCellular == <>[](broker /\ coverage /\ ~ap) => []<>Serving

=============================================================================
