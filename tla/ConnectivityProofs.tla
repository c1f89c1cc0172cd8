------------------------- MODULE ConnectivityProofs -------------------------
(***************************************************************************)
(* What Connectivity guarantees for every bound MaxVisits: the inductive   *)
(* invariant, and that the uplink contract is implemented.                 *)
(***************************************************************************)
EXTENDS Connectivity, TLAPS

\* The initial states satisfy the inductive invariant.
LEMMA InitEstablishes == Init => IInv
<1> SUFFICES ASSUME Init PROVE IInv
  OBVIOUS
<1>1. visits \in 0 .. MaxVisits
  BY MaxVisitsAssumption DEF Init
<1>2. QED
  BY <1>1 DEF Init, IInv, TypeOK, ControllerAgrees, CarriersPresent, Places, Links, NoLink

\* The steps of connect() that look for a link and record it.
LEMMA ConnectSteps ==
  ASSUME IInv, StartConnect \/ WifiConnected \/ WifiTimeout
                 \/ CellularConnected \/ CellularFailed
  PROVE  IInv'
<1> USE DEF IInv, TypeOK, ControllerAgrees, CarriersPresent, Places, Links, NoLink,
            wifiVars, simVars, HoldLink
<1>1. CASE StartConnect       BY <1>1 DEF StartConnect
<1>2. CASE WifiConnected      BY <1>2 DEF WifiConnected
<1>3. CASE WifiTimeout        BY <1>3 DEF WifiTimeout
<1>4. CASE CellularConnected  BY <1>4 DEF CellularConnected
<1>5. CASE CellularFailed     BY <1>5 DEF CellularFailed
<1>6. QED  BY <1>1, <1>2, <1>3, <1>4, <1>5

\* The steps of the MQTT transport.
LEMMA TransportSteps ==
  ASSUME IInv, BeginMqtt \/ DialSucceeds \/ DialFails
  PROVE  IInv'
<1> USE DEF IInv, TypeOK, ControllerAgrees, CarriersPresent, Places, Links, NoLink,
            wifiVars, simVars
<1>1. CASE BeginMqtt     BY <1>1 DEF BeginMqtt, ActiveNetworkClient
<1>2. CASE DialSucceeds  BY <1>2 DEF DialSucceeds
<1>3. CASE DialFails     BY <1>3 DEF DialFails
<1>4. QED  BY <1>1, <1>2, <1>3

\* The steps of an OPERATIONAL tick.
LEMMA OperationalSteps ==
  ASSUME IInv, CheckOnline \/ EnsureLinkLost \/ EnsureLinkUp \/ Serve
  PROVE  IInv'
<1> USE DEF IInv, TypeOK, ControllerAgrees, CarriersPresent, Places, Links, NoLink,
            wifiVars, simVars
<1>1. CASE CheckOnline     BY <1>1 DEF CheckOnline
<1>2. CASE EnsureLinkLost  BY <1>2 DEF EnsureLinkLost
<1>3. CASE EnsureLinkUp    BY <1>3 DEF EnsureLinkUp, HasActiveLink
<1>4. CASE Serve           BY <1>4 DEF Serve, PathUp
<1>5. QED  BY <1>1, <1>2, <1>3, <1>4

\* The steps of the radio, the carrier, the broker and the SoftAP portal.
LEMMA EnvironmentSteps ==
  ASSUME IInv, SoftApVisit \/ ApChanges \/ Associate \/ CoverageChanges
                 \/ BrokerChanges \/ MqttLost
  PROVE  IInv'
<1> USE DEF IInv, TypeOK, ControllerAgrees, CarriersPresent, Places, Links, NoLink,
            loopVars, wifiVars, simVars
<1>1. CASE SoftApVisit
  <2>1. visits' \in 0 .. MaxVisits
    BY <1>1, MaxVisitsAssumption DEF SoftApVisit
  <2>2. wifiOn' \in BOOLEAN /\ wifiUp' = FALSE
    BY <1>1 DEF SoftApVisit
  <2>3. QED  BY <1>1, <2>1, <2>2 DEF SoftApVisit
<1>2. CASE ApChanges        BY <1>2 DEF ApChanges
<1>3. CASE Associate        BY <1>3 DEF Associate
<1>4. CASE CoverageChanges  BY <1>4 DEF CoverageChanges
<1>5. CASE BrokerChanges    BY <1>5 DEF BrokerChanges
<1>6. CASE MqttLost
  <2>1. TypeOK'           BY <1>6 DEF MqttLost
  <2>2. ControllerAgrees' BY <1>6 DEF MqttLost
  <2>3. CarriersPresent'  BY <1>6 DEF MqttLost
  <2>4. QED               BY <2>1, <2>2, <2>3
<1>7. QED  BY <1>1, <1>2, <1>3, <1>4, <1>5, <1>6

\* The controller, the links, the socket and the MQTT session always agree:
\* OPERATIONAL only on a recorded link with a bound socket.
THEOREM Agreement == Spec => []IInv
<1>1. IInv /\ [Next]_vars => IInv'
  <2> SUFFICES ASSUME IInv, [Next]_vars PROVE IInv'
    OBVIOUS
  <2>1. CASE Next
    BY <2>1, ConnectSteps, TransportSteps, OperationalSteps, EnvironmentSteps
    DEF Next, LoopStep
  <2>2. CASE UNCHANGED vars
    BY <2>2 DEF vars, loopVars, wifiVars, simVars, IInv, TypeOK, ControllerAgrees,
                CarriersPresent
  <2>3. QED  BY <2>1, <2>2
<1>2. QED  BY InitEstablishes, <1>1, PTL DEF Spec

(***************************************************************************)
(* The refinement: the abstract link is the recorded one, the session is   *)
(* the OPERATIONAL state.                                                  *)
(***************************************************************************)

\* A step of the device is a step of the contract or leaves it alone.
LEMMA StepImplements ==
  ASSUME IInv, [Next]_vars
  PROVE  [Uplink!Next]_Uplink!vars
<1> USE DEF Uplink!Next, Uplink!vars, Uplink!Acquire, Uplink!Open, Uplink!Close,
            Uplink!Release, NoLink, Links, IInv, TypeOK, ControllerAgrees
<1>1. CASE StartConnect
  BY <1>1 DEF StartConnect
<1>2. CASE WifiConnected
  BY <1>2 DEF WifiConnected, HoldLink
<1>3. CASE CellularConnected
  BY <1>3 DEF CellularConnected, HoldLink
<1>4. CASE WifiTimeout \/ CellularFailed \/ BeginMqtt
  BY <1>4 DEF WifiTimeout, CellularFailed, BeginMqtt
<1>5. CASE DialSucceeds
  BY <1>5 DEF DialSucceeds
<1>6. CASE DialFails
  BY <1>6 DEF DialFails
<1>7. CASE CheckOnline \/ EnsureLinkUp \/ Serve
  BY <1>7 DEF CheckOnline, EnsureLinkUp, Serve
<1>8. CASE EnsureLinkLost
  BY <1>8 DEF EnsureLinkLost
<1>9. CASE SoftApVisit \/ ApChanges \/ Associate \/ CoverageChanges
             \/ BrokerChanges \/ MqttLost \/ UNCHANGED vars
  BY <1>9 DEF SoftApVisit, ApChanges, Associate, CoverageChanges, BrokerChanges,
              MqttLost, vars, loopVars
<1>10. QED
  BY <1>1, <1>2, <1>3, <1>4, <1>5, <1>6, <1>7, <1>8, <1>9 DEF Next, LoopStep

\* The dual-uplink stack implements the uplink contract: a service session
\* runs on a held link, and that link is never swapped underneath it.
THEOREM ImplementsContract == Spec => UplinkContract
<1>1. Init => Uplink!Init
  BY DEF Init, Uplink!Init, NoLink
<1>2. IInv /\ [Next]_vars => [Uplink!Next]_Uplink!vars
  BY StepImplements
<1>3. QED
  BY <1>1, <1>2, Agreement, PTL DEF Spec, UplinkContract, Uplink!Spec
=============================================================================
