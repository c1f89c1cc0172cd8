------------------------------ MODULE SimModem ------------------------------
(***************************************************************************)
(* sim_module.cpp: the probe before pairing, initSIM() with its retries    *)
(* and APN fallback, the jamming latch, and the snapshot of the modem that *)
(* the portals advertise. All of it runs in the main loop; initSIM()       *)
(* blocks it, one attempt after another, while coverage comes and goes.    *)
(*                                                                         *)
(* The modem keeps its power through a restart of the ESP32, so a boot may *)
(* find it attached already.                                               *)
(***************************************************************************)
EXTENDS Naturals

CONSTANTS Apns,      \* access point names
          Empty,     \* the empty string
          Signals    \* values of getSignalQuality(): 0 .. 31, 99 for none

ASSUME SimModemAssumption == Empty \notin Apns /\ Signals \subseteq Nat

VARIABLES
    pc,        \* "idle", or inside initSIM(): "dial"
    apn,       \* config.apn
    carrier,   \* what the APN table has for this SIM's IMSI; fixed
    modem,     \* "off", "blank" (it gives no IMSI), or "ready"
    pdp,       \* the APN in the modem's first PDP context
    csq,       \* signal quality
    reg,       \* isNetworkConnected()
    attached,  \* [up |-> isGprsConnected(), apn |-> the one in use]
    target,    \* initSIM(): targetApn
    retry,     \* initSIM(): retry
    resolved,  \* _resolvedApn
    lastValid, \* _lastValidRssi
    jam,       \* _jammingDetected
    snap,      \* the snapshot: [sim, auto, data, apn]
    by,        \* history: who wrote resolved last
    tried      \* history: the APNs this initSIM() failed with

envVars   == <<apn, carrier, modem, csq, reg>>
dialVars  == <<target, retry, tried>>
alarmVars == <<lastValid, jam>>
vars == <<pc, envVars, pdp, attached, dialVars, resolved, alarmVars, snap, by>>

AnyApn     == Apns \cup {Empty}
Detached   == [up |-> FALSE, apn |-> Empty]
MaxRetries == 5

TypeOK ==
    /\ pc \in {"idle", "dial"}
    /\ apn \in AnyApn /\ carrier \in AnyApn /\ pdp \in AnyApn
    /\ modem \in {"off", "blank", "ready"}
    /\ reg \in BOOLEAN /\ jam \in BOOLEAN
    /\ csq \in Signals /\ lastValid \in Signals \cup {0}
    /\ attached \in [up : BOOLEAN, apn : AnyApn]
    /\ target \in AnyApn /\ resolved \in AnyApn
    /\ retry \in 0 .. MaxRetries
    /\ snap \in [sim : BOOLEAN, auto : BOOLEAN, data : BOOLEAN, apn : AnyApn]
    /\ by \in {"boot", "probe", "init"}
    /\ tried \subseteq AnyApn

Init ==
    /\ pc = "idle"
    /\ apn \in AnyApn /\ carrier \in AnyApn /\ pdp \in AnyApn
    /\ modem \in {"off", "blank", "ready"} /\ csq \in Signals /\ reg \in BOOLEAN
    /\ attached \in {Detached, [up |-> TRUE, apn |-> pdp]}
    /\ target = Empty /\ retry = 0 /\ tried = {}
    /\ resolved = Empty /\ by = "boot"
    /\ lastValid = 0 /\ jam = FALSE
    /\ snap = [sim |-> FALSE, auto |-> FALSE, data |-> FALSE, apn |-> Empty]

Heard(c) == c # 0 /\ c # 99

\* A reading that is none keeps the last good one.
LastAfter(c) == IF Heard(c) THEN c ELSE lastValid

\* setCellularProvisioningSnapshot(): no name keeps the old one while auto.
Snapshot(present, auto, data, name) ==
    [sim |-> present, auto |-> auto, data |-> data,
     apn |-> IF name = Empty /\ auto THEN snap.apn ELSE name]

NoModem == Snapshot(FALSE, FALSE, FALSE, Empty)

\* autoResolveApnFromImsi()
Carrier == IF modem = "ready" THEN carrier ELSE Empty

(***************************************************************************)
(* probeSimProvisioningState(), at the start of a pairing workflow.        *)
(***************************************************************************)
\* Faulty: only the APN of the table is kept.
NameKeptCarrier(found) == IF Carrier # Empty THEN found ELSE resolved

NameKept(found) == IF found # Empty THEN found ELSE resolved

\* The APN of the table, else the one defined in the modem.
Detected == IF Carrier # Empty THEN Carrier ELSE pdp

ProbeFindsSim ==
    /\ modem # "off"
    /\ resolved' = NameKept(Detected)
    /\ by' = IF Detected # Empty THEN "probe" ELSE by
    /\ snap' = Snapshot(TRUE, Detected # Empty, attached.up, resolved')

ProbeFindsNoSim ==
    /\ \/ modem = "off" /\ snap' = NoModem
       \/ modem = "blank" /\ snap' = Snapshot(FALSE, FALSE, attached.up, resolved)
    /\ UNCHANGED <<resolved, by>>

Probe ==
    /\ pc = "idle"
    /\ ProbeFindsSim \/ ProbeFindsNoSim
    /\ UNCHANGED <<pc, envVars, pdp, attached, dialVars, alarmVars>>

(***************************************************************************)
(* initSIM()                                                               *)
(***************************************************************************)
InitFails ==
    /\ pc = "idle" /\ modem = "off"
    /\ snap' = NoModem
    /\ UNCHANGED <<pc, envVars, pdp, attached, dialVars, resolved, alarmVars, by>>

\* The configured APN, else the table's.
FirstTarget == IF apn # Empty THEN apn ELSE Carrier

StartDial ==
    /\ pc = "idle" /\ modem # "off"
    /\ pc' = "dial"
    /\ target' = FirstTarget /\ retry' = 0 /\ tried' = {}
    /\ resolved' = FirstTarget /\ by' = "init"
    /\ snap' = Snapshot(modem = "ready", apn = Empty /\ Carrier # Empty, FALSE, FirstTarget)
    /\ UNCHANGED <<envVars, pdp, attached, alarmVars>>

\* The local variables of initSIM() end with it.
NoDial == target' = Empty /\ retry' = 0 /\ tried' = {}

Attached ==
    /\ pc = "dial" /\ reg
    /\ pc' = "idle"
    /\ pdp' = target /\ attached' = [up |-> TRUE, apn |-> target]
    /\ NoDial
    /\ lastValid' = LastAfter(csq) /\ jam' = FALSE
    /\ UNCHANGED <<envVars, resolved, snap, by>>

\* Faulty: the fallback comes when no attempt is left.
SwitchApnLate(n) == n = MaxRetries + 1 /\ Carrier # Empty /\ Carrier # target

SwitchApn(n) == n = 2 /\ Carrier # Empty /\ Carrier # target

\* Faulty: the name to report is left as it was.
ResolvedAfterSilent(n) == resolved

\* The second failure turns to the APN of the SIM's carrier.
ResolvedAfter(n) == IF SwitchApn(n) THEN Carrier ELSE resolved

\* Faulty: one retry too many.
GivesUpLate(n) == n > MaxRetries + 1

GivesUp(n) == n > MaxRetries

AttemptFails ==
    /\ pc = "dial"
    /\ pdp' = target /\ attached' = Detached
    /\ resolved' = ResolvedAfter(retry + 1)
    /\ IF GivesUp(retry + 1)
       THEN pc' = "idle" /\ NoDial
       ELSE /\ retry' = retry + 1
            /\ tried' = tried \cup {target}
            /\ target' = IF SwitchApn(retry + 1) THEN Carrier ELSE target
            /\ UNCHANGED pc
    /\ UNCHANGED <<envVars, alarmVars, snap, by>>

(***************************************************************************)
(* getSignalRSSI(), at every publication, whatever the active link.        *)
(***************************************************************************)
\* Faulty: a weak network does not end the alarm.
JamAfterStrong(c, r) ==
    IF lastValid >= 12 /\ ~Heard(c) /\ ~r THEN TRUE
    ELSE jam /\ ~(r /\ c >= 12 /\ c # 99)

JamAfter(c, r) ==
    IF lastValid >= 12 /\ ~Heard(c) /\ ~r THEN TRUE
    ELSE jam /\ ~(r /\ c >= 5 /\ c # 99)

Sample ==
    /\ pc = "idle"
    /\ jam' = JamAfter(csq, reg)
    /\ lastValid' = LastAfter(csq)
    /\ UNCHANGED <<pc, envVars, pdp, attached, dialVars, resolved, snap, by>>

(***************************************************************************)
(* The environment.                                                        *)
(***************************************************************************)
\* Radio conditions; a lost registration ends the data session, at some time.
Radio ==
    /\ \E c \in Signals : csq' = c
    /\ reg' \in BOOLEAN
    /\ attached' \in {attached, Detached}
    /\ UNCHANGED <<pc, apn, carrier, modem, pdp, dialVars, resolved, alarmVars, snap, by>>

\* The modem stops answering, or answers again.
ModemChanges ==
    /\ pc = "idle"
    /\ modem' \in {"off", "blank", "ready"} \ {modem}
    /\ UNCHANGED <<pc, apn, carrier, csq, reg, pdp, attached, dialVars, resolved, alarmVars, snap, by>>

\* A portal or the LAN server sets config.apn without a restart after it.
EditApn ==
    /\ pc = "idle"
    /\ apn' \in AnyApn \ {apn}
    /\ UNCHANGED <<pc, carrier, modem, csq, reg, pdp, attached, dialVars, resolved, alarmVars, snap, by>>

Next ==
    \/ Probe
    \/ InitFails
    \/ StartDial
    \/ Attached
    \/ AttemptFails
    \/ Sample
    \/ Radio
    \/ ModemChanges
    \/ EditApn

Spec == Init /\ [][Next]_vars

\* initSIM() returns, and publications come again and again, though not while
\* initSIM() runs.
Fairness == WF_vars(Attached \/ AttemptFails) /\ SF_vars(Sample)

FairSpec == Spec /\ Fairness

(***************************************************************************)
(* Properties                                                              *)
(***************************************************************************)
\* The APN that telemetry reports is the one the session was opened with, the
\* fallback included, unless a probe wrote over it.
ResolvedIsUsed == pc = "idle" /\ attached.up /\ by = "init" => resolved = attached.apn

\* A modem advertised with an automatic APN comes with its name: the portals
\* and the LAN server answer from the two together.
AutoApnKnown == snap.auto => snap.apn # Empty

\* Inside initSIM() the name to report is the one being dialled; the first
\* choice has been tried or is being tried, and from the second failure on the
\* APN of the carrier too.
DialOK ==
    pc = "dial" =>
        /\ resolved = target /\ by = "init"
        /\ FirstTarget \in tried \cup {target}
        /\ retry >= 2 => Carrier \in tried \cup {target, Empty}

\* The inductive invariant.
IInv == TypeOK /\ DialOK /\ ResolvedIsUsed /\ AutoApnKnown

\* initSIM(), "fallback to IMSI APN on retry": it never gives up without having
\* tried both the configured APN and the one of the SIM's carrier.
BothApnsTried ==
    [][pc = "dial" /\ pc' = "idle" /\ ~attached'.up
         => {apn, Carrier} \ {Empty} \subseteq tried \cup {target}]_vars

\* Jamming detection: once the network is back at fair quality for good, the
\* alarm ends for good, whatever reconnections come between.
AlarmEnds == <>[](reg /\ csq >= 5 /\ csq # 99) => <>[]~jam
=============================================================================
