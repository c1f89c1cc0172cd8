--------------------------- MODULE SimModemProofs ---------------------------
(***************************************************************************)
(* What SimModem guarantees for any APNs and signal values: the inductive  *)
(* invariant, the APN that is reported, and the APNs that are tried.       *)
(***************************************************************************)
EXTENDS SimModem, TLAPS

\* A reading leaves the last good one among the signals.
LEMMA LastTyped == ASSUME csq \in Signals, lastValid \in Signals \cup {0}
                   PROVE  LastAfter(csq) \in Signals \cup {0}
BY DEF LastAfter, Heard

\* A snapshot is a snapshot, and it has a name when it is automatic and was
\* given one.
LEMMA SnapshotTyped ==
  ASSUME TypeOK, NEW p \in BOOLEAN, NEW a \in BOOLEAN, NEW d \in BOOLEAN, NEW n \in AnyApn,
         a => n # Empty
  PROVE  /\ Snapshot(p, a, d, n) \in [sim : BOOLEAN, auto : BOOLEAN, data : BOOLEAN, apn : AnyApn]
         /\ Snapshot(p, a, d, n).auto => Snapshot(p, a, d, n).apn # Empty
BY DEF Snapshot, TypeOK

\* What the table and the modem's PDP context offer are APNs.
LEMMA ApnsTyped ==
  ASSUME TypeOK
  PROVE  /\ Carrier \in AnyApn /\ Detected \in AnyApn /\ FirstTarget \in AnyApn
         /\ Empty \in AnyApn
BY DEF TypeOK, Carrier, Detected, FirstTarget, AnyApn

\* The initial states satisfy the inductive invariant.
LEMMA InitEstablishes == Init => IInv
<1> SUFFICES ASSUME Init PROVE IInv
  OBVIOUS
<1>1. TypeOK
  <2>1. retry \in 0 .. MaxRetries /\ lastValid \in Signals \cup {0}
    BY DEF Init, MaxRetries
  <2>2. Empty \in AnyApn
    BY DEF AnyApn
  <2>3. attached \in [up : BOOLEAN, apn : AnyApn]
    <3>1. attached = [up |-> FALSE, apn |-> Empty] \/ attached = [up |-> TRUE, apn |-> pdp]
      BY DEF Init, Detached
    <3>2. pdp \in AnyApn
      BY DEF Init
    <3>3. [up |-> FALSE, apn |-> Empty] \in [up : BOOLEAN, apn : AnyApn]
      BY <2>2
    <3>4. [up |-> TRUE, apn |-> pdp] \in [up : BOOLEAN, apn : AnyApn]
      BY <3>2
    <3>5. QED  BY <3>1, <3>3, <3>4
  <2>4. snap \in [sim : BOOLEAN, auto : BOOLEAN, data : BOOLEAN, apn : AnyApn]
    BY <2>2 DEF Init
  <2>5. reg \in BOOLEAN /\ jam \in BOOLEAN
    BY DEF Init
  <2>6. pc \in {"idle", "dial"} /\ by \in {"boot", "probe", "init"} /\ tried \subseteq AnyApn
    BY DEF Init
  <2>7. QED  BY <2>1, <2>2, <2>3, <2>4, <2>5, <2>6 DEF Init, TypeOK
<1>2. DialOK /\ ResolvedIsUsed /\ AutoApnKnown
  BY DEF Init, DialOK, ResolvedIsUsed, AutoApnKnown
<1>3. QED  BY <1>1, <1>2 DEF IInv

\* A probe keeps the invariant: it writes the snapshot and the reported name.
LEMMA ProbeStep == ASSUME IInv, Probe PROVE IInv'
<1> USE DEF Probe, envVars, dialVars, alarmVars
<1>0. TypeOK /\ DialOK /\ ResolvedIsUsed /\ AutoApnKnown
  BY DEF IInv
<1>1. CASE ProbeFindsSim
  <2>1. resolved' \in AnyApn /\ (Detected # Empty => resolved' # Empty)
    BY <1>0, <1>1, ApnsTyped DEF ProbeFindsSim, NameKept, TypeOK
  <2>2. attached.up \in BOOLEAN /\ TRUE \in BOOLEAN /\ (Detected # Empty) \in BOOLEAN
    BY <1>0 DEF TypeOK
  <2>3. /\ snap' \in [sim : BOOLEAN, auto : BOOLEAN, data : BOOLEAN, apn : AnyApn]
        /\ snap'.auto => snap'.apn # Empty
    BY <1>0, <1>1, <2>1, <2>2, SnapshotTyped DEF ProbeFindsSim
  <2>4. TypeOK'
    BY <1>0, <1>1, <2>1, <2>3 DEF ProbeFindsSim, TypeOK
  <2>5. DialOK'
    BY DEF DialOK
  <2>6. ResolvedIsUsed'
    BY <1>0, <1>1 DEF ProbeFindsSim, ResolvedIsUsed, NameKept
  <2>7. QED  BY <2>3, <2>4, <2>5, <2>6 DEF IInv, AutoApnKnown
<1>2. CASE ProbeFindsNoSim
  <2>1. attached.up \in BOOLEAN /\ FALSE \in BOOLEAN /\ resolved \in AnyApn
    BY <1>0 DEF TypeOK
  <2>2. /\ snap' \in [sim : BOOLEAN, auto : BOOLEAN, data : BOOLEAN, apn : AnyApn]
        /\ snap'.auto => snap'.apn # Empty
    <3>1. Empty \in AnyApn
      BY <1>0, ApnsTyped
    <3>2. CASE snap' = Snapshot(FALSE, FALSE, FALSE, Empty)
      BY <1>0, <2>1, <3>1, <3>2, SnapshotTyped
    <3>3. CASE snap' = Snapshot(FALSE, FALSE, attached.up, resolved)
      BY <1>0, <2>1, <3>3, SnapshotTyped
    <3>4. QED  BY <1>2, <3>2, <3>3 DEF ProbeFindsNoSim, NoModem
  <2>3. TypeOK'
    BY <1>0, <1>2, <2>2 DEF ProbeFindsNoSim, TypeOK
  <2>4. QED
    BY <1>0, <1>2, <2>2, <2>3 DEF ProbeFindsNoSim, IInv, AutoApnKnown, DialOK, ResolvedIsUsed
<1>3. QED  BY <1>1, <1>2

\* initSIM() without a modem, and its beginning.
LEMMA StartSteps == ASSUME IInv, InitFails \/ StartDial PROVE IInv'
<1> USE DEF envVars, dialVars, alarmVars
<1>0. TypeOK /\ DialOK /\ ResolvedIsUsed /\ AutoApnKnown
  BY DEF IInv
<1>1. CASE InitFails
  <2>1. /\ snap' \in [sim : BOOLEAN, auto : BOOLEAN, data : BOOLEAN, apn : AnyApn]
        /\ snap'.auto => snap'.apn # Empty
    BY <1>0, <1>1, SnapshotTyped, ApnsTyped DEF InitFails, NoModem
  <2>2. TypeOK'
    BY <1>0, <1>1, <2>1 DEF InitFails, TypeOK
  <2>3. QED
    BY <1>0, <1>1, <2>1, <2>2 DEF InitFails, IInv, AutoApnKnown, DialOK, ResolvedIsUsed
<1>2. CASE StartDial
  <2>1. (apn = Empty /\ Carrier # Empty) => FirstTarget # Empty
    BY DEF FirstTarget
  <2>2. /\ snap' \in [sim : BOOLEAN, auto : BOOLEAN, data : BOOLEAN, apn : AnyApn]
        /\ snap'.auto => snap'.apn # Empty
    BY <1>0, <1>2, <2>1, SnapshotTyped, ApnsTyped DEF StartDial
  <2>3. retry' \in 0 .. MaxRetries
    BY <1>2 DEF StartDial, MaxRetries
  <2>4. TypeOK'
    BY <1>0, <1>2, <2>2, <2>3, ApnsTyped DEF StartDial, TypeOK
  <2>5. DialOK'
    BY <1>2 DEF StartDial, DialOK, FirstTarget, Carrier
  <2>6. QED
    BY <1>2, <2>2, <2>4, <2>5 DEF StartDial, IInv, AutoApnKnown, ResolvedIsUsed
<1>3. QED  BY <1>1, <1>2

\* An attempt succeeds: the session has the APN that is reported.
LEMMA AttachedStep == ASSUME IInv, Attached PROVE IInv'
<1> USE DEF Attached, NoDial, envVars
<1>0. TypeOK /\ DialOK /\ AutoApnKnown
  BY DEF IInv
<1>1. lastValid' \in Signals \cup {0}
  BY <1>0, LastTyped DEF TypeOK
<1>2. attached' \in [up : BOOLEAN, apn : AnyApn] /\ retry' \in 0 .. MaxRetries
  BY <1>0 DEF TypeOK, MaxRetries
<1>3. TypeOK'
  BY <1>0, <1>1, <1>2 DEF TypeOK, AnyApn
<1>4. DialOK' /\ AutoApnKnown'
  BY <1>0 DEF DialOK, AutoApnKnown
<1>5. ResolvedIsUsed'
  BY <1>0 DEF DialOK, ResolvedIsUsed
<1>6. QED  BY <1>3, <1>4, <1>5 DEF IInv

\* An attempt fails: initSIM() gives up, or goes on, with the carrier's APN
\* from the second failure on.
LEMMA FailedStep == ASSUME IInv, AttemptFails PROVE IInv'
<1> USE DEF AttemptFails, NoDial, envVars, alarmVars
<1>0. TypeOK /\ DialOK /\ AutoApnKnown
  BY DEF IInv
<1>1. attached' = Detached /\ Detached \in [up : BOOLEAN, apn : AnyApn] /\ ~Detached.up
  BY DEF Detached, AnyApn
<1>2. resolved' \in AnyApn /\ target' \in AnyApn /\ pdp' \in AnyApn /\ tried' \subseteq AnyApn
  BY <1>0, ApnsTyped DEF TypeOK, ResolvedAfter
<1>3. retry' \in 0 .. MaxRetries
  BY <1>0 DEF TypeOK, GivesUp, MaxRetries
<1>4. TypeOK'
  BY <1>0, <1>1, <1>2, <1>3 DEF TypeOK
<1>5. DialOK'
  <2> SUFFICES ASSUME ~GivesUp(retry + 1), pc = "dial"
               PROVE  DialOK'
    BY DEF DialOK
  <2>1. retry \in Nat /\ retry' = retry + 1 /\ tried' = tried \cup {target}
    BY <1>0 DEF TypeOK
  <2>2. resolved' = target' /\ by' = "init"
    BY <1>0 DEF DialOK, ResolvedAfter
  <2>3. Carrier' = Carrier /\ FirstTarget' = FirstTarget
    BY DEF Carrier, FirstTarget
  <2>4. FirstTarget \in tried'
    BY <1>0, <2>1 DEF DialOK
  <2>5. retry + 1 >= 2 => Carrier \in tried' \cup {target', Empty}
    <3>1. CASE retry >= 2
      BY <1>0, <2>1, <3>1 DEF DialOK
    <3>2. CASE retry + 1 = 2
      BY <2>1, <3>2 DEF SwitchApn
    <3>3. QED  BY <2>1, <3>1, <3>2
  <2>6. QED  BY <2>1, <2>2, <2>3, <2>4, <2>5 DEF DialOK
<1>6. ResolvedIsUsed' /\ AutoApnKnown'
  BY <1>0, <1>1 DEF ResolvedIsUsed, AutoApnKnown
<1>7. QED  BY <1>4, <1>5, <1>6 DEF IInv

\* Samples, the radio, the modem's power and edits of the configuration.
LEMMA OtherSteps ==
  ASSUME IInv, Sample \/ Radio \/ ModemChanges \/ EditApn \/ UNCHANGED vars
  PROVE  IInv'
<1> USE DEF envVars, dialVars, alarmVars
<1>0. TypeOK /\ DialOK /\ ResolvedIsUsed /\ AutoApnKnown
  BY DEF IInv
<1>1. CASE Sample
  <2>1. lastValid' \in Signals \cup {0}
    BY <1>0, <1>1, LastTyped DEF Sample, TypeOK
  <2>2. jam' \in BOOLEAN
    BY <1>0, <1>1 DEF Sample, TypeOK, JamAfter
  <2>3. TypeOK'
    BY <1>0, <1>1, <2>1, <2>2 DEF Sample, TypeOK
  <2>4. QED
    BY <1>0, <1>1, <2>3 DEF Sample, IInv, DialOK, ResolvedIsUsed, AutoApnKnown
<1>2. CASE Radio
  <2>1. attached' \in [up : BOOLEAN, apn : AnyApn] /\ (attached'.up => attached' = attached)
    <3>1. Detached \in [up : BOOLEAN, apn : AnyApn] /\ ~Detached.up
      BY DEF Detached, AnyApn
    <3>2. attached' = attached \/ attached' = Detached
      BY <1>2 DEF Radio
    <3>3. QED  BY <1>0, <3>1, <3>2 DEF TypeOK
  <2>2. TypeOK'
    BY <1>0, <1>2, <2>1 DEF Radio, TypeOK
  <2>3. DialOK'
    BY <1>0, <1>2 DEF Radio, DialOK, FirstTarget, Carrier
  <2>4. QED
    BY <1>0, <1>2, <2>1, <2>2, <2>3 DEF Radio, IInv, ResolvedIsUsed, AutoApnKnown
<1>3. CASE ModemChanges
  <2>1. TypeOK'
    BY <1>0, <1>3 DEF ModemChanges, TypeOK
  <2>2. QED
    BY <1>0, <1>3, <2>1 DEF ModemChanges, IInv, DialOK, ResolvedIsUsed, AutoApnKnown
<1>4. CASE EditApn
  <2>1. TypeOK'
    BY <1>0, <1>4 DEF EditApn, TypeOK
  <2>2. QED
    BY <1>0, <1>4, <2>1 DEF EditApn, IInv, DialOK, ResolvedIsUsed, AutoApnKnown
<1>5. CASE UNCHANGED vars
  <2>1. TypeOK'
    BY <1>0, <1>5 DEF vars, TypeOK
  <2>2. QED
    BY <1>0, <1>5, <2>1
    DEF vars, IInv, DialOK, FirstTarget, Carrier, ResolvedIsUsed, AutoApnKnown
<1>6. QED  BY <1>1, <1>2, <1>3, <1>4, <1>5

\* Every step keeps the inductive invariant.
LEMMA StepKeeps == IInv /\ [Next]_vars => IInv'
BY ProbeStep, StartSteps, AttachedStep, FailedStep, OtherSteps DEF Next

\* Types, the dialling of initSIM(), the reported name and the snapshot, in
\* every reachable state.
THEOREM Safety == Spec => []IInv
<1>1. QED  BY InitEstablishes, StepKeeps, PTL DEF Spec

\* What telemetry reports as the APN is the one of the session, unless a probe
\* wrote over it.
THEOREM ReportedApn == Spec => []ResolvedIsUsed
<1>1. IInv => ResolvedIsUsed
  BY DEF IInv
<1>2. QED  BY Safety, <1>1, PTL

\* A modem advertised with an automatic APN comes with the name of that APN.
THEOREM AdvertisedApn == Spec => []AutoApnKnown
<1>1. IInv => AutoApnKnown
  BY DEF IInv
<1>2. QED  BY Safety, <1>1, PTL

\* initSIM() does not give up before the configured APN and the carrier's were
\* both tried.
THEOREM BothTried == Spec => BothApnsTried
<1> DEFINE Tried == pc = "dial" /\ pc' = "idle" /\ ~attached'.up
                      => {apn, Carrier} \ {Empty} \subseteq tried \cup {target}
<1>1. IInv /\ [Next]_vars => [Tried]_vars
  <2> SUFFICES ASSUME IInv, Next, pc = "dial", pc' = "idle", ~attached'.up
               PROVE  {apn, Carrier} \ {Empty} \subseteq tried \cup {target}
    BY DEF Tried
  <2>1. AttemptFails
    BY DEF Next, Probe, InitFails, StartDial, Attached, Sample, Radio, ModemChanges, EditApn
  <2>2. GivesUp(retry + 1)
    BY <2>1 DEF AttemptFails
  <2>3. retry >= 2
    BY <2>2 DEF GivesUp, MaxRetries, IInv, TypeOK
  <2>4. FirstTarget \in tried \cup {target} /\ Carrier \in tried \cup {target, Empty}
    BY <2>3 DEF IInv, DialOK
  <2>5. QED  BY <2>4 DEF FirstTarget
<1>2. QED  BY Safety, <1>1, PTL DEF Spec, BothApnsTried
=============================================================================
