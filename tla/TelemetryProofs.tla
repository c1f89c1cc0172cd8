-------------------------- MODULE TelemetryProofs --------------------------
(***************************************************************************)
(* What Telemetry guarantees for any width of the clock, interval, noise   *)
(* thresholds and tank: the timer measures time through the wrap, and      *)
(* noise is not rectified into consumption.                                *)
(***************************************************************************)
EXTENDS Telemetry, TLAPS

\* The clock has a value, and an interval with a late round fits its width.
LEMMA WrapPositive == /\ Wrap \in Nat \ {0}
                      /\ Interval \in Nat /\ MaxBlock \in Nat
                      /\ Interval + MaxBlock <= Wrap
BY TelemetryAssumption

\* The clock stays within its width.
LEMMA ClockTyped == ASSUME NEW a \in Int PROVE a % Wrap \in 0 .. Wrap - 1
BY WrapPositive

\* The next value of the clock.
LEMMA ClockNext ==
  ASSUME NEW a \in 0 .. Wrap - 1
  PROVE  (a + 1) % Wrap = IF a = Wrap - 1 THEN 0 ELSE a + 1
BY WrapPositive

\* The unsigned difference of two values of the clock.
LEMMA Difference ==
  ASSUME NEW a \in 0 .. Wrap - 1, NEW b \in 0 .. Wrap - 1
  PROVE  (a - b) % Wrap = IF a >= b THEN a - b ELSE a - b + Wrap
BY WrapPositive

\* A tick makes the difference one longer, through the wrap, until it is all
\* that the clock can hold.
LEMMA DifferenceNext ==
  ASSUME NEW a \in 0 .. Wrap - 1, NEW b \in 0 .. Wrap - 1, ((a - b) % Wrap) + 1 < Wrap
  PROVE  (((a + 1) % Wrap) - b) % Wrap = ((a - b) % Wrap) + 1
<1>1. (a + 1) % Wrap \in 0 .. Wrap - 1
  BY WrapPositive, ClockNext
<1>2. CASE a = Wrap - 1
  <2>1. (a + 1) % Wrap = 0
    BY <1>2, ClockNext
  <2>2. (0 - b) % Wrap = IF b = 0 THEN 0 ELSE Wrap - b
    BY WrapPositive, Difference
  <2>3. QED  BY <1>2, <2>1, <2>2, Difference, WrapPositive
<1>3. CASE a # Wrap - 1
  <2>1. (a + 1) % Wrap = a + 1 /\ a + 1 \in 0 .. Wrap - 1
    BY <1>3, ClockNext, WrapPositive
  <2>2. (a + 1 - b) % Wrap = IF a + 1 >= b THEN a + 1 - b ELSE a + 1 - b + Wrap
    BY <2>1, Difference
  <2>3. (a - b) % Wrap = IF a >= b THEN a - b ELSE a - b + Wrap
    BY Difference
  <2>4. a + 1 >= b <=> a >= b
    BY <2>3, WrapPositive
  <2>5. QED  BY <2>1, <2>2, <2>3, <2>4, WrapPositive
<1>4. QED  BY <1>2, <1>3

\* No time goes by between a value of the clock and itself.
LEMMA NoTime == ASSUME NEW a \in 0 .. Wrap - 1 PROVE (a - a) % Wrap = 0
BY Difference, WrapPositive

(***************************************************************************)
(* The timer.                                                              *)
(***************************************************************************)
\* A timer that fires does so after the interval: below the cap the
\* difference of the clock is the time that went by.
LEMMA DueIsLate == ASSUME IInv, timer.seeded, Due PROVE since >= Interval
<1>1. since \in Nat
  BY TelemetryAssumption DEF IInv, TypeOK
<1>2. CASE since < Interval + MaxBlock
  BY <1>1, <1>2, TelemetryAssumption DEF IInv, TimerMeasures, Due
<1>3. CASE since >= Interval + MaxBlock
  BY <1>1, <1>3, TelemetryAssumption
<1>4. QED  BY <1>1, <1>2, <1>3, TelemetryAssumption

\* The clock moves on: the difference and the time that went by grow alike.
LEMMA TickStep == ASSUME IInv, Tick PROVE IInv'
<1> USE DEF IInv, Tick, linkVars, tankVars, estVars
<1>0. TypeOK /\ TimerMeasures
  OBVIOUS
<1>1. now \in 0 .. Wrap - 1 /\ timer.last \in 0 .. Wrap - 1 /\ since \in 0 .. Interval + MaxBlock
  BY <1>0 DEF TypeOK
<1>2. now' \in 0 .. Wrap - 1
  BY <1>1, ClockNext, WrapPositive
<1>3. idle' \in 0 .. MaxBlock /\ since' \in 0 .. Interval + MaxBlock
  BY <1>0, TelemetryAssumption DEF TypeOK, Capped
<1>4. TypeOK'
  BY <1>0, <1>2, <1>3 DEF TypeOK
<1>5. TimerMeasures'
  <2> SUFFICES ASSUME timer.seeded, since' < Interval + MaxBlock
               PROVE  (now' - timer.last) % Wrap = since'
    BY DEF TimerMeasures, Elapsed
  <2>1. since' = since + 1 /\ since < Interval + MaxBlock
    BY <1>1, TelemetryAssumption DEF Capped
  <2>2. (now - timer.last) % Wrap = since
    BY <1>0, <2>1 DEF TimerMeasures, Elapsed
  <2>3. since + 1 < Wrap
    BY <1>1, <2>1, TelemetryAssumption
  <2>4. QED  BY <1>1, <2>1, <2>2, <2>3, DifferenceNext
<1>6. VolumeExplained' /\ NoiseNotRectified'
  BY DEF VolumeExplained, NoiseNotRectified
<1>7. QED  BY <1>4, <1>5, <1>6

(***************************************************************************)
(* The tank and the links.                                                 *)
(***************************************************************************)
\* What is drawn may be counted, now or later.
LEMMA DrawStep == ASSUME IInv, Draw PROVE IInv'
<1> USE DEF IInv, Draw, linkVars, estVars
<1>0. TypeOK
  OBVIOUS
<1>1. level' \in 0 .. Tank /\ drawn' \in Nat
  BY <1>0, TelemetryAssumption DEF TypeOK
<1>2. TypeOK'
  BY <1>0, <1>1 DEF TypeOK
<1>3. TimerMeasures'
  BY DEF TimerMeasures, Elapsed
<1>4. counted \in Nat /\ drawn \in Nat /\ refills \in Nat /\ level \in Nat /\ est.vol \in Int
  BY <1>0, TelemetryAssumption DEF TypeOK
<1>5. VolumeExplained' /\ NoiseNotRectified'
  BY <1>4 DEF VolumeExplained, NoiseNotRectified
<1>6. QED  BY <1>2, <1>3, <1>5

\* A refill makes the tank fuller than the estimator knows; it may count the
\* errors of two readings more.
LEMMA RefillStep == ASSUME IInv, Refill PROVE IInv'
<1> USE DEF IInv, Refill, linkVars, estVars
<1>0. TypeOK
  OBVIOUS
<1>1. level' \in 0 .. Tank /\ refills' \in 0 .. MaxRefills
  BY <1>0, TelemetryAssumption DEF TypeOK
<1>2. TypeOK'
  BY <1>0, <1>1 DEF TypeOK
<1>3. TimerMeasures'
  BY DEF TimerMeasures, Elapsed
<1>4. /\ counted \in Nat /\ drawn \in Nat /\ refills \in Nat /\ level \in Nat
      /\ est.vol \in Int /\ level' \in Nat /\ level' >= level
  BY <1>0, TelemetryAssumption DEF TypeOK
<1>5. VolumeExplained' /\ NoiseNotRectified'
  BY <1>4 DEF VolumeExplained, NoiseNotRectified
<1>6. QED  BY <1>2, <1>3, <1>5

\* Connecting starts the estimator anew and leaves the timer alone.
LEMMA ConnectedStep == ASSUME IInv, Connected PROVE IInv'
<1> USE DEF IInv, Connected
<1>0. TypeOK
  OBVIOUS
<1>1. est' \in [seeded : BOOLEAN, vol : Int, at : 0 .. Wrap - 1]
  BY WrapPositive DEF Reset
<1>2. TypeOK'
  BY <1>0, <1>1, TelemetryAssumption DEF TypeOK
<1>3. TimerMeasures'
  BY DEF TimerMeasures, Elapsed
<1>4. VolumeExplained' /\ NoiseNotRectified'
  BY DEF VolumeExplained, NoiseNotRectified, Reset
<1>5. QED  BY <1>2, <1>3, <1>4

\* The links and an update touch neither the timer nor the estimator.
LEMMA LinkSteps ==
  ASSUME IInv, LinkLost \/ MqttFlips \/ OtaChunk \/ OtaEnds PROVE IInv'
<1> USE DEF IInv, LinkLost, MqttFlips, OtaChunk, OtaEnds, estVars, tankVars
<1>0. TypeOK
  OBVIOUS
<1>1. TypeOK'
  <2>1. online' \in BOOLEAN /\ mqtt' \in BOOLEAN /\ ota' \in BOOLEAN /\ published' \in BOOLEAN
    BY <1>0, Zenon DEF TypeOK, linkVars
  <2>2. idle' \in 0 .. MaxBlock
    BY <1>0, TelemetryAssumption DEF TypeOK
  <2>3. QED  BY <1>0, <2>1, <2>2 DEF TypeOK
<1>2. TimerMeasures'
  BY DEF TimerMeasures, Elapsed
<1>3. VolumeExplained' /\ NoiseNotRectified'
  BY DEF VolumeExplained, NoiseNotRectified
<1>4. QED  BY <1>1, <1>2, <1>3

(***************************************************************************)
(* A round.                                                                *)
(***************************************************************************)
\* An update of the estimator. A rise beyond RefillRise is more than the
\* errors of two readings, so the tank was filled; a drop that is counted is
\* one from what is explained to a reading that is off by one.
LEMMA EstimateKeeps ==
  ASSUME IInv, NEW r \in Readings, Estimate(r), UNCHANGED <<tankVars, now>>
  PROVE  /\ est' \in [seeded : BOOLEAN, vol : Int, at : 0 .. Wrap - 1]
         /\ counted' \in Nat
         /\ VolumeExplained' /\ NoiseNotRectified'
<1> USE DEF tankVars
<1>0. TypeOK /\ VolumeExplained /\ NoiseNotRectified
  BY DEF IInv
<1>1. /\ counted \in Nat /\ drawn \in Nat /\ refills \in Nat /\ level \in Nat
      /\ r \in Nat /\ r >= level - 1 /\ r <= level + 1
      /\ RefillRise \in Nat /\ RefillRise >= 2
  BY <1>0, TelemetryAssumption DEF TypeOK, Readings
<1>2. /\ est \in [seeded : BOOLEAN, vol : Int, at : 0 .. Wrap - 1]
      /\ est.vol \in Int /\ now \in 0 .. Wrap - 1
  BY <1>0 DEF TypeOK
<1>3. CASE Keep
  BY <1>0, <1>1, <1>2, <1>3 DEF Keep, estVars, VolumeExplained, NoiseNotRectified
<1>4. ASSUME Take(r)
      PROVE  /\ est' \in [seeded : BOOLEAN, vol : Int, at : 0 .. Wrap - 1]
             /\ est'.seeded /\ est'.vol = r
  BY <1>1, <1>2, <1>4 DEF Take
<1>5. CASE ~est.seeded /\ Take(r) /\ counted' = 0
  BY <1>0, <1>1, <1>4, <1>5 DEF VolumeExplained, NoiseNotRectified
<1>6. CASE est.seeded /\ est.vol - r < -RefillRise /\ Take(r) /\ counted' = counted
  <2>1. level > est.vol + 1
    BY <1>1, <1>2, <1>6
  <2>2. counted <= drawn + 2 * refills
    BY <1>0, <1>6, <2>1 DEF VolumeExplained
  <2>3. QED  BY <1>0, <1>1, <1>4, <1>6, <2>2 DEF VolumeExplained, NoiseNotRectified
<1>7. CASE est.seeded /\ est.vol - r > 0 /\ Take(r) /\ counted' = counted + (est.vol - r)
  <2>1. counted' \in Nat /\ counted' + r = counted + est.vol
    BY <1>1, <1>2, <1>7
  <2>2. counted + est.vol <= drawn + level + 1 + 2 * refills
    BY <1>0, <1>7 DEF VolumeExplained
  <2>3. QED  BY <1>0, <1>1, <1>4, <1>7, <2>1, <2>2 DEF VolumeExplained, NoiseNotRectified
<1>8. CASE est.seeded /\ est' = [est EXCEPT !.at = now] /\ counted' = counted
  <2>1. /\ est' \in [seeded : BOOLEAN, vol : Int, at : 0 .. Wrap - 1]
        /\ est'.seeded = est.seeded /\ est'.vol = est.vol
    BY <1>2, <1>8
  <2>2. QED  BY <1>0, <1>1, <1>8, <2>1 DEF VolumeExplained, NoiseNotRectified
<1>9. \/ Keep
      \/ ~est.seeded /\ Take(r) /\ counted' = 0
      \/ est.seeded /\ est.vol - r < -RefillRise /\ Take(r) /\ counted' = counted
      \/ est.seeded /\ est.vol - r > 0 /\ Take(r) /\ counted' = counted + (est.vol - r)
      \/ est.seeded /\ est' = [est EXCEPT !.at = now] /\ counted' = counted
  BY Zenon DEF Estimate, Seed, Refilled, Counts
<1>10. QED  BY <1>3, <1>5, <1>6, <1>7, <1>8, <1>9

\* A round that seeds the timer, one that fires it, and one that waits.
LEMMA RoundStep == ASSUME IInv, Round PROVE IInv'
<1> USE DEF tankVars, linkVars
<1>0. TypeOK /\ TimerMeasures /\ VolumeExplained /\ NoiseNotRectified
  BY DEF IInv
<1>1. /\ idle' \in 0 .. MaxBlock
      /\ UNCHANGED <<now, tankVars, linkVars>>
  BY TelemetryAssumption DEF Round
<1>2. now \in 0 .. Wrap - 1 /\ timer \in [seeded : BOOLEAN, last : 0 .. Wrap - 1]
  BY <1>0 DEF TypeOK
<1>3. /\ published' \in BOOLEAN
      /\ est' \in [seeded : BOOLEAN, vol : Int, at : 0 .. Wrap - 1]
      /\ counted' \in Nat
      /\ VolumeExplained' /\ NoiseNotRectified'
  <2>1. CASE Keep /\ published' = FALSE
    BY <1>0, <1>1, <2>1 DEF Keep, estVars, TypeOK, VolumeExplained, NoiseNotRectified
  <2>2. CASE published' = TRUE /\ \E r \in Readings : Estimate(r)
    <3>1. PICK r \in Readings : Estimate(r)
      BY <2>2
    <3>2. /\ est' \in [seeded : BOOLEAN, vol : Int, at : 0 .. Wrap - 1]
          /\ counted' \in Nat
          /\ VolumeExplained' /\ NoiseNotRectified'
      BY <1>1, <3>1, EstimateKeeps
    <3>3. QED  BY <2>2, <3>2
  <2>3. (Keep /\ published' = FALSE) \/ (published' = TRUE /\ \E r \in Readings : Estimate(r))
    BY Zenon DEF Round, Publish
  <2>4. QED  BY <2>1, <2>2, <2>3
<1>4. /\ timer' \in [seeded : BOOLEAN, last : 0 .. Wrap - 1]
      /\ since' \in 0 .. Interval + MaxBlock
      /\ TimerMeasures'
  <2>1. CASE timer' = timer /\ since' = since
    BY <1>0, <1>1, <1>2, <2>1 DEF TypeOK, TimerMeasures, Elapsed
  <2>2. CASE timer' = [seeded |-> TRUE, last |-> now] /\ since' = 0
    BY <1>1, <1>2, <2>2, NoTime, TelemetryAssumption DEF TimerMeasures, Elapsed
  <2>3. CASE timer' = [timer EXCEPT !.last = now] /\ since' = 0
    BY <1>1, <1>2, <2>3, NoTime, TelemetryAssumption DEF TimerMeasures, Elapsed
  <2>4. QED  BY <2>1, <2>2, <2>3, Zenon DEF Round
<1>5. TypeOK'
  BY <1>0, <1>1, <1>3, <1>4 DEF TypeOK
<1>6. QED  BY <1>3, <1>4, <1>5 DEF IInv

\* Only a round that is due moves a timer that was seeded.
LEMMA TimerMoves ==
  ASSUME Next, timer.seeded, timer'.last # timer.last PROVE Due
BY DEF Next, Tick, Draw, Refill, Connected, LinkLost, MqttFlips, OtaChunk, OtaEnds, Round,
       linkVars, tankVars, estVars

(***************************************************************************)
(* The theorems.                                                           *)
(***************************************************************************)
\* At power-on the timer is not seeded and nothing was read.
LEMMA InitEstablishes == Init => IInv
<1> SUFFICES ASSUME Init PROVE IInv
  OBVIOUS
<1>1. TypeOK
  <2>1. 0 \in 0 .. Wrap - 1 /\ 0 \in 0 .. MaxBlock /\ 0 \in 0 .. MaxRefills
    BY WrapPositive, TelemetryAssumption
  <2>2. since \in 0 .. Interval + MaxBlock /\ level \in 0 .. Tank
    BY TelemetryAssumption DEF Init
  <2>3. timer \in [seeded : BOOLEAN, last : 0 .. Wrap - 1]
    BY <2>1 DEF Init
  <2>4. est \in [seeded : BOOLEAN, vol : Int, at : 0 .. Wrap - 1]
    BY <2>1 DEF Init, Reset
  <2>5. online \in BOOLEAN /\ mqtt \in BOOLEAN /\ ota \in BOOLEAN /\ published \in BOOLEAN
    BY DEF Init
  <2>6. QED  BY <2>1, <2>2, <2>3, <2>4, <2>5 DEF Init, TypeOK
<1>2. TimerMeasures /\ VolumeExplained /\ NoiseNotRectified
  BY DEF Init, Reset, TimerMeasures, VolumeExplained, NoiseNotRectified
<1>3. QED  BY <1>1, <1>2 DEF IInv

\* Every step keeps the invariant, one that changes nothing included.
LEMMA StepPreserves == IInv /\ [Next]_vars => IInv'
<1> SUFFICES ASSUME IInv, [Next]_vars PROVE IInv'
  OBVIOUS
<1>1. CASE UNCHANGED vars
  BY <1>1 DEF vars, linkVars, tankVars, estVars, IInv, TypeOK, TimerMeasures, Elapsed,
              VolumeExplained, NoiseNotRectified
<1>2. CASE Next
  BY <1>2, TickStep, DrawStep, RefillStep, ConnectedStep, LinkSteps, RoundStep, Zenon DEF Next
<1>3. QED  BY <1>1, <1>2

\* The types, the timer's measure of time (main.cpp's rounds, the wrap of
\* millis()), and what the estimator's last volume explains.
THEOREM Safety == Spec => []IInv
<1>1. Init => IInv
  BY InitEstablishes
<1>2. IInv /\ [Next]_vars => IInv'
  BY StepPreserves
<1>3. QED  BY <1>1, <1>2, PTL DEF Spec

\* TelemetryService::loop(): the timer never fires before its interval is
\* over, whatever the width of millis() and however late the rounds.
THEOREM TimerIsSpaced == Spec => Spaced
<1>1. IInv /\ [Next]_vars => [timer.seeded /\ timer'.last # timer.last => since >= Interval]_vars
  BY DueIsLate, TimerMoves
<1>2. Spec => []IInv
  BY Safety
<1>3. QED  BY <1>1, <1>2, PTL DEF Spec, Spaced

\* ConsumptionEstimator::update(): readings that are off by one unit never
\* add up to a consumption that did not take place.
THEOREM NoiseIsNotConsumption == Spec => []NoiseNotRectified
<1>1. IInv => NoiseNotRectified
  BY DEF IInv
<1>2. Spec => []IInv
  BY Safety
<1>3. QED  BY <1>1, <1>2, PTL
=============================================================================
