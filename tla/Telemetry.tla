----------------------------- MODULE Telemetry ------------------------------
(***************************************************************************)
(* TelemetryService in the main loop: the publish timer on millis(), which *)
(* wraps; suppression while MQTT is down or an update is coming in; and    *)
(* the ConsumptionEstimator it feeds with the volume of the tank.          *)
(*                                                                         *)
(* Volumes are whole units and readings are off by one unit at most; the   *)
(* smoothed rate is left out: a sample of it is the pair of a drop and the *)
(* time it is divided by. Each chunk of an update, its end, and telemetry  *)
(* come from one service round of the OPERATIONAL state.                   *)
(***************************************************************************)
EXTENDS Integers

CONSTANTS Wrap,        \* millis() counts modulo Wrap; 2^32 in the code
          Interval,    \* ticks between publications; 30 s in the code
          NoiseTicks,  \* below this time ...
          NoiseDrop,   \* ... a drop smaller than this is not looked at; 60 s, 0.2 L
          RefillRise,  \* a rise beyond this is a refill; 5 L: the errors of two
                       \* readings alone, a unit each, do not reach beyond it
          MaxBlock,    \* bound: ticks between two rounds while OPERATIONAL
          Tank,        \* bound: what the tank holds
          MaxRefills   \* bound: refills since the estimator was reset

ASSUME TelemetryAssumption ==
    /\ Wrap \in Nat /\ Interval \in Nat \ {0} /\ MaxBlock \in Nat \ {0}
    /\ Interval + MaxBlock <= Wrap
    /\ NoiseTicks \in Nat /\ NoiseDrop \in Nat /\ RefillRise \in Nat /\ RefillRise >= 2
    /\ Tank \in Nat /\ MaxRefills \in Nat

VARIABLES
    now,        \* millis()
    timer,      \* [seeded |-> seeded_, last |-> lastPublishMs_]
    online,     \* the controller is OPERATIONAL
    mqtt,       \* transport_.isConnected()
    ota,        \* g_otaInProgress
    published,  \* the last round published
    est,        \* the estimator: [seeded |-> seeded_, vol |-> lastV_, at |-> lastMs_]
    level,      \* what the tank really holds
    idle,       \* ticks since the last round
    since,      \* history: ticks since the timer last fired or was seeded
    drawn,      \* history: units drawn from the tank since the first reading
    counted,    \* history: units the estimator took for consumption
    refills     \* history: refills since the first reading

linkVars == <<online, mqtt, ota>>
tankVars == <<level, drawn, refills>>
estVars  == <<est, counted>>
vars == <<now, timer, linkVars, published, estVars, tankVars, idle, since>>

Capped(n, bound) == IF n > bound THEN bound ELSE n

\* Unsigned subtraction.
Elapsed(from) == (now - from) % Wrap

Reset == [seeded |-> FALSE, vol |-> 0, at |-> 0]

TypeOK ==
    /\ now \in 0 .. Wrap - 1
    /\ timer \in [seeded : BOOLEAN, last : 0 .. Wrap - 1]
    /\ online \in BOOLEAN /\ mqtt \in BOOLEAN /\ ota \in BOOLEAN /\ published \in BOOLEAN
    /\ est \in [seeded : BOOLEAN, vol : Int, at : 0 .. Wrap - 1]
    /\ level \in 0 .. Tank
    /\ idle \in 0 .. MaxBlock
    /\ since \in 0 .. Interval + MaxBlock
    /\ drawn \in Nat /\ counted \in Nat /\ refills \in 0 .. MaxRefills

Init ==
    /\ now \in 0 .. Wrap - 1
    /\ timer = [seeded |-> FALSE, last |-> 0]
    /\ online = FALSE /\ mqtt = FALSE /\ ota = FALSE /\ published = FALSE
    /\ est = Reset /\ counted = 0
    /\ level = Tank /\ drawn = 0 /\ refills = 0
    /\ idle = 0 /\ since = 0

(***************************************************************************)
(* The clock, the tank and the links.                                      *)
(***************************************************************************)
\* While OPERATIONAL no round is longer than MaxBlock.
Tick ==
    /\ online => idle < MaxBlock
    /\ now' = (now + 1) % Wrap
    /\ idle' = IF online THEN idle + 1 ELSE 0
    /\ since' = Capped(since + 1, Interval + MaxBlock)
    /\ UNCHANGED <<timer, linkVars, published, estVars, tankVars>>

Draw ==
    /\ level > 0
    /\ level' = level - 1
    /\ drawn' = IF est.seeded THEN drawn + 1 ELSE drawn
    /\ UNCHANGED <<now, timer, linkVars, published, estVars, refills, idle, since>>

Refill ==
    /\ level < Tank /\ refills < MaxRefills
    /\ level' = Tank
    /\ refills' = IF est.seeded THEN refills + 1 ELSE refills
    /\ UNCHANGED <<now, timer, linkVars, published, estVars, drawn, idle, since>>

\* runConnecting() succeeds: filters are reset, the timer is not.
Connected ==
    /\ ~online
    /\ online' = TRUE /\ mqtt' = TRUE
    /\ est' = Reset /\ counted' = 0 /\ drawn' = 0 /\ refills' = 0
    /\ idle' = 0
    /\ UNCHANGED <<now, timer, ota, published, level, since>>

\* ensureConnected() fails: back to CONNECTING.
LinkLost ==
    /\ online
    /\ online' = FALSE /\ mqtt' = FALSE /\ published' = FALSE /\ idle' = 0
    /\ UNCHANGED <<now, timer, ota, estVars, tankVars, since>>

\* The session ends, or is set up again by the library, between two rounds.
MqttFlips ==
    /\ online
    /\ mqtt' = ~mqtt
    /\ UNCHANGED <<now, timer, online, ota, published, estVars, tankVars, idle, since>>

\* ota_.handle() gets the first chunk of an update, or its end.
OtaChunk ==
    /\ online /\ mqtt /\ ~ota
    /\ ota' = TRUE
    /\ UNCHANGED <<now, timer, online, mqtt, published, estVars, tankVars, idle, since>>

OtaEnds ==
    /\ online /\ ota
    /\ ota' = FALSE
    /\ UNCHANGED <<now, timer, online, mqtt, published, estVars, tankVars, idle, since>>

(***************************************************************************)
(* ConsumptionEstimator::update()                                          *)
(***************************************************************************)
Keep == UNCHANGED estVars

\* The reading is the one to compare with from now on.
Take(reading) == est' = [seeded |-> TRUE, vol |-> reading, at |-> now]

\* The first reading.
Seed(reading) == ~est.seeded /\ Take(reading) /\ counted' = 0

Refilled(drop) == drop < -RefillRise

Tiny(drop) == Elapsed(est.at) < NoiseTicks /\ drop < NoiseDrop /\ -drop < NoiseDrop

\* No time passed, or nothing worth looking at.
Ignored(drop) == Elapsed(est.at) = 0 \/ (~Refilled(drop) /\ (Tiny(drop) \/ drop = 0))

Counts(drop, reading) == Take(reading) /\ counted' = counted + drop

\* Faulty: a rise is taken for the new volume, however small.
EstimateRise(reading) ==
    LET drop == est.vol - reading
    IN \/ Seed(reading)
       \/ est.seeded /\ Elapsed(est.at) = 0 /\ Keep
       \/ est.seeded /\ Elapsed(est.at) # 0 /\ Counts(IF drop > 0 THEN drop ELSE 0, reading)

\* Faulty: a small rise is negative consumption.
EstimateSigned(reading) ==
    LET drop == est.vol - reading
    IN \/ Seed(reading)
       \/ est.seeded /\ Ignored(drop) /\ Keep
       \/ est.seeded /\ ~Ignored(drop) /\ Counts(IF Refilled(drop) THEN 0 ELSE drop, reading)

Estimate(reading) ==
    LET drop == est.vol - reading
    IN \/ Seed(reading)
       \/ est.seeded /\ Ignored(drop) /\ Keep
       \/ /\ est.seeded /\ ~Ignored(drop)
          /\ \/ Refilled(drop) /\ Take(reading) /\ counted' = counted
             \/ drop > 0 /\ Counts(drop, reading)
             \/ /\ drop < 0 /\ ~Refilled(drop)
                /\ est' = [est EXCEPT !.at = now] /\ counted' = counted

(***************************************************************************)
(* TelemetryService::loop(), publishTelemetry()                            *)
(***************************************************************************)
\* Faulty: the end of the interval is computed first, and wraps.
DueWrapped == now >= (timer.last + Interval) % Wrap

\* Faulty: the end of the interval is computed first, on a wider integer.
DueWidened == now >= timer.last + Interval

Due == Elapsed(timer.last) >= Interval

Suppressed == ~mqtt \/ ota

Readings == {r \in level - 1 .. level + 1 : r >= 0}

Publish ==
    IF Suppressed THEN published' = FALSE /\ Keep
                  ELSE published' = TRUE /\ \E r \in Readings : Estimate(r)

\* The first round seeds the timer; a later one publishes when it is due.
Round ==
    /\ online
    /\ idle' = 0
    /\ \/ /\ ~timer.seeded
          /\ timer' = [seeded |-> TRUE, last |-> now] /\ since' = 0
          /\ published' = FALSE /\ Keep
       \/ /\ timer.seeded /\ Due
          /\ timer' = [timer EXCEPT !.last = now] /\ since' = 0
          /\ Publish
       \/ /\ timer.seeded /\ ~Due
          /\ published' = FALSE /\ Keep
          /\ UNCHANGED <<timer, since>>
    /\ UNCHANGED <<now, linkVars, tankVars>>

Next ==
    \/ Tick
    \/ Draw
    \/ Refill
    \/ Connected
    \/ LinkLost
    \/ MqttFlips
    \/ OtaChunk
    \/ OtaEnds
    \/ Round

Spec == Init /\ [][Next]_vars

\* Time passes and the main loop runs; nothing is assumed of the links.
Fairness == WF_vars(Tick) /\ WF_vars(Round)

FairSpec == Spec /\ Fairness

(***************************************************************************)
(* Properties                                                              *)
(***************************************************************************)
\* README, telemetry: every 30 s. The timer never fires sooner, through the
\* wrap of millis(), lost links and rounds that came late.
Spaced == [][timer.seeded /\ timer'.last # timer.last => since >= Interval]_vars

\* Publication goes on while the device stays online without an update,
\* whatever happened before: the timer is never stuck by a wrap or by
\* publications that were suppressed.
PublishesAgain == <>[](online /\ mqtt /\ ~ota) => []<>published

\* README, autonomy prediction: noise is not rectified into consumption. The
\* volume counted exceeds what was drawn by the error of two readings at most,
\* and of two more for each refill, however many readings there were.
NoiseNotRectified == counted <= drawn + 2 * (1 + refills)

(***************************************************************************)
(* The inductive invariant                                                 *)
(***************************************************************************)
\* The timer's difference is the time that went by, up to the cap of since.
TimerMeasures ==
    timer.seeded /\ since < Interval + MaxBlock => Elapsed(timer.last) = since

\* The volume the estimator compares with lies above what is in the tank by
\* no more than is still missing in what it counted, and the errors; one
\* below the tank by more than an error was left there by a refill.
VolumeExplained ==
    IF est.seeded
    THEN /\ counted + est.vol <= drawn + level + 1 + 2 * refills
         /\ level > est.vol + 1 => counted <= drawn + 2 * refills
    ELSE counted = 0 /\ drawn = 0 /\ refills = 0

IInv == TypeOK /\ TimerMeasures /\ VolumeExplained /\ NoiseNotRectified
=============================================================================
