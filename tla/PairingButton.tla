--------------------------- MODULE PairingButton ---------------------------
(***************************************************************************)
(* The BOOT button (GpioButton) and the pairing workflow it drives: a hold *)
(* opens Quick Pairing, another one the SoftAP portal, a short press goes  *)
(* back to normal operation.                                               *)
(*                                                                         *)
(* Time is counted in sampling ticks (25 ms). update() is called by the    *)
(* main loop and by the loops of the portals, at most MaxBlock ticks apart;*)
(* each call credits the ticks since the last sample, MaxStep at most, and *)
(* leaves the rest for the next call: a sampler that was on while the loop *)
(* was blocked has a backlog. The pin moves, and bounces, freely.          *)
(***************************************************************************)
EXTENDS Integers

CONSTANTS DebounceTicks,   \* 2 in the code (50 ms)
          LongTicks,       \* 200 in the code (5 s)
          MaxStep,         \* 4 in the code
          ReleaseWait,     \* ticks a portal waits for a release; 120 in the code (3 s)
          MaxBlock,        \* bound: ticks between two calls of update()
          MaxLag           \* bound: ticks the sampler may be behind

ASSUME ButtonAssumption ==
    /\ DebounceTicks \in Nat \ {0} /\ LongTicks \in Nat \ {0}
    /\ MaxStep \in Nat \ {0} /\ MaxBlock \in Nat \ {0} /\ ReleaseWait \in Nat
    /\ MaxLag \in Nat /\ MaxLag >= LongTicks
    /\ DebounceTicks < LongTicks /\ DebounceTicks <= MaxStep

VARIABLES
    low,      \* the pin reads LOW: the button is down
    isr,      \* g_btnIsrTriggered
    btn,      \* GpioButton's fields; lag: ticks since lastSampleMs_
    event,    \* what the last update() returned
    place,    \* who calls update(): "loop", "ble" or "ap"
    waiting,  \* the portal's loop for the release of the button
    waited,   \* ticks it has waited
    initial,  \* the portals are those of the initial boot
    idle,     \* ticks since the last call of update()
    held,     \* history: ticks the button has been down since it fell or init()
    up,       \* history: ticks the button has been up, DebounceTicks at most
    clear,    \* history: update() or init() saw it up for that long
    span,     \* history: ticks since it fell after a clear release
    owed,     \* history: the sampler's backlog when it fell so
    given,    \* history: events returned since the pin last fell
    again     \* history: init() was called since the pin last fell

pinVars  == <<low, isr>>
flowVars == <<place, waiting, waited, initial>>
history  == <<held, up, clear, span, owed, given, again>>
vars == <<pinVars, btn, event, flowVars, idle, history>>

Events == {"None", "ShortPress", "LongPress"}

\* What a call credits at least of the MaxBlock ticks that may have passed.
Credit == IF MaxBlock <= MaxStep THEN MaxBlock ELSE MaxStep

\* The hold that is a long press for sure: the calls that credit LongTicks, and
\* two that may be missing at its ends.
SureHold == MaxBlock * ((LongTicks + Credit - 1) \div Credit + 2)

Capped(n, bound) == IF n > bound THEN bound ELSE n

Off == [sampling |-> FALSE, press |-> 0, release |-> 0, fired |-> FALSE, lag |-> 0]

\* Sampling starts, one tick already due.
Fresh == [sampling |-> TRUE, press |-> 0, release |-> 0, fired |-> FALSE, lag |-> 1]

TypeOK ==
    /\ low \in BOOLEAN /\ isr \in BOOLEAN
    /\ btn \in [sampling : BOOLEAN, press : 0 .. LongTicks, release : 0 .. DebounceTicks - 1,
                fired : BOOLEAN, lag : 0 .. MaxLag]
    /\ event \in Events
    /\ place \in {"loop", "ble", "ap"}
    /\ waiting \in BOOLEAN /\ waited \in 0 .. ReleaseWait /\ initial \in BOOLEAN
    /\ idle \in 0 .. MaxBlock
    /\ held \in 0 .. SureHold /\ up \in 0 .. DebounceTicks /\ clear \in BOOLEAN
    /\ span \in 0 .. LongTicks /\ owed \in 0 .. MaxLag
    /\ given \subseteq {"ShortPress", "LongPress"}
    /\ again \in BOOLEAN

\* setup(): init(), and the portals unless the device is provisioned. They are
\* called for with the button down, too.
Init ==
    /\ initial \in BOOLEAN /\ low \in {FALSE, initial}
    /\ place = IF initial THEN "ble" ELSE "loop"
    /\ waiting = initial /\ waited = 0 /\ idle = 0
    /\ isr = FALSE /\ btn = (IF low THEN Fresh ELSE Off) /\ event = "None"
    /\ held = 0 /\ up = DebounceTicks /\ clear = ~low /\ span = 0 /\ owed = 0
    /\ given = {} /\ again = FALSE

(***************************************************************************)
(* The button and the clock.                                               *)
(***************************************************************************)
\* The falling edge raises the interrupt.
PinFalls ==
    /\ ~low
    /\ low' = TRUE /\ isr' = TRUE
    /\ held' = 0 /\ given' = {} /\ again' = FALSE
    /\ clear' = FALSE
    /\ span' = IF clear THEN 0 ELSE span
    /\ owed' = IF clear THEN btn.lag ELSE owed
    /\ UNCHANGED <<btn, event, flowVars, idle, up>>

PinRises ==
    /\ low
    /\ low' = FALSE
    /\ up' = 0
    /\ UNCHANGED <<isr, btn, event, flowVars, idle, held, clear, span, owed, given, again>>

\* While a portal waits for the release the sampler is left alone, and what it
\* is behind is dropped by init().
Tick ==
    /\ IF waiting THEN waited < ReleaseWait ELSE idle < MaxBlock
    /\ ~waiting => btn.lag < MaxLag
    /\ waited' = IF waiting THEN waited + 1 ELSE 0
    /\ idle' = IF waiting THEN idle ELSE idle + 1
    /\ btn' = IF btn.sampling /\ ~waiting THEN [btn EXCEPT !.lag = @ + 1] ELSE btn
    /\ held' = IF low THEN Capped(held + 1, SureHold) ELSE held
    /\ up'   = IF low THEN up ELSE Capped(up + 1, DebounceTicks)
    /\ span' = Capped(span + 1, LongTicks)
    /\ UNCHANGED <<pinVars, event, place, waiting, initial, clear, owed, given, again>>

(***************************************************************************)
(* update()                                                                *)
(***************************************************************************)
\* Faulty: lastSampleMs_ stays where it was after the last press.
WokenStale == IF ~btn.sampling /\ (isr \/ low) THEN [Fresh EXCEPT !.lag = LongTicks] ELSE btn

\* The pin or the interrupt starts the sampling.
Woken == IF ~btn.sampling /\ (isr \/ low) THEN Fresh ELSE btn

\* Faulty: a call of update() credits one tick however late it is.
StepOne(b) == 1

Step(b) == Capped(b.lag, MaxStep)

\* The button is down: LongPress, once, when the ticks are reached.
SampledLow(b) ==
    [b EXCEPT !.release = 0, !.press = Capped(@ + Step(b), LongTicks), !.lag = @ - Step(b),
              !.fired = @ \/ b.press + Step(b) >= LongTicks]

LongDue(b) == low /\ b.press + Step(b) >= LongTicks /\ ~b.fired

\* Faulty: one tick more than the debounce time.
ReleasedLate(b) == ~low /\ b.release + Step(b) > DebounceTicks

\* The button is up: a release counts after the debounce time.
Released(b) == ~low /\ b.release + Step(b) >= DebounceTicks

\* Faulty: the release of a long press counts as a short one.
ShortDueAlways(b) == Released(b) /\ b.press >= DebounceTicks

ShortDue(b) == Released(b) /\ b.press >= DebounceTicks /\ ~b.fired

Sampled(b) ==
    CASE low          -> SampledLow(b)
      [] Released(b)  -> Off
      [] OTHER        -> [b EXCEPT !.release = @ + Step(b), !.lag = @ - Step(b)]

\* A tick has passed while sampling.
TickDue(b) == b.sampling /\ b.lag > 0

\* The event of an update: nothing before a tick has passed.
Outcome(b) ==
    CASE TickDue(b) /\ LongDue(b)  -> "LongPress"
      [] TickDue(b) /\ ShortDue(b) -> "ShortPress"
      [] OTHER                     -> "None"

\* What the caller does with the event: loop(), runQuickPairing() and
\* runWiFiAPProvisioning(). A portal that starts waits for the release.
PlaceAfter(e) ==
    [to   |-> CASE e = "LongPress" /\ place = "loop" -> "ble"
                [] e = "LongPress" /\ place = "ble"  -> "ap"
                [] e = "ShortPress"                  -> "loop"
                [] OTHER                             -> place,
     wait |-> e = "LongPress" /\ place # "ap"]

Update ==
    /\ ~waiting
    /\ LET b == Woken
           e == Outcome(b)
       IN /\ event' = e
          /\ btn' = IF TickDue(b) THEN Sampled(b) ELSE b
          /\ isr' = IF ~btn.sampling \/ (b.lag > 0 /\ Released(b)) THEN FALSE ELSE isr
          /\ place' = PlaceAfter(e).to
          /\ waiting' = PlaceAfter(e).wait
          /\ given' = given \cup ({e} \ {"None"})
    /\ waited' = 0 /\ idle' = 0
    /\ initial' = (initial /\ place' # "loop")
    /\ clear' = (clear \/ (~low /\ up = DebounceTicks))
    /\ UNCHANGED <<low, held, up, span, owed, again>>

\* The portal has waited for the release, 3 s at most: init().
PortalInit ==
    /\ waiting /\ (~low \/ waited = ReleaseWait)
    /\ waiting' = FALSE /\ waited' = 0 /\ idle' = 0
    /\ btn' = IF low THEN Fresh ELSE Off
    /\ held' = 0 /\ clear' = ~low /\ again' = TRUE /\ event' = "None"
    /\ UNCHANGED <<pinVars, place, initial, up, span, owed, given>>

\* Quick Pairing's time is over: of the initial boot, SoftAP is next.
QuickPairingTimeout ==
    /\ place = "ble" /\ ~waiting
    /\ place' = IF initial THEN "ap" ELSE "loop"
    /\ waiting' = initial
    /\ event' = "None"
    /\ UNCHANGED <<pinVars, btn, waited, initial, idle, history>>

\* SoftAP's time is over.
SoftApTimeout ==
    /\ place = "ap" /\ ~waiting
    /\ place' = "loop" /\ initial' = FALSE
    /\ event' = "None"
    /\ UNCHANGED <<pinVars, btn, waiting, waited, idle, history>>

Next ==
    \/ PinFalls
    \/ PinRises
    \/ Tick
    \/ Update
    \/ PortalInit
    \/ QuickPairingTimeout
    \/ SoftApTimeout

Spec == Init /\ [][Next]_vars

(***************************************************************************)
(* Properties                                                              *)
(***************************************************************************)
\* GpioButton, doc: LongPress is fired as soon as the ticks are reached. They
\* are reached at the rate update() credits them, 4 ticks a call: a button that
\* is held for the calls this takes has had its LongPress, however it bounced
\* before and whatever portal was left.
HoldIsNoticed == ~waiting /\ low /\ held >= SureHold => btn.fired

\* LongPress takes the full time since the button fell, bounces filtered, but
\* for the backlog of a sampler that was on already, which counts as time down,
\* and the tick credited when sampling starts. A button that was up for the
\* debounce time when update() looked has no time left over from before.
LongPressNeedsHold ==
    [][event' = "LongPress" /\ Update => span + owed + 1 >= LongTicks]_vars

\* One hold gives one event at most, its release included, unless a portal
\* started meanwhile and initialised the button.
OneEventPerHold ==
    [][Update /\ event' # "None" => given = {} \/ again]_vars

(***************************************************************************)
(* The inductive invariant. A portal that waits for the release makes no   *)
(* use of the button, and initialises it afterwards.                       *)
(***************************************************************************)
\* A hold that gave its event gives no other before the pin falls again.
HoldIsSpent ==
    given # {} => \/ again \/ waiting
                  \/ btn.sampling /\ btn.fired
                  \/ ~btn.sampling /\ ~low /\ ~isr

\* The full time is an event, returned or not.
FullIsFired == btn.press = LongTicks => btn.fired

\* Nothing of the time since the last call is lost.
LagCovers == btn.sampling /\ ~waiting => btn.lag >= idle

\* The time the button is down is credited at the rate of the calls, but for
\* the first one.
HoldIsCredited ==
    low /\ ~waiting =>
        IF btn.sampling
        THEN btn.fired \/ Credit * held < MaxBlock * btn.press + Credit * idle + Credit * MaxBlock
        ELSE held <= idle

\* The time it is up is credited in full, once it was seen down.
ReleaseIsCredited ==
    btn.sampling /\ ~waiting /\ ~low /\ btn.press > 0 => up <= btn.release + idle

\* A clear release leaves nothing of an earlier hold.
ClearIsEmpty ==
    clear => ~low /\ (btn.sampling /\ ~waiting => btn.press = 0)

\* No more is credited than passed since the button fell, and was owed then.
CreditIsSpan ==
    btn.sampling /\ ~waiting /\ ~btn.fired
        => btn.press + btn.lag <= span + owed + 1 \/ span = LongTicks

CreditOK ==
    /\ FullIsFired /\ LagCovers /\ HoldIsCredited
    /\ ReleaseIsCredited /\ ClearIsEmpty /\ CreditIsSpan

IInv == TypeOK /\ HoldIsSpent /\ CreditOK
=============================================================================
