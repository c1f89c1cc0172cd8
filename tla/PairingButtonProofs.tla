------------------------ MODULE PairingButtonProofs ------------------------
(***************************************************************************)
(* What PairingButton guarantees for any thresholds, credits and waits,    *)
(* and however late update() is called: at most one event for a hold, a    *)
(* hold that is long enough is noticed, and nothing else is taken for one. *)
(***************************************************************************)
EXTENDS PairingButton, TLAPS

Btns == [sampling : BOOLEAN, press : 0 .. LongTicks, release : 0 .. DebounceTicks - 1,
         fired : BOOLEAN, lag : 0 .. MaxLag]

\* The calls it takes to credit n ticks, c at a time.
LEMMA CallsEnough ==
  ASSUME NEW n \in Nat, NEW c \in Nat \ {0}
  PROVE  /\ (n + c - 1) \div c \in Nat
         /\ c * ((n + c - 1) \div c) >= n
<1> DEFINE m == n + c - 1
           q == m \div c
<1>1. m \in Nat
  OBVIOUS
<1> HIDE DEF m
<1>2. q \in Nat /\ m = c * q + (m % c) /\ m % c \in 0 .. c - 1
  BY <1>1
<1>3. QED  BY <1>2 DEF m

\* A product grows with its factors.
LEMMA Grows ==
  ASSUME NEW a \in Nat, NEW b \in Nat, NEW c \in Nat, a <= b
  PROVE  c * a <= c * b /\ c * a \in Nat /\ c * b \in Nat
OBVIOUS

\* The bounds are naturals, and a credit is at most the time it covers.
LEMMA Thresholds ==
  /\ DebounceTicks \in Nat /\ LongTicks \in Nat /\ MaxStep \in Nat /\ MaxBlock \in Nat
  /\ ReleaseWait \in Nat /\ DebounceTicks >= 1 /\ LongTicks >= 2 /\ MaxStep >= 1 /\ MaxBlock >= 1
  /\ DebounceTicks <= MaxStep
  /\ MaxLag \in Nat /\ MaxLag >= LongTicks
  /\ Credit \in Nat /\ Credit >= 1 /\ Credit <= MaxBlock /\ Credit <= MaxStep
  /\ Credit * MaxBlock \in Nat /\ Credit * MaxBlock >= 1
<1>1. Credit \in Nat /\ Credit >= 1 /\ Credit <= MaxBlock /\ Credit <= MaxStep
  BY ButtonAssumption DEF Credit
<1>2. Credit * 1 <= Credit * MaxBlock /\ Credit * MaxBlock \in Nat
  BY <1>1, ButtonAssumption, Grows
<1>3. QED  BY <1>1, <1>2, ButtonAssumption

\* A sure hold lasts for the calls that credit it and for two more.
LEMMA SureHoldIs ==
  /\ SureHold \in Nat
  /\ Credit * SureHold >= MaxBlock * LongTicks + 2 * (Credit * MaxBlock)
  /\ SureHold >= LongTicks
<1> DEFINE q == (LongTicks + Credit - 1) \div Credit
<1>1. q \in Nat /\ Credit * q >= LongTicks
  BY Thresholds, CallsEnough
<1>2. SureHold = MaxBlock * (q + 2)
  BY DEF SureHold
<1> HIDE DEF q
<1>3. SureHold \in Nat /\ SureHold = MaxBlock * q + 2 * MaxBlock
  BY <1>1, <1>2, Thresholds
<1>4. MaxBlock * LongTicks <= MaxBlock * (Credit * q)
  BY <1>1, Thresholds, Grows
<1>5. Credit * SureHold = MaxBlock * (Credit * q) + 2 * (Credit * MaxBlock)
  BY <1>1, <1>3, Thresholds
<1>6. q * Credit <= q * MaxBlock
  BY <1>1, Thresholds, Grows
<1>7. QED  BY <1>1, <1>3, <1>4, <1>5, <1>6, Thresholds

\* What the arithmetic needs of the constants.
LEMMA Bounds ==
  /\ DebounceTicks \in Nat /\ LongTicks \in Nat /\ MaxStep \in Nat /\ MaxBlock \in Nat
  /\ ReleaseWait \in Nat /\ DebounceTicks >= 1 /\ LongTicks >= 2 /\ MaxStep >= 1 /\ MaxBlock >= 1
  /\ DebounceTicks <= MaxStep
  /\ MaxLag \in Nat /\ MaxLag >= LongTicks
  /\ SureHold \in Nat /\ SureHold >= LongTicks
BY Thresholds, SureHoldIs

\* The fields of GpioButton after init() and at the first sample.
LEMMA FreshAndOff == Fresh \in Btns /\ Off \in Btns
<1>1. 0 \in 0 .. LongTicks /\ 0 \in 0 .. DebounceTicks - 1 /\ 0 \in 0 .. MaxLag /\ 1 \in 0 .. MaxLag
  BY Bounds
<1>2. QED  BY <1>1 DEF Fresh, Off, Btns

\* The ticks a call credits: those that went by, MaxStep at most.
LEMMA StepIs ==
  ASSUME NEW b \in Btns
  PROVE  /\ Step(b) \in 0 .. b.lag /\ b.lag \in Nat
         /\ b.lag <= MaxStep => Step(b) = b.lag
         /\ b.lag > MaxStep => Step(b) = MaxStep
BY Bounds DEF Btns, Step, Capped

\* A sample of the button that is down.
LEMMA SampleDown ==
  ASSUME NEW b \in Btns, low
  PROVE  /\ Sampled(b) \in Btns
         /\ Sampled(b).sampling = b.sampling
         /\ Sampled(b).press = Capped(b.press + Step(b), LongTicks)
         /\ Sampled(b).lag = b.lag - Step(b)
         /\ Sampled(b).fired = (b.fired \/ b.press + Step(b) >= LongTicks)
<1>1. Sampled(b) = SampledLow(b)
  BY DEF Sampled, Released
<1>2. /\ Capped(b.press + Step(b), LongTicks) \in 0 .. LongTicks
      /\ 0 \in 0 .. DebounceTicks - 1
      /\ b.lag - Step(b) \in 0 .. MaxLag
  BY StepIs, Bounds DEF Btns, Capped
<1> DEFINE due == b.fired \/ b.press + Step(b) >= LongTicks
<1>3. due \in BOOLEAN
  OBVIOUS
<1>4. SampledLow(b) = [b EXCEPT !.release = 0, !.press = Capped(b.press + Step(b), LongTicks),
                                !.lag = b.lag - Step(b), !.fired = due]
  BY DEF SampledLow
<1> HIDE DEF due
<1>5. /\ SampledLow(b) \in Btns
      /\ SampledLow(b).sampling = b.sampling
      /\ SampledLow(b).press = Capped(b.press + Step(b), LongTicks)
      /\ SampledLow(b).lag = b.lag - Step(b)
      /\ SampledLow(b).fired = due
  BY <1>2, <1>3, <1>4 DEF Btns
<1>6. QED  BY <1>1, <1>5 DEF due

\* A sample of the button that is up, before the debounce time is over.
LEMMA SampleUp ==
  ASSUME NEW b \in Btns, ~low, ~Released(b)
  PROVE  /\ Sampled(b) \in Btns
         /\ Sampled(b).sampling = b.sampling
         /\ Sampled(b).press = b.press
         /\ Sampled(b).release = b.release + Step(b)
         /\ Sampled(b).fired = b.fired
         /\ Sampled(b).lag = b.lag - Step(b)
<1>1. Sampled(b) = [b EXCEPT !.release = @ + Step(b), !.lag = @ - Step(b)]
  BY DEF Sampled
<1>2. b.release + Step(b) \in 0 .. DebounceTicks - 1 /\ b.lag - Step(b) \in 0 .. MaxLag
  BY StepIs, Bounds DEF Btns, Released
<1>3. QED  BY <1>1, <1>2 DEF Btns

\* The release that counts ends the sampling.
LEMMA SampleOff ==
  ASSUME NEW b \in Btns, Released(b)
  PROVE  Sampled(b) = Off
BY DEF Sampled, Released

\* What update() starts from is a state of the button.
LEMMA WokenTyped ==
  ASSUME TypeOK
  PROVE  Woken \in Btns /\ (Woken = btn \/ (Woken = Fresh /\ ~btn.sampling))
BY FreshAndOff DEF Woken, TypeOK, Btns

(***************************************************************************)
(* Types.                                                                  *)
(***************************************************************************)
\* What a call of update() leaves is typed.
LEMMA UpdateTyped == ASSUME TypeOK, Update PROVE TypeOK'
<1>1. Woken \in Btns
  BY WokenTyped
<1>2. Sampled(Woken) \in Btns
  BY <1>1, SampleDown, SampleUp, SampleOff, FreshAndOff
<1>3. btn' \in Btns
  BY <1>1, <1>2 DEF Update
<1>4. Outcome(Woken) \in Events
  BY DEF Outcome, Events
<1>5. event' \in Events /\ given' \subseteq {"ShortPress", "LongPress"}
  BY <1>4 DEF Update, TypeOK, Events
<1>6. isr' \in BOOLEAN
  BY DEF Update, TypeOK
<1>7. place' \in {"loop", "ble", "ap"} /\ waiting' \in BOOLEAN
  BY DEF Update, TypeOK, PlaceAfter
<1>8. waited' \in 0 .. ReleaseWait /\ idle' \in 0 .. MaxBlock
  BY Bounds DEF Update
<1>10. initial' \in BOOLEAN /\ clear' \in BOOLEAN
  BY DEF Update, TypeOK
<1>9. QED  BY <1>10, <1>3, <1>5, <1>6, <1>7, <1>8 DEF Update, TypeOK, Btns

\* What the button and the clock do is typed.
LEMMA WorldTyped == ASSUME TypeOK, PinFalls \/ PinRises \/ Tick PROVE TypeOK'
<1>1. CASE PinFalls
  <2>1. held' \in 0 .. SureHold /\ span' \in 0 .. LongTicks /\ owed' \in 0 .. MaxLag
    BY <1>1, Bounds DEF PinFalls, TypeOK
  <2>2. QED  BY <1>1, <2>1 DEF PinFalls, TypeOK, flowVars
<1>2. CASE PinRises
  <2>1. up' \in 0 .. DebounceTicks
    BY <1>2, Bounds DEF PinRises
  <2>2. QED  BY <1>2, <2>1 DEF PinRises, TypeOK, flowVars
<1>3. CASE Tick
  <2>1. waited' \in 0 .. ReleaseWait /\ idle' \in 0 .. MaxBlock
    BY <1>3, Bounds DEF Tick, TypeOK
  <2>2. held' \in 0 .. SureHold /\ up' \in 0 .. DebounceTicks /\ span' \in 0 .. LongTicks
    BY <1>3, Bounds DEF Tick, TypeOK, Capped
  <2>3. ~waiting => btn.lag + 1 \in 0 .. MaxLag
    BY <1>3, Bounds DEF Tick, TypeOK
  <2>4. btn' \in Btns
    BY <1>3, <2>3 DEF Tick, TypeOK, Btns
  <2>5. QED  BY <1>3, <2>1, <2>2, <2>4 DEF Tick, TypeOK, Btns, pinVars
<1>4. QED  BY <1>1, <1>2, <1>3

\* What the portals do is typed.
LEMMA PortalTyped ==
  ASSUME TypeOK, PortalInit \/ QuickPairingTimeout \/ SoftApTimeout PROVE TypeOK'
<1>1. CASE PortalInit
  <2>1. btn' \in Btns
    BY <1>1, FreshAndOff DEF PortalInit
  <2>2. waited' \in 0 .. ReleaseWait /\ idle' \in 0 .. MaxBlock /\ held' \in 0 .. SureHold
    BY <1>1, Bounds DEF PortalInit
  <2>3. event' \in Events /\ waiting' \in BOOLEAN /\ again' \in BOOLEAN /\ clear' \in BOOLEAN
    BY <1>1 DEF PortalInit, TypeOK, Events
  <2>4. QED  BY <1>1, <2>1, <2>2, <2>3 DEF PortalInit, TypeOK, Btns, pinVars
<1>2. CASE QuickPairingTimeout
  BY <1>2 DEF QuickPairingTimeout, TypeOK, pinVars, history, Events
<1>3. CASE SoftApTimeout
  BY <1>3 DEF SoftApTimeout, TypeOK, pinVars, history, Events
<1>4. QED  BY <1>1, <1>2, <1>3

\* The initial state is typed.
LEMMA InitTyped == Init => TypeOK
<1> SUFFICES ASSUME Init PROVE TypeOK
  OBVIOUS
<1>1. btn \in Btns
  BY FreshAndOff DEF Init
<1>2. waited \in 0 .. ReleaseWait /\ idle \in 0 .. MaxBlock
  BY Bounds DEF Init
<1>3. /\ held \in 0 .. SureHold /\ up \in 0 .. DebounceTicks /\ span \in 0 .. LongTicks
      /\ owed \in 0 .. MaxLag
  BY Bounds DEF Init
<1>4. low \in BOOLEAN /\ clear \in BOOLEAN /\ waiting \in BOOLEAN /\ place \in {"loop", "ble", "ap"}
  BY DEF Init
<1>5. QED  BY <1>1, <1>2, <1>3, <1>4 DEF Init, TypeOK, Btns, Events

\* Every step is typed.
LEMMA StepTyped == TypeOK /\ [Next]_vars => TypeOK'
<1> SUFFICES ASSUME TypeOK, [Next]_vars PROVE TypeOK'
  OBVIOUS
<1>1. CASE UNCHANGED vars
  BY <1>1 DEF vars, pinVars, flowVars, history, TypeOK, Events
<1>2. CASE Next
  BY <1>2, UpdateTyped, WorldTyped, PortalTyped, Zenon DEF Next
<1>3. QED  BY <1>1, <1>2

(***************************************************************************)
(* A call of update().                                                     *)
(***************************************************************************)
\* No tick has passed; the button is down; its release counts; or it is up
\* and may be bouncing.
LEMMA UpdateCases ==
  ASSUME Update
  PROVE  \/ /\ ~TickDue(Woken)
            /\ btn' = Woken /\ event' = "None"
         \/ /\ TickDue(Woken) /\ low
            /\ btn' = Sampled(Woken)
            /\ event' = IF LongDue(Woken) THEN "LongPress" ELSE "None"
         \/ /\ TickDue(Woken) /\ Released(Woken) /\ ~low
            /\ btn' = Off /\ isr' = FALSE
            /\ event' = IF ShortDue(Woken) THEN "ShortPress" ELSE "None"
         \/ /\ TickDue(Woken) /\ ~low /\ ~Released(Woken)
            /\ btn' = Sampled(Woken) /\ event' = "None"
<1>1. CASE ~TickDue(Woken)
  BY <1>1 DEF Update, Outcome
<1>2. CASE TickDue(Woken) /\ low
  <2>1. ~ShortDue(Woken)
    BY <1>2 DEF ShortDue, Released
  <2>2. QED  BY <1>2, <2>1 DEF Update, Outcome
<1>3. CASE TickDue(Woken) /\ ~low
  <2>1. ~LongDue(Woken)
    BY <1>3 DEF LongDue
  <2>2. event' = IF ShortDue(Woken) THEN "ShortPress" ELSE "None"
    BY <1>3, <2>1 DEF Update, Outcome
  <2>3. CASE Released(Woken)
    <3>1. Sampled(Woken) = Off
      BY <1>3, <2>3 DEF Sampled
    <3>2. btn' = Off /\ isr' = FALSE
      BY <1>3, <2>3, <3>1 DEF Update, TickDue
    <3>3. QED  BY <1>3, <2>2, <2>3, <3>2
  <2>4. CASE ~Released(Woken)
    <3>1. ~ShortDue(Woken)
      BY <2>4 DEF ShortDue
    <3>2. btn' = Sampled(Woken)
      BY <1>3 DEF Update
    <3>3. QED  BY <1>3, <2>2, <2>4, <3>1, <3>2
  <2>5. QED  BY <2>3, <2>4
<1>4. QED  BY <1>1, <1>2, <1>3

(***************************************************************************)
(* One event for a hold.                                                   *)
(***************************************************************************)
\* A button that is spent starts no sampling: it samples already, or neither
\* the pin nor the interrupt calls for it.
LEMMA SpentIsNotWoken ==
  ASSUME HoldIsSpent, given # {}, ~again, ~waiting
  PROVE  /\ Woken = btn
         /\ (btn.sampling /\ btn.fired) \/ (~btn.sampling /\ ~low /\ ~isr)
BY DEF HoldIsSpent, Woken

\* A call that returns an event finds a button that is not spent.
LEMMA EventNeedsHold ==
  ASSUME HoldIsSpent, Update, event' # "None"
  PROVE  given = {} \/ again
<1> SUFFICES ASSUME given # {}, ~again PROVE FALSE
  OBVIOUS
<1>1. ~waiting
  BY DEF Update
<1>2. TickDue(Woken) /\ (LongDue(Woken) \/ ShortDue(Woken))
  BY UpdateCases
<1>3. Woken.sampling /\ ~Woken.fired
  BY <1>2 DEF TickDue, LongDue, ShortDue
<1>4. QED  BY <1>1, <1>3, SpentIsNotWoken

\* A call of update() leaves a hold spent when it returns its event, and
\* leaves it spent after that.
LEMMA UpdateSpends == ASSUME TypeOK, HoldIsSpent, Update PROVE HoldIsSpent'
<1> SUFFICES ASSUME given' # {}, ~again PROVE HoldIsSpent'
  BY DEF HoldIsSpent, Update
<1>0. ~waiting /\ low' = low
  BY DEF Update
<1>1. Woken \in Btns
  BY WokenTyped
<1>2. given # {} => Woken = btn /\ ((btn.sampling /\ btn.fired) \/ (~btn.sampling /\ ~low /\ ~isr))
  BY <1>0, SpentIsNotWoken
<1>3. event' = "None" => given # {}
  BY DEF Update
<1>4. CASE ~TickDue(Woken) /\ btn' = Woken /\ event' = "None"
  <2>1. CASE btn.sampling /\ btn.fired
    BY <1>2, <1>3, <1>4, <2>1 DEF HoldIsSpent
  <2>2. CASE ~btn.sampling /\ ~low /\ ~isr
    <3>1. isr' = FALSE
      BY <2>2 DEF Update
    <3>2. QED  BY <1>0, <1>2, <1>3, <1>4, <2>2, <3>1 DEF HoldIsSpent
  <2>3. QED  BY <1>2, <1>3, <1>4, <2>1, <2>2
<1>5. CASE /\ TickDue(Woken) /\ low /\ btn' = Sampled(Woken)
           /\ event' = IF LongDue(Woken) THEN "LongPress" ELSE "None"
  <2>1. btn'.sampling
    BY <1>1, <1>5, SampleDown DEF TickDue
  <2>2. Woken.fired \/ Woken.press + Step(Woken) >= LongTicks
    <3>1. CASE LongDue(Woken)
      BY <3>1 DEF LongDue
    <3>2. CASE ~LongDue(Woken)
      BY <1>2, <1>3, <1>5, <3>2
    <3>3. QED  BY <3>1, <3>2
  <2>3. btn'.fired
    BY <1>1, <1>5, <2>2, SampleDown
  <2>4. QED  BY <2>1, <2>3 DEF HoldIsSpent
<1>6. CASE TickDue(Woken) /\ Released(Woken) /\ ~low /\ btn' = Off /\ isr' = FALSE
  BY <1>0, <1>6 DEF HoldIsSpent, Off
<1>7. CASE TickDue(Woken) /\ ~low /\ ~Released(Woken) /\ btn' = Sampled(Woken) /\ event' = "None"
  <2>1. Woken = btn /\ btn.sampling /\ btn.fired
    BY <1>2, <1>3, <1>7 DEF TickDue
  <2>2. btn'.sampling /\ btn'.fired
    BY <1>1, <1>7, <2>1, SampleUp
  <2>3. QED  BY <2>2 DEF HoldIsSpent
<1>8. QED  BY <1>4, <1>5, <1>6, <1>7, UpdateCases

\* Nothing else makes a spent hold good for an event but a new fall of the pin.
LEMMA SpentStep == TypeOK /\ HoldIsSpent /\ [Next]_vars => HoldIsSpent'
<1> SUFFICES ASSUME TypeOK, HoldIsSpent, [Next]_vars PROVE HoldIsSpent'
  OBVIOUS
<1>1. CASE PinFalls \/ PinRises
  BY <1>1 DEF HoldIsSpent, PinFalls, PinRises, flowVars
<1>2. CASE Tick
  <2>1. btn'.sampling = btn.sampling /\ btn'.fired = btn.fired
    BY <1>2 DEF Tick, TypeOK
  <2>2. QED  BY <1>2, <2>1 DEF HoldIsSpent, Tick, pinVars
<1>3. CASE PortalInit
  BY <1>3 DEF HoldIsSpent, PortalInit
<1>4. CASE QuickPairingTimeout \/ SoftApTimeout
  BY <1>4 DEF HoldIsSpent, QuickPairingTimeout, SoftApTimeout, pinVars, history
<1>5. CASE UNCHANGED vars
  BY <1>5 DEF HoldIsSpent, vars, pinVars, flowVars, history
<1>6. QED  BY <1>1, <1>2, <1>3, <1>4, <1>5, UpdateSpends DEF Next

(***************************************************************************)
(* The credit of the calls.                                                *)
(***************************************************************************)
\* What is typed, for the arithmetic.
LEMMA Counters ==
  ASSUME TypeOK
  PROVE  /\ btn \in Btns /\ btn.press \in 0 .. LongTicks /\ btn.lag \in 0 .. MaxLag
         /\ btn.release \in Nat /\ btn.release < DebounceTicks
         /\ idle \in 0 .. MaxBlock
         /\ held \in 0 .. SureHold /\ up \in 0 .. DebounceTicks /\ span \in 0 .. LongTicks
         /\ owed \in 0 .. MaxLag
BY Bounds DEF TypeOK, Btns

\* A call credits at least its share of the ticks since the one before.
LEMMA ShareIsCredited ==
  ASSUME NEW step \in Nat, NEW gap \in 0 .. MaxBlock, step >= gap \/ step = MaxStep
  PROVE  Credit * gap <= MaxBlock * step
<1>1. CASE step >= gap
  <2>1. gap * Credit <= gap * MaxBlock
    BY Thresholds, Grows
  <2>2. MaxBlock * gap <= MaxBlock * step
    BY <1>1, Thresholds, Grows
  <2>3. QED  BY <2>1, <2>2, Thresholds
<1>2. CASE step = MaxStep
  <2>1. Credit * gap <= Credit * MaxBlock
    BY Thresholds, Grows
  <2>2. MaxBlock * Credit <= MaxBlock * step
    BY <1>2, Thresholds, Grows
  <2>3. QED  BY <2>1, <2>2, Thresholds
<1>3. QED  BY <1>1, <1>2

\* What update() samples, in terms of the ticks it is about to credit.
LEMMA WokenCredit ==
  ASSUME TypeOK, CreditOK, ~waiting, NEW b, b = Woken, b.sampling
  PROVE  /\ low => \/ b.fired
                   \/ Credit * held < MaxBlock * (b.press + Step(b)) + Credit * MaxBlock
         /\ ~low /\ b.press > 0 /\ Step(b) = b.lag => up <= b.release + Step(b)
         /\ ~b.fired => b.press + b.lag <= span + owed + 1 \/ span = LongTicks
<1>1. b \in Btns /\ (b = btn \/ (b = Fresh /\ ~btn.sampling))
  BY WokenTyped
<1>2. /\ idle \in 0 .. MaxBlock /\ idle \in Nat /\ held \in Nat /\ up \in Nat /\ span \in Nat
      /\ owed \in Nat
  BY Counters, Bounds
<1>3. /\ b.press \in Nat /\ b.release \in Nat /\ b.lag \in Nat
      /\ Step(b) \in 0 .. b.lag /\ Step(b) \in Nat
      /\ b.lag <= MaxStep => Step(b) = b.lag
      /\ b.lag > MaxStep => Step(b) = MaxStep
  BY <1>1, StepIs, Bounds DEF Btns
<1>4. CASE b = btn
  <2>1. b.lag >= idle
    BY <1>4 DEF CreditOK, LagCovers
  <2>2. Step(b) >= idle \/ Step(b) = MaxStep
    BY <1>2, <1>3, <2>1, Bounds
  <2>3. Credit * idle <= MaxBlock * Step(b)
    BY <1>2, <1>3, <2>2, ShareIsCredited
  <2>4. MaxBlock * (b.press + Step(b)) = MaxBlock * b.press + MaxBlock * Step(b)
    BY <1>3, Bounds
  <2>5. /\ Credit * held \in Nat /\ Credit * idle \in Nat /\ Credit * MaxBlock \in Nat
        /\ MaxBlock * b.press \in Nat /\ MaxBlock * Step(b) \in Nat
    BY <1>2, <1>3, Thresholds, Grows
  <2>6. low => \/ b.fired
               \/ Credit * held < MaxBlock * b.press + Credit * idle + Credit * MaxBlock
    BY <1>4 DEF CreditOK, HoldIsCredited
  <2>7. low => \/ b.fired
               \/ Credit * held < MaxBlock * (b.press + Step(b)) + Credit * MaxBlock
    BY <2>3, <2>4, <2>5, <2>6
  <2>8. ~low /\ b.press > 0 => up <= b.release + idle
    BY <1>4 DEF CreditOK, ReleaseIsCredited
  <2>9. ~b.fired => b.press + b.lag <= span + owed + 1 \/ span = LongTicks
    BY <1>4 DEF CreditOK, CreditIsSpan
  <2>10. QED  BY <1>2, <1>3, <2>1, <2>7, <2>8, <2>9, Bounds
<1>5. CASE b = Fresh /\ ~btn.sampling
  <2>1. b.lag = 1 /\ b.press = 0
    BY <1>5 DEF Fresh
  <2>2. Step(b) = 1
    BY <1>3, <2>1, Bounds
  <2>3. low => held <= MaxBlock
    BY <1>2, <1>5, Bounds DEF CreditOK, HoldIsCredited
  <2>4. low => Credit * held <= Credit * MaxBlock
    BY <1>2, <2>3, Thresholds, Grows
  <2>5. Credit * held \in Nat /\ Credit * MaxBlock \in Nat /\ MaxBlock * (0 + 1) = MaxBlock
    BY <1>2, Thresholds, Grows
  <2>6. QED  BY <1>2, <1>3, <2>1, <2>2, <2>4, <2>5, Bounds
<1>6. QED  BY <1>1, <1>4, <1>5

\* A call that finds the button up for the debounce time leaves nothing of the
\* hold before: the sampler ends, or has seen nothing yet.
LEMMA UpdateClears == ASSUME TypeOK, CreditOK, Update PROVE ClearIsEmpty'
<1> DEFINE b == Woken
<1>0. /\ ~waiting /\ idle' = 0 /\ low' = low
      /\ clear' = (clear \/ (~low /\ up = DebounceTicks))
      /\ LagCovers /\ ReleaseIsCredited /\ ClearIsEmpty
  BY DEF Update, CreditOK
<1>1. /\ b \in Btns /\ (b = btn \/ (b = Fresh /\ ~btn.sampling))
      /\ idle \in Nat /\ up \in Nat
  BY WokenTyped, Counters, Bounds
<1>2. /\ b.press \in Nat /\ b.release \in Nat /\ b.lag \in Nat
      /\ Step(b) \in 0 .. b.lag
      /\ b.lag <= MaxStep => Step(b) = b.lag
      /\ b.lag > MaxStep => Step(b) = MaxStep
  BY <1>1, StepIs, Bounds DEF Btns
<1> SUFFICES ASSUME clear' PROVE ~low /\ (btn'.sampling => btn'.press = 0)
  BY <1>0 DEF ClearIsEmpty
<1>3. ~low
  BY <1>0 DEF ClearIsEmpty
<1>4. ASSUME b.sampling, b.press # 0
      PROVE  Released(b) /\ TickDue(b)
  <2>1. b = btn
    BY <1>1, <1>4 DEF Fresh
  <2>2. btn.press > 0
    BY <1>2, <1>4, <2>1
  <2>3. ~clear
    BY <1>0, <1>4, <2>1 DEF ClearIsEmpty
  <2>4. up <= b.release + idle /\ b.lag >= idle
    BY <1>0, <1>3, <1>4, <2>1, <2>2 DEF ReleaseIsCredited, LagCovers
  <2>5. up = DebounceTicks
    BY <1>0, <2>3
  <2>6. b.release < DebounceTicks
    BY <2>1, Counters
  <2>7. QED
    BY <1>1, <1>2, <1>3, <1>4, <2>4, <2>5, <2>6, Bounds DEF Released, TickDue
<1>5. CASE ~TickDue(b) /\ btn' = b
  BY <1>3, <1>4, <1>5
<1>6. CASE btn' = Off
  BY <1>3, <1>6 DEF Off
<1>7. CASE TickDue(b) /\ ~Released(b) /\ btn' = Sampled(b)
  <2>1. btn'.press = b.press /\ b.sampling
    BY <1>1, <1>3, <1>7, SampleUp DEF TickDue
  <2>2. QED  BY <1>3, <1>4, <1>7, <2>1
<1>8. QED  BY <1>3, <1>5, <1>6, <1>7, UpdateCases

\* A call of update() credits what it covers.
LEMMA UpdateCredits == ASSUME TypeOK, CreditOK, Update PROVE CreditOK'
<1> DEFINE b == Woken
<1>0. /\ ~waiting /\ idle' = 0
      /\ low' = low /\ held' = held /\ up' = up /\ span' = span /\ owed' = owed
      /\ clear' = (clear \/ (~low /\ up = DebounceTicks))
  BY DEF Update
<1>1. /\ b \in Btns /\ held \in Nat /\ up \in Nat /\ span \in Nat
      /\ idle \in 0 .. MaxBlock /\ owed \in Nat
  BY WokenTyped, Counters, Bounds
<1>2. /\ b.press \in 0 .. LongTicks /\ b.release \in Nat /\ b.lag \in Nat
      /\ Step(b) \in 0 .. b.lag
      /\ b.lag <= MaxStep => Step(b) = b.lag
      /\ b.lag > MaxStep => Step(b) = MaxStep
  BY <1>1, StepIs, Bounds DEF Btns
<1>3. (low => b.sampling) /\ (b.press = LongTicks => b.fired)
  BY Bounds DEF Woken, Fresh, CreditOK, FullIsFired
<1>c. ClearIsEmpty'
  BY UpdateClears
<1>4. CASE ~b.sampling
  <2>1. btn' = b /\ ~low
    BY <1>3, <1>4, UpdateCases DEF TickDue
  <2>2. QED
    BY <1>0, <1>3, <1>c, <1>4, <2>1
       DEF CreditOK, FullIsFired, LagCovers, HoldIsCredited, ReleaseIsCredited, CreditIsSpan
<1>5. ASSUME b.sampling
      PROVE  /\ low => \/ b.fired
                       \/ Credit * held < MaxBlock * (b.press + Step(b)) + Credit * MaxBlock
             /\ ~low /\ b.press > 0 /\ Step(b) = b.lag => up <= b.release + Step(b)
             /\ ~b.fired => b.press + b.lag <= span + owed + 1 \/ span = LongTicks
  BY <1>0, <1>5, WokenCredit
<1>6. CASE b.sampling /\ ~TickDue(b) /\ btn' = b
  <2>1. b.lag = 0
    BY <1>2, <1>6, Bounds DEF TickDue
  <2>2. b = btn
    BY <2>1, WokenTyped DEF Fresh
  <2>3. idle = 0
    BY <1>0, <1>1, <1>6, <2>1, <2>2, Bounds DEF CreditOK, LagCovers
  <2>4. btn' = btn /\ idle' = idle
    BY <1>0, <1>6, <2>2, <2>3
  <2>5. QED
    BY <1>0, <1>c, <2>4
       DEF CreditOK, FullIsFired, LagCovers, HoldIsCredited, ReleaseIsCredited, CreditIsSpan
<1>7. CASE b.sampling /\ low /\ btn' = Sampled(b)
  <2>1. /\ btn'.press = Capped(b.press + Step(b), LongTicks)
        /\ btn'.lag = b.lag - Step(b)
        /\ btn'.sampling
        /\ btn'.fired = (b.fired \/ b.press + Step(b) >= LongTicks)
    BY <1>1, <1>7, SampleDown
  <2>2. LagCovers' /\ ReleaseIsCredited'
    BY <1>0, <1>2, <1>7, <2>1 DEF LagCovers, ReleaseIsCredited
  <2>3. CASE b.fired \/ b.press + Step(b) >= LongTicks
    <3>1. btn'.fired
      BY <2>1, <2>3
    <3>2. QED
      BY <1>0, <1>c, <2>1, <2>2, <3>1 DEF CreditOK, FullIsFired, HoldIsCredited, CreditIsSpan
  <2>4. CASE ~b.fired /\ b.press + Step(b) < LongTicks
    <3>1. ~(b.press + Step(b) > LongTicks) /\ b.press + Step(b) # LongTicks
      BY <1>2, <2>4, Bounds
    <3>2. btn'.press = b.press + Step(b)
      BY <2>1, <3>1 DEF Capped
    <3>3. FullIsFired'
      BY <3>1, <3>2 DEF FullIsFired
    <3>4. Credit * held < MaxBlock * btn'.press + Credit * 0 + Credit * MaxBlock
      <4>1. Credit * held < MaxBlock * (b.press + Step(b)) + Credit * MaxBlock
        BY <1>5, <1>7, <2>4
      <4>2. Credit * 0 = 0 /\ MaxBlock * (b.press + Step(b)) \in Nat /\ Credit * MaxBlock \in Nat
        BY <1>2, Thresholds, Grows
      <4>3. QED  BY <3>2, <4>1, <4>2
    <3>5. HoldIsCredited'
      BY <1>0, <2>1, <3>4 DEF HoldIsCredited
    <3>6. btn'.press + btn'.lag = b.press + b.lag
      BY <1>2, <2>1, <3>2
    <3>7. CreditIsSpan'
      BY <1>0, <1>5, <1>7, <2>4, <3>6 DEF CreditIsSpan
    <3>8. QED  BY <1>c, <2>2, <3>3, <3>5, <3>7 DEF CreditOK
  <2>5. QED  BY <1>2, <2>3, <2>4, Bounds
<1>8. CASE ~low /\ btn' = Off
  BY <1>0, <1>c, <1>8, Bounds
     DEF Off, CreditOK, FullIsFired, LagCovers, HoldIsCredited, ReleaseIsCredited, CreditIsSpan
<1>9. CASE b.sampling /\ ~low /\ ~Released(b) /\ btn' = Sampled(b)
  <2>1. /\ btn'.press = b.press /\ btn'.release = b.release + Step(b)
        /\ btn'.lag = b.lag - Step(b) /\ btn'.sampling /\ btn'.fired = b.fired
    BY <1>1, <1>9, SampleUp
  <2>2. Step(b) < DebounceTicks
    BY <1>2, <1>9, Bounds DEF Released
  <2>3. Step(b) = b.lag /\ btn'.lag = 0
    BY <1>2, <2>1, <2>2, Bounds
  <2>4. LagCovers' /\ FullIsFired' /\ HoldIsCredited'
    BY <1>0, <1>3, <1>9, <2>1, <2>3 DEF LagCovers, FullIsFired, HoldIsCredited
  <2>5. ReleaseIsCredited'
    BY <1>0, <1>1, <1>2, <1>5, <1>9, <2>1, <2>3 DEF ReleaseIsCredited
  <2>6. CreditIsSpan'
    BY <1>0, <1>1, <1>2, <1>5, <1>9, <2>1, <2>3, Bounds DEF CreditIsSpan
  <2>7. QED  BY <1>c, <2>4, <2>5, <2>6 DEF CreditOK
<1>10. QED
  BY <1>4, <1>6, <1>7, <1>8, <1>9, UpdateCases DEF TickDue

\* A fall after a clear release finds no credit of an earlier hold: what the
\* sampler is behind is owed from now on.
LEMMA FallCredits == ASSUME TypeOK, CreditOK, PinFalls PROVE CreditOK'
<1> USE DEF PinFalls, flowVars
<1>0. FullIsFired /\ LagCovers /\ ClearIsEmpty /\ CreditIsSpan
  BY DEF CreditOK
<1>1. FullIsFired' /\ LagCovers' /\ ReleaseIsCredited' /\ ClearIsEmpty'
  BY <1>0 DEF FullIsFired, LagCovers, ReleaseIsCredited, ClearIsEmpty
<1>2. HoldIsCredited'
  <2>1. btn.press \in Nat /\ idle \in Nat
    BY Counters, Bounds
  <2>2. /\ MaxBlock * btn.press \in Nat /\ Credit * idle \in Nat /\ Credit * 0 = 0
        /\ Credit * MaxBlock \in Nat /\ Credit * MaxBlock >= 1
    BY <2>1, Thresholds, Grows
  <2>3. Credit * 0 < MaxBlock * btn.press + Credit * idle + Credit * MaxBlock
    BY <2>2
  <2>4. QED  BY <2>1, <2>3 DEF HoldIsCredited
<1>3. CreditIsSpan'
  <2> SUFFICES ASSUME btn.sampling, ~waiting, ~btn.fired
               PROVE  btn.press + btn.lag <= span' + owed' + 1 \/ span' = LongTicks
    BY DEF CreditIsSpan
  <2>1. CASE clear
    BY <1>0, <2>1, Counters, Bounds DEF ClearIsEmpty
  <2>2. CASE ~clear
    BY <1>0, <2>2 DEF CreditIsSpan
  <2>3. QED  BY <2>1, <2>2
<1>4. QED  BY <1>1, <1>2, <1>3 DEF CreditOK

\* A button that rises is up for no time yet.
LEMMA RiseCredits == ASSUME TypeOK, CreditOK, PinRises PROVE CreditOK'
<1> USE DEF PinRises, flowVars, CreditOK
<1>1. FullIsFired' /\ LagCovers' /\ HoldIsCredited' /\ ClearIsEmpty' /\ CreditIsSpan'
  BY DEF FullIsFired, LagCovers, HoldIsCredited, ClearIsEmpty, CreditIsSpan
<1>2. ReleaseIsCredited'
  BY Counters, Bounds DEF ReleaseIsCredited
<1>3. QED  BY <1>1, <1>2

\* A tick is one more tick to be credited, and one more of what it is
\* compared with; the caps lie beyond what is asked for.
LEMMA TickCredits == ASSUME TypeOK, CreditOK, Tick PROVE CreditOK'
<1>0. /\ FullIsFired /\ LagCovers /\ HoldIsCredited
      /\ ReleaseIsCredited /\ ClearIsEmpty /\ CreditIsSpan
  BY DEF CreditOK
<1>1. /\ low' = low /\ waiting' = waiting /\ clear' = clear /\ owed' = owed
      /\ span' = Capped(span + 1, LongTicks)
      /\ held' = IF low THEN Capped(held + 1, SureHold) ELSE held
      /\ up' = IF low THEN up ELSE Capped(up + 1, DebounceTicks)
      /\ ~waiting => idle < MaxBlock /\ idle' = idle + 1
  BY DEF Tick, pinVars
<1>2. /\ btn'.sampling = btn.sampling /\ btn'.press = btn.press /\ btn'.release = btn.release
      /\ btn'.fired = btn.fired
      /\ btn.sampling /\ ~waiting => btn'.lag = btn.lag + 1
  BY Counters DEF Tick, Btns
<1>3. ~waiting /\ btn.sampling => btn'.lag >= idle' /\ btn'.lag \in Nat
  BY <1>0, <1>1, <1>2, Counters, Bounds DEF LagCovers
<1>4. FullIsFired' /\ LagCovers' /\ ClearIsEmpty'
  BY <1>0, <1>1, <1>2, <1>3 DEF FullIsFired, LagCovers, ClearIsEmpty
<1>5. HoldIsCredited'
  <2> SUFFICES ASSUME low, ~waiting
               PROVE  IF btn.sampling
                      THEN \/ btn.fired
                           \/ Credit * held' < MaxBlock * btn.press + Credit * idle' + Credit * MaxBlock
                      ELSE held' <= idle'
    BY <1>1, <1>2 DEF HoldIsCredited
  <2>1. held' <= held + 1 /\ held' \in Nat /\ held \in Nat /\ btn.press \in Nat /\ idle \in Nat
    BY <1>1, Counters, Bounds DEF Capped
  <2>2. idle' = idle + 1
    BY <1>1
  <2>3. CASE btn.sampling /\ ~btn.fired
    <3>0. held + 1 \in Nat /\ Credit \in Nat /\ MaxBlock \in Nat
      BY <2>1, Thresholds
    <3>1. Credit * held < MaxBlock * btn.press + Credit * idle + Credit * MaxBlock
      BY <1>0, <2>3, Zenon DEF HoldIsCredited
    <3>2. Credit * held' <= Credit * (held + 1)
      BY <2>1, <3>0, Grows
    <3>3. /\ Credit * (held + 1) = Credit * held + Credit
          /\ Credit * (idle + 1) = Credit * idle + Credit
      BY <2>1, Thresholds
    <3>4. /\ Credit * held \in Nat /\ Credit * held' \in Nat /\ Credit * idle \in Nat
          /\ MaxBlock * btn.press \in Nat /\ Credit * MaxBlock \in Nat /\ Credit \in Nat
      <4>1. \A x \in Nat, y \in Nat : x * y \in Nat
        OBVIOUS
      <4>2. QED  BY <2>1, <3>0, <4>1
    <3>5. Credit * held' < MaxBlock * btn.press + Credit * idle' + Credit * MaxBlock
      BY <2>2, <3>1, <3>2, <3>3, <3>4
    <3>6. QED  BY <2>3, <3>5
  <2>4. CASE ~btn.sampling
    <3>1. held <= idle
      BY <1>0, <2>4 DEF HoldIsCredited
    <3>2. QED  BY <2>1, <2>2, <2>4, <3>1
  <2>5. QED  BY <2>3, <2>4
<1>6. ReleaseIsCredited'
  <2> SUFFICES ASSUME btn.sampling, ~waiting, ~low, btn.press > 0
               PROVE  up' <= btn.release + idle'
    BY <1>1, <1>2 DEF ReleaseIsCredited
  <2>1. up <= btn.release + idle
    BY <1>0 DEF ReleaseIsCredited
  <2>2. QED  BY <1>1, <2>1, Counters, Bounds DEF Capped
<1>7. CreditIsSpan'
  <2> SUFFICES ASSUME btn.sampling, ~waiting, ~btn.fired
               PROVE  btn.press + btn'.lag <= span' + owed + 1 \/ span' = LongTicks
    BY <1>1, <1>2 DEF CreditIsSpan
  <2>1. btn.press + btn.lag <= span + owed + 1 \/ span = LongTicks
    BY <1>0 DEF CreditIsSpan
  <2>2. span' = span + 1 \/ span' = LongTicks
    BY <1>1 DEF Capped
  <2>3. span = LongTicks => span' = LongTicks
    BY <1>1, Bounds DEF Capped
  <2>4. QED  BY <1>2, <2>1, <2>2, <2>3, Counters, Bounds
<1>8. QED  BY <1>4, <1>5, <1>6, <1>7 DEF CreditOK

\* init() starts the credit anew, at the same time as the hold it measures.
LEMMA PortalCredits ==
  ASSUME TypeOK, CreditOK, PortalInit \/ QuickPairingTimeout \/ SoftApTimeout
  PROVE  CreditOK'
<1>1. CASE PortalInit
  <2>1. /\ idle' = 0 /\ held' = 0 /\ span' = span /\ owed' = owed /\ low' = low
        /\ clear' = ~low /\ btn' = IF low THEN Fresh ELSE Off
    BY <1>1 DEF PortalInit, pinVars
  <2>2. Credit * 0 < MaxBlock * 0 + Credit * 0 + Credit * MaxBlock
    BY Thresholds
  <2>3. CASE low
    <3>1. /\ btn'.press = 0 /\ btn'.lag = 1 /\ ~btn'.fired /\ btn'.sampling
          /\ low' /\ ~clear'
      BY <2>1, <2>3 DEF Fresh
    <3>2. HoldIsCredited'
      BY <2>1, <2>2, <3>1 DEF HoldIsCredited
    <3>3. FullIsFired' /\ LagCovers' /\ ReleaseIsCredited' /\ ClearIsEmpty'
      BY <2>1, <3>1, Bounds DEF FullIsFired, LagCovers, ReleaseIsCredited, ClearIsEmpty
    <3>4. CreditIsSpan'
      BY <2>1, <3>1, Counters, Bounds DEF CreditIsSpan
    <3>5. QED  BY <3>2, <3>3, <3>4 DEF CreditOK
  <2>4. CASE ~low
    BY <2>1, <2>4, Counters, Bounds
       DEF CreditOK, FullIsFired, LagCovers, HoldIsCredited, ReleaseIsCredited, ClearIsEmpty,
           CreditIsSpan, Off
  <2>5. QED  BY <2>3, <2>4
<1>2. CASE QuickPairingTimeout \/ SoftApTimeout
  BY <1>2 DEF QuickPairingTimeout, SoftApTimeout, pinVars, history, CreditOK, FullIsFired,
              LagCovers, HoldIsCredited, ReleaseIsCredited, ClearIsEmpty, CreditIsSpan
<1>3. QED  BY <1>1, <1>2

\* The initial states satisfy the invariant.
LEMMA InitEstablishes == Init => IInv
<1> SUFFICES ASSUME Init PROVE IInv
  OBVIOUS
<1>1. TypeOK
  BY InitTyped
<1>2. HoldIsSpent
  BY DEF Init, HoldIsSpent
<1>3. CreditOK
  <2>1. low => waiting
    BY DEF Init
  <2>2. btn = Off \/ waiting
    BY <2>1 DEF Init
  <2>3. FullIsFired
    BY Bounds DEF Init, Off, Fresh, FullIsFired
  <2>4. QED
    BY <2>1, <2>2, <2>3, Bounds
       DEF Init, Off, CreditOK, LagCovers, HoldIsCredited, ReleaseIsCredited, ClearIsEmpty,
           CreditIsSpan
<1>4. QED  BY <1>1, <1>2, <1>3 DEF IInv

\* Every step keeps the credit.
LEMMA CreditStep == TypeOK /\ CreditOK /\ [Next]_vars => CreditOK'
<1> SUFFICES ASSUME TypeOK, CreditOK, [Next]_vars PROVE CreditOK'
  OBVIOUS
<1>1. CASE UNCHANGED vars
  BY <1>1 DEF vars, pinVars, flowVars, history, CreditOK, FullIsFired, LagCovers,
              HoldIsCredited, ReleaseIsCredited, ClearIsEmpty, CreditIsSpan
<1>2. CASE Next
  BY <1>2, UpdateCredits, FallCredits, RiseCredits, TickCredits, PortalCredits, Zenon DEF Next
<1>3. QED  BY <1>1, <1>2

(***************************************************************************)
(* The theorems.                                                           *)
(***************************************************************************)
\* The types of GpioButton's fields and of the workflow around it, the holds
\* that gave their event, and what the calls of update() credit.
THEOREM Safety == Spec => []IInv
<1>1. Init => IInv
  BY InitEstablishes
<1>2. IInv /\ [Next]_vars => IInv'
  BY StepTyped, SpentStep, CreditStep DEF IInv
<1>3. QED  BY <1>1, <1>2, PTL DEF Spec

\* update() returns at most one event for a hold, unless a portal called
\* init() meanwhile.
THEOREM OneEvent == Spec => OneEventPerHold
<1>1. IInv /\ [Next]_vars => [Update /\ event' # "None" => given = {} \/ again]_vars
  BY EventNeedsHold DEF IInv
<1>2. Spec => []IInv
  BY Safety
<1>3. QED  BY <1>1, <1>2, PTL DEF Spec, OneEventPerHold

\* A button that is held for the calls that credit a long press has had it,
\* however far apart they are: at 4 ticks a call, not at once after 5 s.
THEOREM LongHoldIsNoticed == Spec => []HoldIsNoticed
<1>1. IInv => HoldIsNoticed
  <2> SUFFICES ASSUME IInv, ~waiting, low, held >= SureHold PROVE btn.fired
    BY DEF HoldIsNoticed
  <2>1. TypeOK /\ FullIsFired /\ HoldIsCredited
    BY DEF IInv, CreditOK
  <2>2. held = SureHold /\ idle \in Nat /\ btn.press \in Nat /\ idle <= MaxBlock
    BY <2>1, Counters, Bounds
  <2>3. CASE btn.sampling
    <3> SUFFICES ASSUME ~btn.fired PROVE FALSE
      OBVIOUS
    <3>1. btn.press <= LongTicks
      BY <2>1, Counters, Bounds
    <3>2. Credit * SureHold < MaxBlock * btn.press + Credit * idle + Credit * MaxBlock
      BY <2>1, <2>2, <2>3 DEF HoldIsCredited
    <3>3. MaxBlock * btn.press <= MaxBlock * LongTicks /\ Credit * idle <= Credit * MaxBlock
      BY <2>2, <3>1, Thresholds, Grows
    <3>4. /\ Credit * SureHold \in Nat /\ MaxBlock * btn.press \in Nat /\ Credit * idle \in Nat
          /\ MaxBlock * LongTicks \in Nat /\ Credit * MaxBlock \in Nat
      BY <2>2, Thresholds, SureHoldIs, Grows
    <3>5. QED  BY <3>2, <3>3, <3>4, SureHoldIs
  <2>4. CASE ~btn.sampling
    <3>1. SureHold <= MaxBlock
      BY <2>1, <2>2, <2>4, Bounds DEF HoldIsCredited
    <3>2. Credit * SureHold <= Credit * MaxBlock
      BY <3>1, Thresholds, SureHoldIs, Grows
    <3>3. MaxBlock * LongTicks \in Nat /\ Credit * MaxBlock \in Nat /\ Credit * MaxBlock >= 1
      BY Thresholds, Grows
    <3>4. Credit * SureHold \in Nat
      BY Thresholds, SureHoldIs, Grows
    <3>5. QED  BY <3>2, <3>3, <3>4, SureHoldIs
  <2>5. QED  BY <2>3, <2>4
<1>2. Spec => []IInv
  BY Safety
<1>3. QED  BY <1>1, <1>2, PTL

\* A LongPress takes the full time since the last fall after a clear release,
\* but for what the sampler owed then.
LEMMA LongPressIsEarned ==
  ASSUME IInv, Update, event' = "LongPress"
  PROVE  span + owed + 1 >= LongTicks
<1>0. TypeOK /\ CreditOK /\ ~waiting
  BY DEF IInv, Update
<1>1. TickDue(Woken) /\ LongDue(Woken)
  BY UpdateCases
<1>2. Woken.press + Step(Woken) >= LongTicks /\ ~Woken.fired /\ Woken.sampling
  BY <1>1 DEF TickDue, LongDue
<1>3. Woken.press + Woken.lag <= span + owed + 1 \/ span = LongTicks
  BY <1>0, <1>2, WokenCredit
<1>4. Woken.press \in Nat /\ Woken.lag \in Nat /\ Step(Woken) \in 0 .. Woken.lag
  BY <1>0, WokenTyped, StepIs, Bounds DEF Btns
<1>5. QED  BY <1>0, <1>2, <1>3, <1>4, Counters, Bounds

\* GpioButton::update(): no LongPress without the hold, however late the calls,
\* but for the backlog of a sampler that was on when the button fell.
THEOREM LongPressIsHeld == Spec => LongPressNeedsHold
<1>1. IInv /\ [Next]_vars => [event' = "LongPress" /\ Update => span + owed + 1 >= LongTicks]_vars
  BY LongPressIsEarned
<1>2. Spec => []IInv
  BY Safety
<1>3. QED  BY <1>1, <1>2, PTL DEF Spec, LongPressNeedsHold
=============================================================================
