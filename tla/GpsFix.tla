------------------------------- MODULE GpsFix -------------------------------
(***************************************************************************)
(* The GPS: the driver (gps_module), the tamper guard of TinyGpsProvider   *)
(* and the two places that feed it: every service round, and again before  *)
(* a publication of that round.                                            *)
(*                                                                         *)
(* The receiver talks all the time; its UART keeps the first sentences     *)
(* that fit and drops the rest while the loop is elsewhere, which may be   *)
(* minutes. Places are naturals, tens of metres on a line; only sentences  *)
(* with a fix are modelled.                                                *)
(*                                                                         *)
(*   away -> feed -> telemetry -> refeed -> publish -> away                *)
(***************************************************************************)
EXTENDS Integers, Sequences

CONSTANTS Spots,    \* where the tank may be put
          Places,   \* where the receiver may say it is
          Noise,    \* error of the receiver
          Buffer,   \* bound: sentences the UART keeps
          None      \* no sentence, no anchor

ASSUME GpsAssumption ==
    /\ Spots \subseteq Places /\ Places \subseteq Nat
    /\ Noise \in Nat /\ 2 * Noise < 5
    /\ Buffer \in Nat \ {0}
    /\ None \notin Places /\ None \notin [place : Places, old : BOOLEAN]

Pinned   == 3   \* drift radius, 30 m
Tampered == 5   \* relocation threshold, 50 m

VARIABLES
    tank,      \* where the tank is
    uart,      \* sentences received and not decoded
    location,  \* gps.location while isUpdated(); None otherwise
    fix,       \* _latitude, _longitude while _valid; None otherwise
    anchor,    \* anchorLat_, anchorLon_ while hasAnchor_; None otherwise
    report,    \* the GPS part of the latest publication
    pc,        \* where the loop is
    moved      \* history: the tank has moved since boot

vars == <<tank, uart, location, fix, anchor, report, pc, moved>>

\* A sentence is old when it was received before the round began.
Sentences == [place : Places, old : BOOLEAN]

Reports == [valid : BOOLEAN, place : Places \cup {None}, filtered : BOOLEAN, tamper : BOOLEAN]

Invalid == [valid |-> FALSE, place |-> None, filtered |-> FALSE, tamper |-> FALSE]

TypeOK ==
    /\ tank \in Spots
    /\ uart \in Seq(Sentences) /\ Len(uart) <= Buffer
    /\ location \in Sentences \cup {None} /\ fix \in Sentences \cup {None}
    /\ anchor \in Places \cup {None}
    /\ report \in Reports
    /\ pc \in {"away", "feed", "telemetry", "refeed", "publish"}
    /\ moved \in BOOLEAN

Init ==
    /\ tank \in Spots
    /\ uart = <<>> /\ location = None /\ fix = None
    /\ anchor = None /\ report = Invalid
    /\ pc = "away" /\ moved = FALSE

Distance(p, q) == IF p <= q THEN q - p ELSE p - q

(***************************************************************************)
(* The receiver, the tank and the power supply.                            *)
(***************************************************************************)
Receive ==
    /\ \E p \in Places :
          /\ Distance(p, tank) <= Noise
          /\ uart' = IF Len(uart) < Buffer
                     THEN Append(uart, [place |-> p, old |-> FALSE])
                     ELSE uart
    /\ UNCHANGED <<tank, location, fix, anchor, report, pc, moved>>

Move ==
    /\ tank' \in Spots
    /\ moved' = TRUE
    /\ UNCHANGED <<uart, location, fix, anchor, report, pc>>

\* The anchor is kept in RAM only.
Restart ==
    /\ uart' = <<>> /\ location' = None /\ fix' = None
    /\ anchor' = None /\ report' = Invalid
    /\ pc' = "away" /\ moved' = FALSE
    /\ UNCHANGED tank

(***************************************************************************)
(* One service round.                                                      *)
(***************************************************************************)
Old(s) == IF s = None THEN None ELSE [s EXCEPT !.old = TRUE]

StartRound ==
    /\ pc = "away"
    /\ uart' = [i \in 1 .. Len(uart) |-> Old(uart[i])]
    /\ location' = Old(location) /\ fix' = Old(fix)
    /\ pc' = "feed"
    /\ UNCHANGED <<tank, anchor, report, moved>>

\* readGPS() has 200 ms: what is there and what comes is decoded; the last
\* sentence stays in gps.location.
Decode ==
    /\ pc \in {"feed", "refeed"} /\ uart # <<>>
    /\ location' = uart[Len(uart)]
    /\ uart' = <<>>
    /\ UNCHANGED <<tank, fix, anchor, report, pc, moved>>

AfterFeed == IF pc = "feed" THEN "telemetry" ELSE "publish"

\* Faulty: the last position stays valid when there is no new one.
FeedEndsKeepsFix ==
    /\ pc \in {"feed", "refeed"} /\ uart = <<>>
    /\ fix' = IF location = None THEN fix ELSE location
    /\ location' = None
    /\ pc' = AfterFeed
    /\ UNCHANGED <<tank, uart, anchor, report, moved>>

\* lat() and lng() clear isUpdated(); without an update the fix is lost.
FeedEnds ==
    /\ pc \in {"feed", "refeed"} /\ uart = <<>>
    /\ fix' = location
    /\ location' = None
    /\ pc' = AfterFeed
    /\ UNCHANGED <<tank, uart, anchor, report, moved>>

NotDue ==
    /\ pc = "telemetry"
    /\ pc' = "away"
    /\ UNCHANGED <<tank, uart, location, fix, anchor, report, moved>>

\* Faulty: the publication uses what the round has fed already.
DueNoFeed ==
    /\ pc = "telemetry"
    /\ pc' = "publish"
    /\ UNCHANGED <<tank, uart, location, fix, anchor, report, moved>>

\* publishTelemetry() feeds again.
Due ==
    /\ pc = "telemetry"
    /\ pc' = "refeed"
    /\ UNCHANGED <<tank, uart, location, fix, anchor, report, moved>>

\* The first position after start-up becomes the anchor.
Anchored(place) == IF anchor = None THEN place ELSE anchor

\* Faulty: nothing is pinned.
GuardedRaw(place, base) ==
    [valid    |-> TRUE,
     place    |-> place,
     filtered |-> FALSE,
     tamper   |-> Distance(base, place) >= Tampered]

\* Faulty: the drift radius covers the relocation threshold.
GuardedWide(place, base) ==
    LET far == Distance(base, place)
    IN  [valid    |-> TRUE,
         place    |-> IF far <= 2 * Pinned THEN base ELSE place,
         filtered |-> far <= 2 * Pinned,
         tamper   |-> far > 2 * Pinned]

\* A position within the radius is reported as the anchor.
Guarded(place, base) ==
    LET far == Distance(base, place)
    IN  [valid    |-> TRUE,
         place    |-> IF far <= Pinned THEN base ELSE place,
         filtered |-> far <= Pinned,
         tamper   |-> far >= Tampered]

\* location(), and the record is published.
Publish ==
    /\ pc = "publish"
    /\ IF fix = None
       THEN report' = Invalid /\ UNCHANGED anchor
       ELSE /\ anchor' = Anchored(fix.place)
            /\ report' = Guarded(fix.place, anchor')
    /\ pc' = "away"
    /\ UNCHANGED <<tank, uart, location, fix, moved>>

LoopStep == StartRound \/ Decode \/ FeedEnds \/ NotDue \/ Due \/ Publish

Next == LoopStep \/ Receive \/ Move \/ Restart

Spec == Init /\ [][Next]_vars

\* Rounds go on, 200 ms pass however much comes in, and telemetry is due again
\* and again (the timer of Telemetry).
Fairness == WF_vars(LoopStep) /\ SF_vars(FeedEnds) /\ SF_vars(Due)

FairSpec == Spec /\ Fairness

(***************************************************************************)
(* Properties                                                              *)
(***************************************************************************)
\* Nothing that was received before the round survives its first feed.
FirstFeedDrains ==
    /\ pc \in {"telemetry", "refeed", "publish"} =>
           /\ location # None => ~location.old
           /\ \A i \in 1 .. Len(uart) : ~uart[i].old
    /\ pc = "publish" /\ fix # None => ~fix.old

\* All a tank that stays where it is gives is near it.
NearTank ==
    ~moved =>
        /\ \A i \in 1 .. Len(uart) : Distance(uart[i].place, tank) <= Noise
        /\ location # None => Distance(location.place, tank) <= Noise
        /\ fix # None => Distance(fix.place, tank) <= Noise
        /\ anchor # None => Distance(anchor, tank) <= Noise

\* A tank nobody moved is never reported as relocated, and while the error is
\* at most half the drift radius it is reported at one place only.
StillTankPinned ==
    ~moved =>
        /\ ~report.tamper
        /\ report.valid /\ 2 * Noise <= Pinned => report.place = anchor

\* The inductive invariant.
IInv == TypeOK /\ FirstFeedDrains /\ NearTank /\ StillTankPinned

\* A published position was received in the round that publishes it, however
\* long the loop was away before and whatever the UART kept meanwhile.
FreshFix ==
    [][Publish /\ report'.valid => fix # None /\ ~fix.old]_vars

\* A sentence falls into the 200 ms before a publication.
Heard == pc = "refeed" /\ uart # <<>>

Relocated == anchor # None /\ Distance(anchor, tank) >= Tampered + Noise

\* README, tamper guard: a relocation by 50 m or more (and the error of the
\* receiver) is reported, if sentences keep falling into those 200 ms, unless
\* the tank is brought back or the device restarts.
RelocationReported ==
    []<>Heard => (Relocated ~> (report.tamper \/ ~Relocated))
=============================================================================
