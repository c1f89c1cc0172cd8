---------------------------- MODULE GpsFixProofs ----------------------------
(***************************************************************************)
(* Proofs about GpsFix, for every set of places, every error of the        *)
(* receiver below half the relocation threshold and every size of the      *)
(* UART buffer.                                                            *)
(***************************************************************************)
EXTENDS GpsFix, SequenceTheorems, TLAPS

\* The distance of naturals is a distance.
LEMMA DistanceFacts ==
    ASSUME NEW p \in Nat, NEW q \in Nat, NEW r \in Nat
    PROVE  /\ Distance(p, q) \in Nat
           /\ Distance(p, q) = Distance(q, p)
           /\ Distance(p, q) <= Distance(p, r) + Distance(r, q)
  BY DEF Distance

LEMMA OldFacts ==
    ASSUME NEW s \in Sentences \cup {None}
    PROVE  /\ Old(s) \in Sentences \cup {None}
           /\ Old(s) # None <=> s # None
           /\ s # None => Old(s).place = s.place
  BY GpsAssumption DEF Old, Sentences

\* What is published is a report.
LEMMA ReportFacts ==
    /\ Invalid \in Reports
    /\ \A place, base \in Places : Guarded(place, base) \in Reports
<1>1. Invalid \in Reports
  BY DEF Invalid, Reports
<1>2. ASSUME NEW place \in Places, NEW base \in Places
      PROVE  Guarded(place, base) \in Reports
  <2> DEFINE far == Distance(base, place)
  <2>1. (far <= Pinned) \in BOOLEAN /\ (far >= Tampered) \in BOOLEAN
    OBVIOUS
  <2>2. (IF far <= Pinned THEN base ELSE place) \in Places
    OBVIOUS
  <2> DEFINE near == far <= Pinned
             relocated == far >= Tampered
             shown == IF near THEN base ELSE place
  <2>3. Guarded(place, base) = [valid |-> TRUE, place |-> shown, filtered |-> near, tamper |-> relocated]
    BY Zenon DEF Guarded
  <2>4. near \in BOOLEAN /\ relocated \in BOOLEAN /\ shown \in Places
    BY <2>1, <2>2
  <2> HIDE DEF far, near, relocated, shown
  <2> QED
    BY <2>3, <2>4 DEF Reports
<1> QED
  BY <1>1, <1>2

LEMMA InitIInv == Init => IInv
<1> SUFFICES ASSUME Init PROVE IInv
  OBVIOUS
<1>1. TypeOK
  <2>1. uart \in Seq(Sentences) /\ Len(uart) <= Buffer
    BY GpsAssumption DEF Init
  <2>2. tank \in Spots /\ location = None /\ fix = None /\ anchor = None /\ pc = "away" /\ moved = FALSE
    BY DEF Init
  <2>3. report \in Reports
    BY ReportFacts DEF Init
  <2> QED
    BY <2>1, <2>2, <2>3 DEF TypeOK
<1>2. FirstFeedDrains /\ NearTank /\ StillTankPinned
  BY DEF Init, FirstFeedDrains, NearTank, StillTankPinned, Invalid
<1> QED
  BY <1>1, <1>2 DEF IInv

(***************************************************************************)
(* Type correctness.                                                       *)
(***************************************************************************)
LEMMA TypeStep == TypeOK /\ [Next]_vars => TypeOK'
<1> SUFFICES ASSUME TypeOK, [Next]_vars PROVE TypeOK'
  OBVIOUS
<1> USE DEF TypeOK
<1>1. CASE Receive
  <2>1. PICK p \in Places : uart' = IF Len(uart) < Buffer
                                    THEN Append(uart, [place |-> p, old |-> FALSE])
                                    ELSE uart
    BY <1>1 DEF Receive
  <2>2. [place |-> p, old |-> FALSE] \in Sentences
    BY DEF Sentences
  <2>3. uart' \in Seq(Sentences) /\ Len(uart') <= Buffer
    BY <2>1, <2>2, GpsAssumption
  <2> QED
    BY <1>1, <2>3 DEF Receive
<1>2. CASE Move
  BY <1>2 DEF Move
<1>3. CASE Restart
  <2>1. uart' \in Seq(Sentences) /\ Len(uart') <= Buffer
    BY <1>3, GpsAssumption DEF Restart
  <2>2. report' \in Reports
    BY <1>3, ReportFacts DEF Restart
  <2> QED
    BY <1>3, <2>1, <2>2 DEF Restart
<1>4. CASE StartRound
  <2>1. uart' = [i \in 1 .. Len(uart) |-> Old(uart[i])]
    BY <1>4 DEF StartRound
  <2>2. ASSUME NEW i \in 1 .. Len(uart) PROVE Old(uart[i]) \in Sentences
    <3>1. uart[i] \in Sentences
      OBVIOUS
    <3>2. uart[i] # None
      BY <3>1, GpsAssumption DEF Sentences
    <3> QED
      BY <3>1, <3>2, OldFacts
  <2>3. uart' \in Seq(Sentences) /\ Len(uart') = Len(uart)
    <3>1. Len(uart) \in Nat
      OBVIOUS
    <3>2. uart' \in [1 .. Len(uart) -> Sentences]
      BY <2>1, <2>2
    <3> QED
      BY <3>1, <3>2
  <2>4. location' \in Sentences \cup {None} /\ fix' \in Sentences \cup {None}
    BY <1>4, OldFacts DEF StartRound
  <2> QED
    BY <1>4, <2>3, <2>4 DEF StartRound
<1>5. CASE Decode
  <2>1. uart[Len(uart)] \in Sentences
    <3>1. Len(uart) \in 1 .. Len(uart)
      BY <1>5, EmptySeq, LenProperties DEF Decode
    <3> QED
      BY <3>1
  <2> QED
    BY <1>5, <2>1, GpsAssumption DEF Decode
<1>6. CASE FeedEnds
  BY <1>6 DEF FeedEnds, AfterFeed
<1>7. CASE NotDue
  BY <1>7 DEF NotDue
<1>8. CASE Due
  BY <1>8 DEF Due
<1>9. CASE Publish
  <2>1. CASE fix = None
    BY <1>9, <2>1, ReportFacts DEF Publish
  <2>2. CASE fix # None
    <3>1. fix.place \in Places
      BY <2>2 DEF Sentences
    <3>2. anchor' \in Places
      BY <1>9, <2>2, <3>1 DEF Publish, Anchored
    <3>3. report' = Guarded(fix.place, anchor')
      BY <1>9, <2>2 DEF Publish
    <3>4. report' \in Reports
      BY <3>1, <3>2, <3>3, ReportFacts
    <3> QED
      BY <1>9, <3>2, <3>4 DEF Publish
  <2> QED
    BY <2>1, <2>2
<1>10. CASE UNCHANGED vars
  BY <1>10 DEF vars
<1> QED
  BY <1>1, <1>2, <1>3, <1>4, <1>5, <1>6, <1>7, <1>8, <1>9, <1>10 DEF Next, LoopStep

(***************************************************************************)
(* The first feed of a round leaves nothing that was there before it.      *)
(***************************************************************************)
LEMMA DrainStep == IInv /\ [Next]_vars => FirstFeedDrains'
<1> SUFFICES ASSUME TypeOK, FirstFeedDrains, [Next]_vars PROVE FirstFeedDrains'
  BY DEF IInv
<1> USE DEF FirstFeedDrains
<1>1. CASE Receive
  <2>1. PICK p \in Places : uart' = IF Len(uart) < Buffer
                                    THEN Append(uart, [place |-> p, old |-> FALSE])
                                    ELSE uart
    BY <1>1 DEF Receive
  <2>2. ASSUME \A i \in 1 .. Len(uart) : ~uart[i].old
        PROVE  \A i \in 1 .. Len(uart') : ~uart'[i].old
    BY <2>1, <2>2 DEF TypeOK
  <2> QED
    BY <1>1, <2>2 DEF Receive
<1>2. CASE Move
  BY <1>2 DEF Move
<1>3. CASE Restart
  BY <1>3 DEF Restart
<1>4. CASE StartRound
  BY <1>4 DEF StartRound
<1>5. CASE Decode
  BY <1>5 DEF Decode, TypeOK
<1>6. CASE FeedEnds
  BY <1>6 DEF FeedEnds, AfterFeed
<1>7. CASE NotDue
  BY <1>7 DEF NotDue
<1>8. CASE Due
  BY <1>8 DEF Due
<1>9. CASE Publish
  BY <1>9 DEF Publish
<1>10. CASE UNCHANGED vars
  BY <1>10 DEF vars
<1> QED
  BY <1>1, <1>2, <1>3, <1>4, <1>5, <1>6, <1>7, <1>8, <1>9, <1>10 DEF Next, LoopStep

(***************************************************************************)
(* A tank that stays is near everything that is heard of it, and pinned.   *)
(***************************************************************************)
LEMMA NearStep == IInv /\ [Next]_vars => NearTank'
<1> SUFFICES ASSUME TypeOK, NearTank, [Next]_vars PROVE NearTank'
  BY DEF IInv
<1> USE DEF NearTank
<1>1. CASE Receive
  <2>1. PICK p \in Places : /\ Distance(p, tank) <= Noise
                            /\ uart' = IF Len(uart) < Buffer
                                       THEN Append(uart, [place |-> p, old |-> FALSE])
                                       ELSE uart
    BY <1>1 DEF Receive
  <2>2. ASSUME \A i \in 1 .. Len(uart) : Distance(uart[i].place, tank) <= Noise
        PROVE  \A i \in 1 .. Len(uart') : Distance(uart'[i].place, tank) <= Noise
    BY <2>1, <2>2 DEF TypeOK
  <2> QED
    BY <1>1, <2>2 DEF Receive
<1>2. CASE Move
  BY <1>2 DEF Move
<1>3. CASE Restart
  BY <1>3 DEF Restart
<1>4. CASE StartRound
  <2>1. \A i \in 1 .. Len(uart) : uart[i] \in Sentences
    BY DEF TypeOK
  <2>2. \A i \in 1 .. Len(uart) : uart[i] # None /\ Old(uart[i]).place = uart[i].place
    BY <2>1, OldFacts, GpsAssumption DEF Sentences
  <2>3. uart' = [i \in 1 .. Len(uart) |-> Old(uart[i])] /\ Len(uart) \in Nat
    BY <1>4 DEF StartRound, TypeOK
  <2>4. Len(uart') = Len(uart)
    BY <2>3
  <2>5. location' = Old(location) /\ fix' = Old(fix) /\ UNCHANGED <<tank, anchor, moved>>
    BY <1>4 DEF StartRound
  <2>6. /\ location' # None => location # None /\ location'.place = location.place
        /\ fix' # None => fix # None /\ fix'.place = fix.place
    BY <2>5, OldFacts DEF TypeOK
  <2> QED
    BY <2>2, <2>3, <2>4, <2>5, <2>6
<1>5. CASE Decode
  BY <1>5 DEF Decode, TypeOK
<1>6. CASE FeedEnds
  BY <1>6 DEF FeedEnds
<1>7. CASE NotDue
  BY <1>7 DEF NotDue
<1>8. CASE Due
  BY <1>8 DEF Due
<1>9. CASE Publish
  BY <1>9 DEF Publish, Anchored
<1>10. CASE UNCHANGED vars
  BY <1>10 DEF vars
<1> QED
  BY <1>1, <1>2, <1>3, <1>4, <1>5, <1>6, <1>7, <1>8, <1>9, <1>10 DEF Next, LoopStep

LEMMA PinnedStep == IInv /\ [Next]_vars => StillTankPinned'
<1> SUFFICES ASSUME TypeOK, NearTank, StillTankPinned, [Next]_vars PROVE StillTankPinned'
  BY DEF IInv
<1> USE DEF StillTankPinned
<1>1. CASE Publish
  <2>1. CASE fix = None
    BY <1>1, <2>1 DEF Publish, Invalid
  <2>2. CASE fix # None /\ ~moved
    <3> DEFINE base == Anchored(fix.place)
    <3>1. anchor' = base /\ report' = Guarded(fix.place, base) /\ tank \in Nat /\ Noise \in Nat
      BY <1>1, <2>2, GpsAssumption DEF Publish, TypeOK
    <3>2. fix.place \in Nat /\ base \in Nat
      BY <2>2, GpsAssumption DEF TypeOK, Sentences, Anchored
    <3>3. Distance(fix.place, tank) <= Noise /\ Distance(base, tank) <= Noise
      BY <2>2 DEF NearTank, Anchored
    <3>4. Distance(base, fix.place) \in Nat /\ Distance(base, fix.place) <= 2 * Noise
      BY <3>1, <3>2, <3>3 DEF Distance
    <3>5. ~report'.tamper
      <4>1. 2 * Noise < 5 /\ Noise \in Nat
        BY GpsAssumption
      <4>2. ~(Distance(base, fix.place) >= Tampered)
        BY <3>4, <4>1 DEF Tampered
      <4>3. report'.tamper = (Distance(base, fix.place) >= Tampered)
        BY <3>1, Zenon DEF Guarded
      <4> QED
        BY <4>2, <4>3
    <3>6. 2 * Noise <= Pinned => Distance(base, fix.place) <= Pinned
      BY <3>1, <3>4 DEF Pinned
    <3>7. 2 * Noise <= Pinned => report'.place = anchor'
      BY <3>1, <3>6 DEF Guarded
    <3> QED
      BY <3>5, <3>7
  <2>3. CASE moved
    BY <1>1, <2>3 DEF Publish
  <2> QED
    BY <2>1, <2>2, <2>3
<1>2. CASE Move
  BY <1>2 DEF Move
<1>3. CASE Restart
  BY <1>3 DEF Restart, Invalid
<1>4. CASE Receive \/ StartRound \/ Decode \/ FeedEnds \/ NotDue \/ Due \/ UNCHANGED vars
  BY <1>4 DEF Receive, StartRound, Decode, FeedEnds, NotDue, Due, vars
<1> QED
  BY <1>1, <1>2, <1>3, <1>4 DEF Next, LoopStep

LEMMA NextIInv == IInv /\ [Next]_vars => IInv'
  BY TypeStep, DrainStep, NearStep, PinnedStep DEF IInv

\* The inductive invariant holds in every state.
THEOREM Safety == Spec => []IInv
  BY InitIInv, NextIInv, PTL DEF Spec

\* A tank nobody moved is never reported as relocated and, with an error of
\* at most half the drift radius, is reported at one place.
THEOREM StillTankIsPinned == Spec => []StillTankPinned
<1>1. IInv => StillTankPinned
  BY DEF IInv
<1> QED
  BY Safety, <1>1, PTL

\* A published position was received in the round that publishes it.
THEOREM PublishesFresh == Spec => FreshFix
<1>1. IInv /\ [Next]_vars => [Publish /\ report'.valid => fix # None /\ ~fix.old]_vars
  BY DEF IInv, FirstFeedDrains, Publish, Invalid
<1> QED
  BY Safety, <1>1, PTL DEF Spec, FreshFix
=============================================================================
