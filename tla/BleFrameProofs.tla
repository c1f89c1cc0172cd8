--------------------------- MODULE BleFrameProofs ---------------------------
(***************************************************************************)
(* What BleFrame guarantees for any frames, write sizes and limits: the    *)
(* buffer stays within its limit and holds only what waits for more; and,  *)
(* when the frames are JSON objects, isCompleteJsonObject() sees each of   *)
(* them end at its last symbol and no sooner, and each that meets no       *)
(* remains is handed to the parser whole and answered.                     *)
(***************************************************************************)
EXTENDS BleFrame, SequenceTheorems, WellFoundedInduction, TLAPS

\* Induction over the naturals, of a set: from the least number outside it.
LEMMA Induction ==
  ASSUME NEW S \in SUBSET Nat, 0 \in S, \A n \in S : n + 1 \in S
  PROVE  S = Nat
<1> DEFINE Less == {ss \in Nat \X Nat : ss[1] < ss[2]}
           Rest == Nat \ S
<1>1. IsWellFoundedOn(Less, Nat)
  BY NatLessThanWellFounded DEF OpToRel
<1> HIDE DEF Less
<1>2. SUFFICES ASSUME Rest # {} PROVE FALSE
  OBVIOUS
<1>3. PICK m \in Rest : \A n \in Rest : <<n, m>> \notin Less
  BY <1>1, <1>2, WFMin
<1>4. m \in Nat /\ m - 1 \in Nat
  OBVIOUS
<1>5. <<m - 1, m>> \in Less
  BY <1>4 DEF Less
<1>6. m - 1 \in S
  BY <1>3, <1>4, <1>5
<1>7. QED  BY <1>4, <1>6

\* Induction over texts: what holds of the empty one, and of a text with one
\* more symbol when it holds of the text, holds of all.
LEMMA ByAppending ==
  ASSUME NEW X \in SUBSET Seq(Symbols), <<>> \in X,
         \A t \in X, ch \in Symbols : t \o <<ch>> \in X
  PROVE  X = Seq(Symbols)
<1> DEFINE S == {n \in Nat : \A t \in Seq(Symbols) : Len(t) = n => t \in X}
<1>1. 0 \in S
  OBVIOUS
<1>2. ASSUME NEW n \in S PROVE n + 1 \in S
  <2> SUFFICES ASSUME NEW t \in Seq(Symbols), Len(t) = n + 1 PROVE t \in X
    OBVIOUS
  <2> DEFINE u == SubSeq(t, 1, n)
  <2>1. u \in Seq(Symbols) /\ Len(u) = n /\ t[n + 1] \in Symbols
    OBVIOUS
  <2>2. t = u \o <<t[n + 1]>>
    OBVIOUS
  <2>3. u \in X
    BY <2>1
  <2>4. QED  BY <2>1, <2>2, <2>3
<1> HIDE DEF S
<1>3. S = Nat
  <2>1. S \in SUBSET Nat
    BY DEF S
  <2>2. QED  BY <1>1, <1>2, <2>1, Induction
<1>4. QED  BY <1>3 DEF S

\* The states of the scanner before and after each of the first n symbols of t.
RunTo(n, run, s, t) ==
  run = [i \in 0 .. n |-> IF i = 0 THEN s ELSE Scan(run[i - 1], t[i])]

IsRun(run, s, t) == RunTo(Len(t), run, s, t)

\* The recursion that defines After has a solution for every text.
LEMMA RunsExist ==
  ASSUME NEW s, NEW t \in Seq(Symbols)
  PROVE  \E run : IsRun(run, s, t)
<1> DEFINE S == {n \in Nat : \E run : RunTo(n, run, s, t)}
<1>1. 0 \in S
  <2>1. RunTo(0, [i \in 0 .. 0 |-> s], s, t)
    BY DEF RunTo
  <2>2. QED  BY <2>1
<1>2. ASSUME NEW n \in S PROVE n + 1 \in S
  <2>0. PICK run : RunTo(n, run, s, t)
    OBVIOUS
  <2>1. run = [i \in 0 .. n |-> IF i = 0 THEN s ELSE Scan(run[i - 1], t[i])]
    BY <2>0 DEF RunTo
  <2> DEFINE more == [i \in 0 .. n + 1 |->
                        IF i = n + 1 THEN Scan(run[n], t[n + 1]) ELSE run[i]]
  <2>2. \A i \in 0 .. n : more[i] = run[i]
    OBVIOUS
  <2>3. \A i \in 0 .. n + 1 : more[i] = IF i = 0 THEN s ELSE Scan(more[i - 1], t[i])
    <3> TAKE i \in 0 .. n + 1
    <3>1. CASE i = 0
      BY <2>1, <2>2, <3>1
    <3>2. CASE i \in 1 .. n
      <4>1. run[i] = Scan(run[i - 1], t[i])
        BY <2>1, <3>2
      <4>2. i - 1 \in 0 .. n /\ i \in 0 .. n /\ i # 0
        BY <3>2
      <4> HIDE DEF more
      <4>3. QED  BY <2>2, <4>1, <4>2
    <3>3. CASE i = n + 1
      <4>1. more[i] = Scan(run[n], t[n + 1]) /\ more[n] = run[n] /\ i - 1 = n /\ i # 0
        BY <3>3
      <4> HIDE DEF more
      <4>2. QED  BY <3>3, <4>1
    <3>4. QED  BY <3>1, <3>2, <3>3
  <2>4. RunTo(n + 1, more, s, t)
    <3>1. more = [i \in 0 .. n + 1 |-> more[i]]
      OBVIOUS
    <3> HIDE DEF more
    <3>2. QED  BY <2>3, <3>1 DEF RunTo
  <2> HIDE DEF more
  <2>5. QED  BY <2>4
<1> HIDE DEF S
<1>3. S = Nat
  <2>1. S \in SUBSET Nat
    BY DEF S
  <2>2. QED  BY <1>1, <1>2, <2>1, Induction
<1>4. \E run : RunTo(Len(t), run, s, t)
  <2>1. Len(t) \in S
    BY <1>3
  <2>2. QED  BY <2>1 DEF S
<1>5. QED  BY <1>4 DEF IsRun

\* After is the last value of one.
LEMMA AfterRun ==
  ASSUME NEW s, NEW t \in Seq(Symbols)
  PROVE  \E run : IsRun(run, s, t) /\ After(s, t) = run[Len(t)]
<1> DEFINE r == CHOOSE run : IsRun(run, s, t)
<1>1. IsRun(r, s, t)
  BY RunsExist
<1>2. After(s, t) = r[Len(t)]
  BY DEF After, IsRun, RunTo
<1>3. QED  BY <1>1, <1>2

\* Runs over a text and over a longer one that begins with it go together.
LEMMA RunsAgree ==
  ASSUME NEW s, NEW t \in Seq(Symbols), NEW u \in Seq(Symbols), Len(t) <= Len(u),
         \A i \in 1 .. Len(t) : t[i] = u[i],
         NEW p, NEW q, IsRun(p, s, t), IsRun(q, s, u)
  PROVE  p[Len(t)] = q[Len(t)]
<1> DEFINE S == {n \in Nat : n <= Len(t) => p[n] = q[n]}
<1>0. /\ \A i \in 0 .. Len(t) : p[i] = IF i = 0 THEN s ELSE Scan(p[i - 1], t[i])
      /\ \A i \in 0 .. Len(u) : q[i] = IF i = 0 THEN s ELSE Scan(q[i - 1], u[i])
  BY DEF IsRun, RunTo
<1>1. 0 \in S
  BY <1>0
<1>2. ASSUME NEW n \in S PROVE n + 1 \in S
  <2> SUFFICES ASSUME n + 1 <= Len(t) PROVE p[n + 1] = q[n + 1]
    OBVIOUS
  <2>1. p[n] = q[n] /\ t[n + 1] = u[n + 1]
    OBVIOUS
  <2>2. n + 1 \in 0 .. Len(t) /\ n + 1 \in 0 .. Len(u) /\ n + 1 # 0 /\ (n + 1) - 1 = n
    OBVIOUS
  <2>3. p[n + 1] = Scan(p[n], t[n + 1]) /\ q[n + 1] = Scan(q[n], u[n + 1])
    BY <1>0, <2>2
  <2>4. QED  BY <2>1, <2>3
<1> HIDE DEF S
<1>3. S = Nat
  <2>1. S \in SUBSET Nat
    BY DEF S
  <2>2. QED  BY <1>1, <1>2, <2>1, Induction
<1>4. QED  BY <1>3 DEF S

\* Nothing read, nothing changed.
LEMMA AfterNothing == ASSUME NEW s PROVE After(s, <<>>) = s
<1>1. <<>> \in Seq(Symbols) /\ Len(<<>>) = 0
  OBVIOUS
<1>2. PICK run : IsRun(run, s, <<>>) /\ After(s, <<>>) = run[Len(<<>>)]
  BY <1>1, AfterRun
<1>3. 0 \in 0 .. Len(<<>>)
  BY <1>1
<1>4. run[0] = s
  BY <1>2, <1>3 DEF IsRun, RunTo
<1>5. QED  BY <1>1, <1>2, <1>4

\* One more symbol is one more turn of the loop in isCompleteJsonObject().
LEMMA AfterOneMore ==
  ASSUME NEW s, NEW t \in Seq(Symbols), NEW ch \in Symbols
  PROVE  After(s, t \o <<ch>>) = Scan(After(s, t), ch)
<1> DEFINE u == t \o <<ch>>
<1>1. /\ u \in Seq(Symbols) /\ Len(u) = Len(t) + 1 /\ u[Len(u)] = ch
      /\ \A i \in 1 .. Len(t) : t[i] = u[i]
  OBVIOUS
<1> HIDE DEF u
<1>2. PICK p : IsRun(p, s, t) /\ After(s, t) = p[Len(t)]
  BY AfterRun
<1>3. PICK q : IsRun(q, s, u) /\ After(s, u) = q[Len(u)]
  BY <1>1, AfterRun
<1>4. p[Len(t)] = q[Len(t)]
  BY <1>1, <1>2, <1>3, RunsAgree
<1>5. q[Len(u)] = Scan(q[Len(t)], ch)
  <2>1. Len(u) \in 0 .. Len(u) /\ Len(u) # 0 /\ Len(u) - 1 = Len(t)
    BY <1>1
  <2>2. q[Len(u)] = Scan(q[Len(u) - 1], u[Len(u)])
    BY <1>3, <2>1 DEF IsRun, RunTo
  <2>3. QED  BY <1>1, <2>1, <2>2
<1>6. QED  BY <1>2, <1>3, <1>4, <1>5 DEF u

\* A text of one symbol.
LEMMA AfterOne ==
  ASSUME NEW s, NEW ch \in Symbols
  PROVE  <<ch>> \in Seq(Symbols) /\ After(s, <<ch>>) = Scan(s, ch)
<1>1. <<>> \in Seq(Symbols) /\ <<>> \o <<ch>> = <<ch>>
  OBVIOUS
<1>2. After(s, <<>> \o <<ch>>) = Scan(After(s, <<>>), ch)
  BY <1>1, AfterOneMore
<1>3. QED  BY <1>1, <1>2, AfterNothing

\* Two texts, one after the other.
LEMMA AfterBoth ==
  ASSUME NEW s, NEW t \in Seq(Symbols), NEW u \in Seq(Symbols)
  PROVE  After(s, t \o u) = After(After(s, t), u)
<1> DEFINE X == {v \in Seq(Symbols) : After(s, t \o v) = After(After(s, t), v)}
<1>1. <<>> \in X
  <2>1. t \o <<>> = t /\ <<>> \in Seq(Symbols)
    OBVIOUS
  <2>2. QED  BY <2>1, AfterNothing
<1>2. ASSUME NEW v \in X, NEW ch \in Symbols PROVE v \o <<ch>> \in X
  <2>1. v \in Seq(Symbols) /\ v \o <<ch>> \in Seq(Symbols) /\ t \o v \in Seq(Symbols)
    OBVIOUS
  <2>2. t \o (v \o <<ch>>) = (t \o v) \o <<ch>>
    BY <2>1
  <2>3. After(s, t \o (v \o <<ch>>)) = Scan(After(s, t \o v), ch)
    BY <2>1, <2>2, AfterOneMore
  <2>4. After(After(s, t), v \o <<ch>>) = Scan(After(After(s, t), v), ch)
    BY <2>1, AfterOneMore
  <2>5. QED  BY <2>1, <2>3, <2>4
<1> HIDE DEF X
<1>3. X = Seq(Symbols)
  <2>1. X \in SUBSET Seq(Symbols)
    BY DEF X
  <2>2. QED  BY <1>1, <1>2, <2>1, ByAppending
<1>4. QED  BY <1>3 DEF X

\* The end, once seen, stays seen.
LEMMA EndStays ==
  ASSUME NEW s, s.place = "end", NEW t \in Seq(Symbols)
  PROVE  After(s, t) = s
<1> DEFINE X == {v \in Seq(Symbols) : After(s, v) = s}
<1>1. <<>> \in X
  BY AfterNothing
<1>2. ASSUME NEW v \in X, NEW ch \in Symbols PROVE v \o <<ch>> \in X
  <2>1. v \o <<ch>> \in Seq(Symbols)
    OBVIOUS
  <2>2. After(s, v \o <<ch>>) = Scan(s, ch)
    BY AfterOneMore
  <2>3. Scan(s, ch) = s
    BY DEF Scan
  <2>4. QED  BY <2>1, <2>2, <2>3
<1> HIDE DEF X
<1>3. X = Seq(Symbols)
  <2>1. X \in SUBSET Seq(Symbols)
    BY DEF X
  <2>2. QED  BY <1>1, <1>2, <2>1, ByAppending
<1>4. QED  BY <1>3 DEF X



\* The turns of the loop that a JSON object can meet.
LEMMA Scans ==
  ASSUME NEW d
  PROVE  /\ Scan(At("object", d), Plain) = At("object", d)
         /\ Scan(At("object", d), Quote) = At("string", d)
         /\ Scan(At("object", d), Open) = At("object", d + 1)
         /\ d # 1 => Scan(At("object", d), Close) = At("object", d - 1)
         /\ d = 1 => Scan(At("object", d), Close) = At("end", d - 1)
         /\ Scan(At("string", d), Quote) = At("object", d)
         /\ Scan(At("string", d), Slash) = At("escape", d)
         /\ \A ch \in Symbols \ {Quote, Slash} : Scan(At("string", d), ch) = At("string", d)
         /\ \A ch \in Symbols : Scan(At("escape", d), ch) = At("string", d)
<1>1. \A p : At(p, d).place = p /\ At(p, d).depth = d
  BY DEF At
<1>2. /\ Scan(At("object", d), Plain) = At("object", d)
      /\ Scan(At("object", d), Quote) = At("string", d)
      /\ Scan(At("object", d), Open) = At("object", d + 1)
  BY <1>1 DEF Scan, Plain, Quote, Open, Close, Slash
<1>3. /\ d # 1 => Scan(At("object", d), Close) = At("object", d - 1)
      /\ d = 1 => Scan(At("object", d), Close) = At("end", d - 1)
  BY <1>1 DEF Scan, Plain, Quote, Open, Close, Slash
<1>4. /\ Scan(At("string", d), Quote) = At("object", d)
      /\ Scan(At("string", d), Slash) = At("escape", d)
      /\ \A ch \in Symbols \ {Quote, Slash} : Scan(At("string", d), ch) = At("string", d)
  BY <1>1 DEF Scan, Plain, Quote, Open, Close, Slash
<1>5. \A ch \in Symbols : Scan(At("escape", d), ch) = At("string", d)
  BY <1>1 DEF Scan
<1>6. QED  BY <1>2, <1>3, <1>4, <1>5

(***************************************************************************)
(* The grammar: the least sets that its operators do not lead out of       *)
(***************************************************************************)
Bodies ==
  {t \in Seq(Symbols) : \A B \in SUBSET Seq(Symbols) : MoreBodies(B) \subseteq B => t \in B}

Contents ==
  {t \in Seq(Symbols) :
     \A C \in SUBSET Seq(Symbols) : MoreContents(C, Bodies) \subseteq C => t \in C}

JsonObjects == Objects(Contents)

\* Whatever the operators build is in them, so that JsonObjects is all of JSON:
\* the frames of the instance that TLC checks, and those of any depth.
LEMMA GrammarCloses ==
  MoreBodies(Bodies) \subseteq Bodies /\ MoreContents(Contents, Bodies) \subseteq Contents
<1>1. Characters \subseteq Seq(Symbols) /\ {<<Plain>>} \subseteq Seq(Symbols)
  <2>1. \A ch \in Symbols : <<ch>> \in Seq(Symbols) /\ <<Slash, ch>> \in Seq(Symbols)
    BY DEF Symbols
  <2>2. Plain \in Symbols
    BY DEF Symbols
  <2>3. QED  BY <2>1, <2>2 DEF Characters
<1>2. ASSUME NEW t \in MoreBodies(Bodies) PROVE t \in Bodies
  <2>1. CASE t = <<>>
    <3>1. \A B : MoreBodies(B) \subseteq B => <<>> \in B
      BY DEF MoreBodies
    <3>2. <<>> \in Seq(Symbols)
      OBVIOUS
    <3>3. QED  BY <2>1, <3>1, <3>2 DEF Bodies
  <2>2. CASE \E b \in Bodies, c \in Characters : t = b \o c
    <3>1. PICK b \in Bodies, c \in Characters : t = b \o c
      BY <2>2
    <3>2. b \in Seq(Symbols) /\ t \in Seq(Symbols)
      BY <1>1, <3>1 DEF Bodies
    <3>3. ASSUME NEW B \in SUBSET Seq(Symbols), MoreBodies(B) \subseteq B PROVE t \in B
      <4>1. b \in B
        BY <3>3 DEF Bodies
      <4>2. b \o c \in MoreBodies(B)
        BY <4>1 DEF MoreBodies
      <4>3. QED  BY <3>1, <3>3, <4>2
    <3>4. QED  BY <3>2, <3>3 DEF Bodies
  <2>3. QED  BY <2>1, <2>2 DEF MoreBodies
<1>3. ASSUME NEW t \in MoreContents(Contents, Bodies) PROVE t \in Contents
  <2> DEFINE Items(C) == {<<Plain>>} \cup Strings(Bodies) \cup Objects(C)
  <2>1. CASE t = <<>>
    <3>1. \A C : MoreContents(C, Bodies) \subseteq C => <<>> \in C
      BY DEF MoreContents
    <3>2. <<>> \in Seq(Symbols)
      OBVIOUS
    <3>3. QED  BY <2>1, <3>1, <3>2 DEF Contents
  <2>2. CASE \E c \in Contents, i \in Items(Contents) : t = c \o i
    <3>1. PICK c \in Contents, i \in Items(Contents) : t = c \o i
      BY <2>2
    <3>2. i \in Seq(Symbols)
      <4>1. Quote \in Symbols /\ Open \in Symbols /\ Close \in Symbols
        BY DEF Symbols
      <4>2. Bodies \subseteq Seq(Symbols) /\ Contents \subseteq Seq(Symbols)
        BY DEF Bodies, Contents
      <4>3. ASSUME i \in Strings(Bodies) PROVE i \in Seq(Symbols)
        <5>1. PICK b \in Bodies : i = <<Quote>> \o b \o <<Quote>>
          BY <4>3 DEF Strings
        <5>2. b \in Seq(Symbols)
          BY <4>2
        <5>3. <<Quote>> \in Seq(Symbols)
          BY <4>1
        <5>4. QED  BY <5>1, <5>2, <5>3
      <4>4. ASSUME i \in Objects(Contents) PROVE i \in Seq(Symbols)
        <5>1. PICK u \in Contents : i = <<Open>> \o u \o <<Close>>
          BY <4>4 DEF Objects
        <5>2. u \in Seq(Symbols)
          BY <4>2
        <5>3. <<Open>> \in Seq(Symbols) /\ <<Close>> \in Seq(Symbols)
          BY <4>1
        <5>4. QED  BY <5>1, <5>2, <5>3
      <4>5. QED  BY <1>1, <4>3, <4>4
    <3>3. c \in Seq(Symbols) /\ t \in Seq(Symbols)
      BY <3>1, <3>2 DEF Contents
    <3>4. ASSUME NEW C \in SUBSET Seq(Symbols), MoreContents(C, Bodies) \subseteq C
          PROVE  t \in C
      <4>1. Contents \subseteq C
        BY <3>4 DEF Contents
      <4>2. i \in Items(C)
        BY <4>1 DEF Objects
      <4>3. c \o i \in MoreContents(C, Bodies)
        BY <4>1, <4>2 DEF MoreContents
      <4>4. QED  BY <3>1, <3>4, <4>3
    <3>5. QED  BY <3>3, <3>4 DEF Contents
  <2>3. QED  BY <2>1, <2>2 DEF MoreContents
<1>4. QED  BY <1>2, <1>3

\* What a string may hold leaves the scanner inside the string.
LEMMA BodiesPass ==
  ASSUME NEW b \in Bodies, NEW d
  PROVE  b \in Seq(Symbols) /\ After(At("string", d), b) = At("string", d)
<1> DEFINE B == {t \in Seq(Symbols) : After(At("string", d), t) = At("string", d)}
<1>1. SUFFICES MoreBodies(B) \subseteq B
  BY DEF Bodies
<1>2. <<>> \in B
  BY AfterNothing
<1>3. ASSUME NEW t \in B, NEW ch \in Symbols \ {Quote, Slash}
      PROVE  t \o <<ch>> \in B
  <2>1. After(At("string", d), t \o <<ch>>) = Scan(At("string", d), ch)
    BY AfterOneMore
  <2>2. Scan(At("string", d), ch) = At("string", d)
    BY Scans
  <2>3. QED  BY <2>1, <2>2
<1>4. ASSUME NEW t \in B, NEW ch \in Symbols
      PROVE  t \o <<Slash, ch>> \in B
  <2>1. Slash \in Symbols
    BY DEF Symbols
  <2>2. /\ t \o <<Slash>> \in Seq(Symbols)
        /\ t \o <<Slash, ch>> = (t \o <<Slash>>) \o <<ch>>
        /\ t \o <<Slash, ch>> \in Seq(Symbols)
    BY <2>1
  <2>3. After(At("string", d), t \o <<Slash>>) = Scan(At("string", d), Slash)
    BY <2>1, AfterOneMore
  <2>4. Scan(At("string", d), Slash) = At("escape", d)
    BY Scans
  <2>5. Scan(At("escape", d), ch) = At("string", d)
    BY Scans
  <2>6. After(At("string", d), (t \o <<Slash>>) \o <<ch>>)
          = Scan(After(At("string", d), t \o <<Slash>>), ch)
    BY <2>2, AfterOneMore
  <2>7. QED  BY <2>2, <2>3, <2>4, <2>5, <2>6
<1> HIDE DEF B
<1>5. ASSUME NEW t \in B, NEW c \in Characters PROVE t \o c \in B
  BY <1>3, <1>4 DEF Characters
<1>6. ASSUME NEW t \in MoreBodies(B) PROVE t \in B
  <2>1. t = <<>> \/ \E u \in B, c \in Characters : t = u \o c
    BY DEF MoreBodies
  <2>2. QED  BY <1>2, <1>5, <2>1
<1>7. QED  BY <1>6

\* A quoted text of the grammar of strings is passed over.
LEMMA StringPasses ==
  ASSUME NEW b \in Bodies, NEW d
  PROVE  LET t == <<Quote>> \o b \o <<Quote>>
         IN  t \in Seq(Symbols) /\ After(At("object", d), t) = At("object", d)
<1> DEFINE q == <<Quote>>
           s == At("object", d)
<1>1. Quote \in Symbols /\ q \in Seq(Symbols) /\ b \in Seq(Symbols)
  BY BodiesPass DEF Symbols
<1>2. q \o b \in Seq(Symbols) /\ (q \o b) \o q \in Seq(Symbols)
  BY <1>1
<1>3. After(s, q) = Scan(s, Quote)
  BY <1>1, AfterOne
<1>4. After(s, q \o b) = After(After(s, q), b)
  BY <1>1, AfterBoth
<1>5. After(s, (q \o b) \o q) = Scan(After(s, q \o b), Quote)
  BY <1>1, <1>2, AfterOneMore
<1>6. Scan(s, Quote) = At("string", d) /\ Scan(At("string", d), Quote) = s
  BY Scans
<1>7. After(At("string", d), b) = At("string", d)
  BY BodiesPass
<1>8. QED  BY <1>2, <1>3, <1>4, <1>5, <1>6, <1>7

\* Contents of objects leave the scanner where it was, at any depth.
LEMMA ContentsPass ==
  ASSUME NEW c \in Contents
  PROVE  /\ c \in Seq(Symbols)
         /\ \A d \in Nat \ {0} : After(At("object", d), c) = At("object", d)
<1> DEFINE Passed(t) == \A d \in Nat \ {0} : After(At("object", d), t) = At("object", d)
           C == {t \in Seq(Symbols) : Passed(t)}
<1>1. SUFFICES MoreContents(C, Bodies) \subseteq C
  BY DEF Contents
<1>2. <<>> \in C
  BY AfterNothing
<1>3. <<Plain>> \in C
  <2>1. Plain \in Symbols /\ <<Plain>> \in Seq(Symbols)
    BY DEF Symbols
  <2>2. ASSUME NEW d \in Nat \ {0} PROVE After(At("object", d), <<Plain>>) = At("object", d)
    <3>1. After(At("object", d), <<Plain>>) = Scan(At("object", d), Plain)
      BY <2>1, AfterOne
    <3>2. QED  BY <3>1, Scans
  <2>3. QED  BY <2>1, <2>2
<1>4. ASSUME NEW t \in Strings(Bodies) PROVE t \in C
  <2>1. PICK b \in Bodies : t = <<Quote>> \o b \o <<Quote>>
    BY DEF Strings
  <2>2. QED  BY <2>1, StringPasses
<1>5. ASSUME NEW t \in Objects(C) PROVE t \in C
  <2>1. PICK u \in C : t = <<Open>> \o u \o <<Close>>
    BY DEF Objects
  <2>2. Open \in Symbols /\ Close \in Symbols
    BY DEF Symbols
  <2> DEFINE g == <<Open>> \o u
  <2>3. u \in Seq(Symbols) /\ <<Open>> \in Seq(Symbols) /\ g \in Seq(Symbols)
        /\ t \in Seq(Symbols) /\ t = g \o <<Close>>
    BY <2>1, <2>2
  <2>4. ASSUME NEW d \in Nat \ {0} PROVE After(At("object", d), t) = At("object", d)
    <3> DEFINE s == At("object", d)
    <3>1. After(s, <<Open>>) = Scan(s, Open)
      BY <2>2, AfterOne
    <3>2. After(s, g) = After(After(s, <<Open>>), u)
      BY <2>3, AfterBoth
    <3> HIDE DEF g
    <3>3. After(s, g \o <<Close>>) = Scan(After(s, g), Close)
      BY <2>2, <2>3, AfterOneMore
    <3>4. Scan(s, Open) = At("object", d + 1)
      BY Scans
    <3>5. After(At("object", d + 1), u) = At("object", d + 1)
      OBVIOUS
    <3>6. Scan(At("object", d + 1), Close) = s
      <4>1. d + 1 # 1 /\ (d + 1) - 1 = d
        OBVIOUS
      <4>2. QED  BY <4>1, Scans
    <3>7. QED  BY <2>3, <3>1, <3>2, <3>3, <3>4, <3>5, <3>6
  <2>5. QED  BY <2>3, <2>4
<1>6. ASSUME NEW t \in C, NEW u \in C PROVE t \o u \in C
  <2>1. t \in Seq(Symbols) /\ u \in Seq(Symbols) /\ t \o u \in Seq(Symbols)
    OBVIOUS
  <2>2. ASSUME NEW d \in Nat \ {0} PROVE After(At("object", d), t \o u) = At("object", d)
    <3>1. After(At("object", d), t \o u) = After(After(At("object", d), t), u)
      BY <2>1, AfterBoth
    <3>2. QED  BY <3>1
  <2>3. QED  BY <2>1, <2>2
<1> HIDE DEF C
<1>7. ASSUME NEW t \in MoreContents(C, Bodies) PROVE t \in C
  <2>1. \/ t = <<>>
        \/ \E u \in C, i \in {<<Plain>>} \cup Strings(Bodies) \cup Objects(C) : t = u \o i
    BY DEF MoreContents
  <2>2. QED  BY <1>2, <1>3, <1>4, <1>5, <1>6, <2>1
<1>8. QED  BY <1>7

\* isCompleteJsonObject() sees the end of every JSON object at its last symbol
\* and no sooner, at any depth of nesting and whatever its strings hold.
THEOREM ObjectsEndOnce == \A f \in JsonObjects : EndsOnce(f)
<1> SUFFICES ASSUME NEW c \in Contents PROVE EndsOnce(<<Open>> \o c \o <<Close>>)
  BY DEF JsonObjects, Objects
<1> DEFINE g == <<Open>> \o c
           f == g \o <<Close>>
<1>1. Open \in Symbols /\ Close \in Symbols /\ c \in Seq(Symbols)
  BY ContentsPass DEF Symbols
<1>2. /\ <<Open>> \in Seq(Symbols)
      /\ g \in Seq(Symbols) /\ f \in Seq(Symbols)
      /\ Len(f) = Len(g) + 1 /\ Len(f) # 0 /\ f[1] = Open
  BY <1>1
<1> HIDE DEF f, g
<1>3. After(Start, g) = At("object", 1)
  <2>1. After(Start, <<Open>>) = Scan(Start, Open)
    BY <1>1, AfterOne
  <2>3. Scan(Start, Open) = At("object", 1)
    <3>1. Scan(At("object", 0), Open) = At("object", 0 + 1)
      BY Scans
    <3>2. QED  BY <3>1 DEF Start
  <2>4. After(Start, <<Open>> \o c) = After(After(Start, <<Open>>), c)
    BY <1>1, <1>2, AfterBoth
  <2>5. After(At("object", 1), c) = At("object", 1)
    BY ContentsPass
  <2>6. QED  BY <1>2, <2>1, <2>3, <2>4, <2>5 DEF g
<1>4. IsComplete(f)
  <2>1. After(Start, g \o <<Close>>) = Scan(After(Start, g), Close)
    BY <1>1, <1>2, AfterOneMore
  <2>2. Scan(At("object", 1), Close) = At("end", 1 - 1)
    BY Scans
  <2>3. At("end", 1 - 1).place = "end"
    BY DEF At
  <2>4. After(Start, f).place = "end"
    BY <1>3, <2>1, <2>2, <2>3 DEF f
  <2>5. StartsJson(f)
    BY <1>2 DEF StartsJson
  <2>6. QED  BY <2>4, <2>5 DEF IsComplete
<1>5. ASSUME NEW n \in 1 .. Len(f) - 1 PROVE ~IsComplete(SubSeq(f, 1, n))
  <2> DEFINE p == SubSeq(g, 1, n)
             r == SubSeq(g, n + 1, Len(g))
  <2>1. n \in 1 .. Len(g) /\ Len(g) \in Nat
    BY <1>2
  <2>2. SubSeq(f, 1, n) = p
    BY <1>1, <1>2, <2>1 DEF f
  <2>3. p \in Seq(Symbols) /\ r \in Seq(Symbols) /\ p \o r = g
    BY <1>2, <2>1
  <2> HIDE DEF p, r
  <2>4. SUFFICES ASSUME After(Start, p).place = "end" PROVE FALSE
    BY <2>2 DEF IsComplete
  <2>5. After(Start, p \o r) = After(After(Start, p), r)
    BY <2>3, AfterBoth
  <2>6. After(After(Start, p), r) = After(Start, p)
    BY <2>3, <2>4, EndStays
  <2>7. At("object", 1).place # "end"
    BY DEF At
  <2>8. QED  BY <1>3, <2>3, <2>4, <2>5, <2>6, <2>7
<1>6. QED  BY <1>4, <1>5 DEF EndsOnce, f, g

(***************************************************************************)
(* The buffer                                                              *)
(***************************************************************************)
\* The part of the inductive invariant that holds whatever the frames are.
BufferInv == TypeOK /\ BufferWaits

\* What the lemmas about whole frames use of the scanner.
AllEndOnce == \A f \in Frames : EndsOnce(f)

\* What is kept of the buffer, with the write added, is within the limit.
LEMMA KeptFits ==
  ASSUME TypeOK, NEW val \in Seq(Symbols), Len(val) <= Mtu
  PROVE  /\ Kept(val) \in Seq(Symbols)
         /\ Kept(val) \o val \in Seq(Symbols)
         /\ Len(Kept(val) \o val) <= MaxBuffer
<1>1. Mtu \in Nat /\ MaxBuffer \in Nat /\ Mtu <= MaxBuffer
  BY FrameAssumption
<1>2. buffer \in Seq(Symbols) /\ Len(buffer) <= MaxBuffer
  BY DEF TypeOK
<1>3. Kept(val) = <<>> \/ (Kept(val) = buffer /\ Len(buffer) + Len(val) <= MaxBuffer)
  <2>1. Len(buffer) \in Nat /\ Len(val) \in Nat
    BY <1>2
  <2>2. QED  BY <1>1, <2>1 DEF Kept
<1>4. <<>> \in Seq(Symbols) /\ Len(<<>>) = 0
  OBVIOUS
<1>5. Kept(val) \in Seq(Symbols)
  BY <1>2, <1>3, <1>4
<1>6. Len(Kept(val) \o val) = Len(Kept(val)) + Len(val)
  BY <1>5
<1>7. Len(Kept(val)) + Len(val) <= MaxBuffer
  <2>1. CASE Kept(val) = <<>>
    BY <1>1, <1>4, <2>1
  <2>2. CASE Kept(val) = buffer /\ Len(buffer) + Len(val) <= MaxBuffer
    BY <2>2
  <2>3. QED  BY <1>3, <2>1, <2>2
<1>8. QED  BY <1>5, <1>6, <1>7

\* Joining a write to the beginning of an object leaves a beginning of one.
LEMMA StillStarts ==
  ASSUME NEW s \in Seq(Symbols), NEW val \in Seq(Symbols),
         \/ s # <<>> /\ StartsJson(s)
         \/ s = <<>> /\ StartsJson(val)
  PROVE  StartsJson(s \o val)
<1>1. CASE s # <<>> /\ StartsJson(s)
  <2>1. Len(s) > 0 /\ s[1] = Open
    BY <1>1 DEF StartsJson
  <2>2. Len(s \o val) > 0 /\ (s \o val)[1] = s[1]
    BY <2>1
  <2>3. QED  BY <2>1, <2>2 DEF StartsJson
<1>2. CASE s = <<>> /\ StartsJson(val)
  <2>1. s \o val = val
    BY <1>2
  <2>2. QED  BY <1>2, <2>1
<1>3. QED  BY <1>1, <1>2

\* A write, whatever it holds, keeps the invariant's part about the buffer.
LEMMA HandleKeeps ==
  ASSUME BufferInv, NEW val \in Seq(Symbols), Len(val) <= Mtu, Handle(val)
  PROVE  /\ buffer' \in Seq(Symbols) /\ Len(buffer') <= MaxBuffer
         /\ text' \in Seq(Symbols)
         /\ reply' \in {"none", "OK", "ERROR"}
         /\ BufferWaits'
<1> DEFINE joined == Kept(val) \o val
           waits  == (Kept(val) # <<>> \/ StartsJson(val)) /\ ~IsComplete(joined)
<1>1. Kept(val) \in Seq(Symbols) /\ joined \in Seq(Symbols) /\ Len(joined) <= MaxBuffer
  BY KeptFits DEF BufferInv
<1>2. /\ text' = joined
      /\ buffer' = IF waits THEN joined ELSE <<>>
      /\ IF waits THEN reply' = "none" ELSE reply' \in Answers(joined)
  BY DEF Handle
<1>3. Answers(joined) \subseteq {"OK", "ERROR"}
  BY DEF Answers
<1>4. <<>> \in Seq(Symbols) /\ Len(<<>>) = 0 /\ 0 <= MaxBuffer
  BY FrameAssumption
<1>5. waits => StartsJson(joined)
  <2>1. Kept(val) = <<>> \/ Kept(val) = buffer
    BY DEF Kept
  <2>2. Kept(val) # <<>> => StartsJson(Kept(val))
    BY <2>1 DEF BufferInv, BufferWaits
  <2>3. QED  BY <1>1, <2>2, StillStarts
<1>6. BufferWaits'
  <2>1. buffer' # <<>> => waits /\ buffer' = joined
    BY <1>2
  <2>2. SUFFICES ASSUME buffer' # <<>> PROVE StartsJson(buffer') /\ ~IsComplete(buffer')
    BY DEF BufferWaits, StartsJson, IsComplete
  <2>3. QED  BY <1>5, <2>1, <2>2
<1> HIDE DEF joined, waits
<1>7. buffer' \in Seq(Symbols) /\ Len(buffer') <= MaxBuffer
  BY <1>1, <1>2, <1>4
<1>8. reply' \in {"none", "OK", "ERROR"}
  BY <1>2, <1>3
<1>9. QED  BY <1>1, <1>2, <1>6, <1>7, <1>8

\* What a phone may write of its frame is a write of at most Mtu symbols.
LEMMA PieceTyped ==
  ASSUME TypeOK, NEW n \in 1 .. Mtu, sent + n <= Len(frame)
  PROVE  /\ SubSeq(frame, sent + 1, sent + n) \in Seq(Symbols)
         /\ Len(SubSeq(frame, sent + 1, sent + n)) <= Mtu
         /\ sent + n \in 0 .. Len(frame)
<1>1. frame \in Seq(Symbols)
  BY FrameAssumption DEF TypeOK
<1>2. sent \in 0 .. Len(frame) /\ Mtu \in Nat /\ Len(frame) \in Nat
  BY <1>1, FrameAssumption DEF TypeOK
<1>3. /\ SubSeq(frame, sent + 1, sent + n) \in Seq(Symbols)
      /\ Len(SubSeq(frame, sent + 1, sent + n)) = n
  <2>1. sent + 1 \in 1 .. Len(frame) /\ sent + n \in 1 .. Len(frame) /\ sent + 1 <= sent + n
    BY <1>2
  <2>2. \A i \in sent + 1 .. sent + n : frame[i] \in Symbols
    BY <1>1, <2>1
  <2>3. QED  BY <1>1, <1>2, <2>1, <2>2, SubSeqProperties
<1>4. QED  BY <1>2, <1>3

\* The initial states satisfy the inductive invariant.
LEMMA InitEstablishes == Init => BufferInv
<1> SUFFICES ASSUME Init PROVE BufferInv
  OBVIOUS
<1>1. buffer \in Seq(Symbols) /\ Len(buffer) <= MaxBuffer /\ text \in Seq(Symbols)
  BY FrameAssumption DEF Init
<1>2. quiet \in 0 .. Silence + 1 /\ sent \in 0 .. Len(frame)
  BY FrameAssumption DEF Init
<1>3. QED  BY <1>1, <1>2 DEF Init, BufferInv, TypeOK, BufferWaits

\* The two kinds of writes.
LEMMA WriteSteps ==
  ASSUME BufferInv, (\E n \in 1 .. Mtu : Write(n)) \/ (\E ch \in Symbols : Stray(ch))
  PROVE  BufferInv'
<1>1. CASE \E n \in 1 .. Mtu : Write(n)
  <2> PICK n \in 1 .. Mtu : Write(n)
    BY <1>1
  <2>1. sent + n <= Len(frame) /\ Handle(SubSeq(frame, sent + 1, sent + n))
    BY DEF Write
  <2>2. quiet' = 0 /\ sent' = sent + n /\ frame' = frame /\ fresh' = fresh
    BY DEF Write
  <2>3. 0 \in 0 .. Silence + 1
    BY FrameAssumption
  <2>4. sent' \in 0 .. Len(frame')
    BY <2>1, <2>2, PieceTyped DEF BufferInv
  <2>5. /\ buffer' \in Seq(Symbols) /\ Len(buffer') <= MaxBuffer
        /\ text' \in Seq(Symbols)
        /\ reply' \in {"none", "OK", "ERROR"}
        /\ BufferWaits'
    BY <2>1, PieceTyped, HandleKeeps DEF BufferInv
  <2>6. fresh \in BOOLEAN /\ frame \in Frames \cup KeyValues \cup {<<>>}
    BY DEF BufferInv, TypeOK
  <2>7. QED  BY <2>2, <2>3, <2>4, <2>5, <2>6 DEF BufferInv, TypeOK
<1>2. CASE \E ch \in Symbols : Stray(ch)
  <2> PICK ch \in Symbols : Stray(ch)
    BY <1>2
  <2>1. Handle(<<ch>>) /\ quiet' = 0 /\ frame' = <<>> /\ sent' = 0 /\ fresh' = FALSE
    BY DEF Stray
  <2>2. <<ch>> \in Seq(Symbols) /\ Len(<<ch>>) <= Mtu
    BY FrameAssumption
  <2>3. 0 \in 0 .. Silence + 1 /\ 0 \in 0 .. Len(<<>>)
    BY FrameAssumption
  <2>4. /\ buffer' \in Seq(Symbols) /\ Len(buffer') <= MaxBuffer
        /\ text' \in Seq(Symbols)
        /\ reply' \in {"none", "OK", "ERROR"}
        /\ BufferWaits'
    BY <2>1, <2>2, HandleKeeps
  <2>5. QED  BY <2>1, <2>3, <2>4 DEF BufferInv, TypeOK
<1>3. QED  BY <1>1, <1>2

\* The phone that begins, the clock and a new pairing.
LEMMA OtherSteps ==
  ASSUME BufferInv, \/ \E f \in Frames \cup KeyValues : Begin(f)
               \/ Tick \/ NewPairing \/ UNCHANGED vars
  PROVE  BufferInv'
<1>0. TypeOK /\ BufferWaits
  BY DEF BufferInv
<1>1. CASE \E f \in Frames \cup KeyValues : Begin(f)
  <2> PICK f \in Frames \cup KeyValues : Begin(f)
    BY <1>1
  <2>1. Len(f) \in Nat
    BY FrameAssumption
  <2>2. frame' \in Frames \cup KeyValues \cup {<<>>} /\ sent' \in 0 .. Len(frame')
    BY <2>1 DEF Begin
  <2>3. fresh' \in BOOLEAN
    BY DEF Begin
  <2>4. buffer' = buffer /\ quiet' = quiet /\ text' = text /\ reply' = "none"
    BY DEF Begin
  <2>5. TypeOK'
    BY <1>0, <2>2, <2>3, <2>4 DEF TypeOK
  <2>6. BufferWaits'
    BY <1>0, <2>4 DEF BufferWaits, StartsJson, IsComplete
  <2>7. QED  BY <2>5, <2>6 DEF BufferInv
<1>2. CASE Tick
  <2>1. quiet' \in 0 .. Silence + 1
    BY <1>0, <1>2, FrameAssumption DEF Tick, TypeOK
  <2>2. fresh' \in BOOLEAN
    BY <1>0, <1>2 DEF Tick, TypeOK
  <2>3. /\ buffer' = buffer /\ frame' = frame /\ sent' = sent
        /\ text' = text /\ reply' = reply
    BY <1>2 DEF Tick
  <2>4. TypeOK'
    BY <1>0, <2>1, <2>2, <2>3 DEF TypeOK
  <2>5. BufferWaits'
    BY <1>0, <2>3 DEF BufferWaits, StartsJson, IsComplete
  <2>6. QED  BY <2>4, <2>5 DEF BufferInv
<1>3. CASE NewPairing
  <2>1. /\ buffer' = <<>> /\ frame' = <<>> /\ sent' = 0 /\ fresh' = FALSE
        /\ reply' = "none" /\ quiet' = quiet /\ text' = text
    BY <1>3 DEF NewPairing
  <2>2. <<>> \in Seq(Symbols) /\ Len(<<>>) = 0 /\ 0 <= MaxBuffer /\ 0 \in 0 .. Len(<<>>)
    BY FrameAssumption
  <2>3. TypeOK'
    BY <1>0, <2>1, <2>2 DEF TypeOK
  <2>4. QED  BY <2>1, <2>3 DEF BufferInv, BufferWaits
<1>4. CASE UNCHANGED vars
  <2>1. TypeOK'
    BY <1>0, <1>4 DEF TypeOK, vars
  <2>2. BufferWaits'
    BY <1>0, <1>4 DEF BufferWaits, StartsJson, IsComplete, vars
  <2>3. QED  BY <2>1, <2>2 DEF BufferInv
<1>5. QED  BY <1>1, <1>2, <1>3, <1>4

\* What BufferInv says holds in every reachable state, whatever is written.
LEMMA BufferSafe == Spec => []BufferInv
<1>1. BufferInv /\ [Next]_vars => BufferInv'
  BY WriteSteps, OtherSteps DEF Next
<1>2. QED  BY InitEstablishes, <1>1, PTL DEF Spec

\* The buffer never holds more than its limit, whatever is written and whenever.
THEOREM BufferBounded == Spec => []TypeOK
<1>1. BufferInv => TypeOK
  BY DEF BufferInv
<1>2. QED  BY BufferSafe, <1>1, PTL

\* The buffer holds only the beginning of an object that has not ended.
THEOREM OnlyBeginnings == Spec => []BufferWaits
<1>1. BufferInv => BufferWaits
  BY DEF BufferInv
<1>2. QED  BY BufferSafe, <1>1, PTL

(***************************************************************************)
(* Delivery                                                                *)
(***************************************************************************)
\* The next piece of a frame that found no remains is joined to the rest of
\* it and to nothing else.
LEMMA Joined ==
  ASSUME IInv, fresh, frame \in Frames, NEW n \in 1 .. Mtu, sent + n <= Len(frame),
         StartsJson(frame)
  PROVE  LET piece == SubSeq(frame, sent + 1, sent + n)
         IN  /\ Kept(piece) \o piece = SubSeq(frame, 1, sent + n)
             /\ Kept(piece) # <<>> \/ StartsJson(piece)
<1> DEFINE piece == SubSeq(frame, sent + 1, sent + n)
<1>1. /\ frame \in Seq(Symbols) /\ Len(frame) <= MaxBuffer /\ MaxBuffer \in Nat
      /\ sent \in 0 .. Len(frame) /\ Len(frame) \in Nat /\ Mtu \in Nat
      /\ quiet \in Nat /\ Silence \in Nat
  BY FrameAssumption DEF IInv, TypeOK
<1>2. piece \in Seq(Symbols) /\ Len(piece) = n
  <2>1. \A i \in sent + 1 .. sent + n : frame[i] \in Symbols
    BY <1>1
  <2>2. QED  BY <1>1, <2>1, SubSeqProperties
<1>3. CASE sent = 0
  <2>1. Kept(piece) = <<>>
    BY <1>3 DEF IInv, Assembling, Kept
  <2>2. piece = SubSeq(frame, 1, n)
    BY <1>3
  <2>3. <<>> \o piece = piece
    BY <1>2
  <2>4. piece # <<>> /\ piece[1] = frame[1]
    BY <1>1, <1>2, <2>2, SubSeqProperties
  <2>5. StartsJson(piece)
    <3>1. frame[1] = Open
      BY <1>1 DEF StartsJson
    <3>2. Head(piece) = piece[1]
      BY <1>2, <2>4
    <3>3. QED  BY <2>4, <3>1, <3>2 DEF StartsJson
  <2>6. QED  BY <1>1, <1>3, <2>1, <2>2, <2>3, <2>5
<1>4. CASE sent # 0
  <2>1. buffer = SubSeq(frame, 1, sent) /\ quiet <= Silence
    <3>1. sent \in 1 .. Len(frame) - 1
      BY <1>1, <1>4
    <3>2. QED  BY <3>1 DEF IInv, Assembling
  <2>2. Len(buffer) = sent
    <3>1. \A i \in 1 .. sent : frame[i] \in Symbols
      BY <1>1
    <3>2. QED  BY <1>1, <2>1, <3>1, SubSeqProperties
  <2>3. Kept(piece) = buffer
    <3>1. ~(quiet > Silence) /\ ~(Len(buffer) + Len(piece) > MaxBuffer)
      BY <1>1, <1>2, <2>1, <2>2
    <3>2. QED  BY <3>1 DEF Kept
  <2>4. SubSeq(frame, 1, sent) \o piece = SubSeq(frame, 1, sent + n)
    <3>1. /\ 1 \in 1 .. Len(frame) + 1 /\ sent \in 1 - 1 .. Len(frame)
          /\ sent + n \in sent .. Len(frame)
      BY <1>1
    <3>2. QED  BY <1>1, <3>1, ConcatAdjacentSubSeq
  <2>5. buffer # <<>>
    BY <1>1, <1>4, <2>2
  <2>6. QED  BY <2>1, <2>3, <2>4, <2>5
<1>5. QED  BY <1>3, <1>4

\* So a piece that is not the last waits with what came before it, and the
\* last one hands the whole frame on and is answered, "OK" if the document of
\* the parser has room for it.
LEMMA PieceHandled ==
  ASSUME AllEndOnce, IInv, fresh, frame \in Frames, NEW n \in 1 .. Mtu, Write(n)
  PROVE  /\ sent + n < Len(frame) => buffer' = SubSeq(frame, 1, sent + n)
         /\ sent + n = Len(frame) =>
              /\ text' = frame /\ reply' # "none"
              /\ frame \in Fitting => reply' = "OK"
<1> DEFINE piece == SubSeq(frame, sent + 1, sent + n)
           joined == Kept(piece) \o piece
           waits  == (Kept(piece) # <<>> \/ StartsJson(piece)) /\ ~IsComplete(joined)
<1>1. /\ frame \in Seq(Symbols) /\ Len(frame) \in Nat
      /\ sent \in 0 .. Len(frame)
  BY FrameAssumption DEF IInv, TypeOK
<1>2. sent + n <= Len(frame) /\ Handle(piece)
  BY DEF Write
<1>3. /\ IsComplete(frame)
      /\ \A i \in 1 .. Len(frame) - 1 : ~IsComplete(SubSeq(frame, 1, i))
  BY DEF AllEndOnce, EndsOnce
<1>4. /\ joined = SubSeq(frame, 1, sent + n)
      /\ Kept(piece) # <<>> \/ StartsJson(piece)
  <2>1. StartsJson(frame)
    BY <1>3 DEF IsComplete
  <2>2. QED  BY <1>2, <2>1, Joined
<1>5. /\ text' = joined
      /\ buffer' = IF waits THEN joined ELSE <<>>
      /\ IF waits THEN reply' = "none" ELSE reply' \in Answers(joined)
  BY <1>2 DEF Handle
<1> HIDE DEF piece
<1>6. ASSUME sent + n < Len(frame)
      PROVE  buffer' = SubSeq(frame, 1, sent + n)
  <2>1. ~IsComplete(SubSeq(frame, 1, sent + n))
    BY <1>1, <1>3, <1>6
  <2>2. waits
    BY <1>4, <2>1
  <2>3. QED  BY <1>4, <1>5, <2>2
<1>7. ASSUME sent + n = Len(frame)
      PROVE  /\ text' = frame /\ reply' # "none"
             /\ frame \in Fitting => reply' = "OK"
  <2>1. joined = frame
    BY <1>1, <1>4, <1>7, SubSeqFull
  <2>2. ~waits
    BY <1>3, <2>1
  <2>3. IsPrefix(frame, frame)
    BY <1>1 DEF IsPrefix
  <2>4. Answers(frame) \subseteq {"OK", "ERROR"} /\ (frame \in Fitting => Answers(frame) = {"OK"})
    BY <2>3 DEF Answers
  <2>5. text' = frame /\ reply' \in Answers(frame)
    BY <1>5, <2>1, <2>2
  <2>6. QED  BY <2>4, <2>5
<1>8. QED  BY <1>6, <1>7

\* A write keeps the buffer what was written of the frame.
LEMMA WriteAssembles ==
  ASSUME AllEndOnce, IInv, NEW n \in 1 .. Mtu, Write(n)
  PROVE  Assembling'
<1>1. /\ quiet' = 0 /\ sent' = sent + n /\ frame' = frame /\ fresh' = fresh
      /\ sent + n <= Len(frame)
  BY DEF Write
<1>2. SUFFICES ASSUME fresh, frame \in Frames
               PROVE  /\ sent' # 0
                      /\ sent' \in 1 .. Len(frame) - 1 =>
                           buffer' = SubSeq(frame, 1, sent') /\ quiet' <= Silence
  BY <1>1 DEF Assembling
<1>3. sent \in Nat /\ Len(frame) \in Nat /\ Silence \in Nat
  BY <1>2, FrameAssumption DEF IInv, TypeOK
<1>4. sent + n < Len(frame) => buffer' = SubSeq(frame, 1, sent + n)
  BY <1>2, PieceHandled
<1>5. QED  BY <1>1, <1>3, <1>4

\* A silence that the phone could notice makes its frame a stale one.
LEMMA TickAssembles == ASSUME IInv, Tick PROVE Assembling'
<1>1. /\ quiet' = quiet + 1 /\ fresh' = (fresh /\ (buffer = <<>> \/ quiet' <= Silence))
      /\ buffer' = buffer /\ frame' = frame /\ sent' = sent
  BY DEF Tick
<1>2. SUFFICES ASSUME fresh, buffer = <<>> \/ quiet' <= Silence, frame \in Frames
               PROVE  /\ sent = 0 => buffer = <<>> \/ quiet' > Silence
                      /\ sent \in 1 .. Len(frame) - 1 =>
                           buffer = SubSeq(frame, 1, sent) /\ quiet' <= Silence
  BY <1>1 DEF Assembling
<1>3. /\ quiet \in Nat /\ Silence \in Nat /\ frame \in Seq(Symbols)
      /\ Len(frame) \in Nat
  BY <1>2, FrameAssumption DEF IInv, TypeOK
<1>4. sent = 0 => buffer = <<>> \/ quiet > Silence
  BY <1>2 DEF IInv, Assembling
<1>5. ASSUME sent \in 1 .. Len(frame) - 1
      PROVE  buffer = SubSeq(frame, 1, sent) /\ quiet' <= Silence
  <2>1. buffer = SubSeq(frame, 1, sent)
    BY <1>2, <1>5 DEF IInv, Assembling
  <2>2. Len(SubSeq(frame, 1, sent)) = sent
    <3>1. \A i \in 1 .. sent : frame[i] \in Symbols
      BY <1>3, <1>5
    <3>2. QED  BY <1>3, <1>5, <3>1, SubSeqProperties
  <2>3. buffer # <<>>
    BY <1>5, <2>1, <2>2
  <2>4. QED  BY <1>2, <2>1, <2>3
<1>6. QED  BY <1>1, <1>3, <1>4, <1>5

\* Every step keeps the inductive invariant.
LEMMA NextKeeps == ASSUME AllEndOnce, IInv, [Next]_vars PROVE IInv'
<1>1. TypeOK' /\ BufferWaits'
  <2>1. BufferInv
    BY DEF IInv, BufferInv
  <2>2. BufferInv'
    BY <2>1, WriteSteps, OtherSteps DEF Next
  <2>3. QED  BY <2>2 DEF BufferInv
<1>2. Assembling'
  <2>1. CASE \E f \in Frames \cup KeyValues : Begin(f)
    <3>1. sent' = 0 /\ (fresh' => buffer' = <<>> \/ quiet' > Silence)
      BY <2>1 DEF Begin
    <3>2. QED  BY <3>1 DEF Assembling
  <2>2. CASE \E n \in 1 .. Mtu : Write(n)
    BY <2>2, WriteAssembles
  <2>3. CASE (\E ch \in Symbols : Stray(ch)) \/ NewPairing
    <3>1. ~fresh'
      BY <2>3 DEF Stray, NewPairing
    <3>2. QED  BY <3>1 DEF Assembling
  <2>4. CASE Tick
    BY <2>4, TickAssembles
  <2>5. CASE UNCHANGED vars
    BY <2>5 DEF IInv, Assembling, vars
  <2>6. QED  BY <2>1, <2>2, <2>3, <2>4, <2>5 DEF Next
<1>3. QED  BY <1>1, <1>2 DEF IInv

\* Frames that are JSON objects end once.
LEMMA FramesEnd == ASSUME Frames \subseteq JsonObjects PROVE AllEndOnce
BY ObjectsEndOnce DEF AllEndOnce

\* isCompleteJsonObject() sees the end of what a phone sends at its last symbol
\* and no sooner, for any JSON objects.
THEOREM ScannerSeesTheEnd ==
  ASSUME Frames \subseteq JsonObjects
  PROVE  Spec => []FramesEndOnce
<1>1. FramesEndOnce
  BY FramesEnd DEF AllEndOnce, FramesEndOnce
<1>2. QED  BY <1>1, PTL

\* Types, the limit of the buffer and what waits in it, and that a frame which
\* found no remains is put together of its own pieces only, for any JSON objects.
THEOREM Safety ==
  ASSUME Frames \subseteq JsonObjects
  PROVE  Spec => []IInv
<1>1. Init => IInv
  <2>1. Init => Assembling
    BY DEF Init, Assembling
  <2>2. QED  BY <2>1, InitEstablishes DEF IInv, BufferInv
<1>2. IInv /\ [Next]_vars => IInv'
  BY FramesEnd, NextKeeps
<1>3. QED  BY <1>1, <1>2, PTL DEF Spec

\* A JSON object that found no remains and kept no silence is parsed as it was
\* sent and answered at its last piece, however it was cut, and taken if the
\* document of the parser has room for it.
THEOREM WholeFrameIsAnswered ==
  ASSUME Frames \subseteq JsonObjects
  PROVE  Spec => Delivered
<1>1. ASSUME IInv, [Next]_vars, WholeFrame
      PROVE  /\ text' = frame /\ reply' # "none"
             /\ frame \in Fitting => reply' = "OK"
  <2>0. fresh /\ frame \in Frames /\ frame' = frame /\ sent < sent' /\ sent' = Len(frame)
    BY <1>1 DEF WholeFrame
  <2>1. sent \in Nat
    BY <1>1, <2>0, FrameAssumption DEF IInv, TypeOK
  <2>2. \E n \in 1 .. Mtu : Write(n)
    <3>1. ~(\E f \in Frames \cup KeyValues : Begin(f))
      BY <2>0, <2>1 DEF Begin
    <3>2. ~(\E ch \in Symbols : Stray(ch)) /\ ~NewPairing
      <4>1. (\E ch \in Symbols : Stray(ch)) => sent' = 0
        BY DEF Stray
      <4>2. NewPairing => sent' = 0
        BY DEF NewPairing
      <4>3. QED  BY <2>0, <2>1, <4>1, <4>2
    <3>3. ~Tick /\ ~UNCHANGED vars
      <4>1. Tick => sent' = sent
        BY DEF Tick
      <4>2. UNCHANGED vars => sent' = sent
        BY DEF vars
      <4>3. QED  BY <2>0, <2>1, <4>1, <4>2
    <3>4. QED  BY <1>1, <3>1, <3>2, <3>3 DEF Next
  <2>3. PICK n \in 1 .. Mtu : Write(n)
    BY <2>2
  <2>4. sent' = sent + n
    BY <2>3 DEF Write
  <2>5. QED  BY <1>1, <2>0, <2>3, <2>4, FramesEnd, PieceHandled
<1>2. IInv /\ [Next]_vars =>
        [WholeFrame =>
           /\ text' = frame /\ reply' # "none"
           /\ frame \in Fitting => reply' = "OK"]_vars
  BY <1>1
<1>3. QED  BY Safety, <1>2, PTL DEF Spec, Delivered
=============================================================================
