------------------------------ MODULE BleFrame ------------------------------
(***************************************************************************)
(* The frame characteristic of the BLE portal (FrameCallback): a JSON      *)
(* object longer than one write arrives in chunks, which are put together  *)
(* in _rxFrameBuffer until isCompleteJsonObject() says that they end.      *)
(*                                                                         *)
(* The link delivers the writes of one connection in order. A connection   *)
(* may be lost between two chunks, another phone may come at any time, and *)
(* the buffer outlives both: only a silence, its limit or a new Quick      *)
(* Pairing empties it.                                                     *)
(*                                                                         *)
(* Of a text the braces, quotes and backslashes are kept.                  *)
(***************************************************************************)
EXTENDS Integers, FiniteSets, SequencesExt

CONSTANTS Frames,      \* JSON objects the app sends, as sequences of Symbols
          Fitting,     \* those of them whose values fit the 1024 bytes of the parser's document
          KeyValues,   \* Key=Value frames the app sends
          Mtu,         \* the longest write
          MaxBuffer,   \* 2048 in the code
          Silence      \* 4 s in the code, in ticks

Open  == "{"
Close == "}"
Quote == "quote"
Slash == "backslash"
Plain == "x"
Symbols == {Open, Close, Quote, Slash, Plain}

ASSUME FrameAssumption ==
    /\ Mtu \in Nat \ {0} /\ MaxBuffer \in Nat /\ Silence \in Nat
    /\ Mtu <= MaxBuffer
    /\ Fitting \subseteq Frames
    /\ \A f \in Frames : f \in Seq(Symbols) /\ Len(f) <= MaxBuffer
    /\ \A k \in KeyValues : k \in Seq(Symbols) /\ Len(k) \in 1 .. Mtu

VARIABLES
    buffer,   \* _rxFrameBuffer
    quiet,    \* ticks since _lastRxChunkMs
    frame,    \* what the phone sends; <<>> when it does not
    sent,     \* symbols of the frame written so far
    text,     \* what the last write handed to isCompleteJsonObject() or parseFrame()
    reply,    \* what the last write notified: "OK", "ERROR" or nothing
    fresh     \* history: the frame found the buffer empty or stale, and no silence since

vars == <<buffer, quiet, frame, sent, text, reply, fresh>>

(***************************************************************************)
(* isCompleteJsonObject()                                                  *)
(***************************************************************************)
\* inStr and esc make the place; it is "end" once the function returned true.
At(place, depth) == [place |-> place, depth |-> depth]

Start == At("object", 0)

Scan(s, ch) ==
    CASE s.place = "object" /\ ch = Quote -> At("string", s.depth)
      [] s.place = "object" /\ ch = Open  -> At("object", s.depth + 1)
      [] s.place = "object" /\ ch = Close ->
             At(IF s.depth = 1 THEN "end" ELSE "object", s.depth - 1)
      [] s.place = "string" /\ ch = Slash -> At("escape", s.depth)
      [] s.place = "string" /\ ch = Quote -> At("object", s.depth)
      [] s.place = "escape"               -> At("string", s.depth)
      [] OTHER                            -> s

StartsJson(t) == t # <<>> /\ Head(t) = Open

\* Faulty: the quotes are not looked at.
IsCompleteNoStrings(t) ==
    /\ StartsJson(t)
    /\ FoldLeft(LAMBDA s, ch : IF ch = Quote THEN s ELSE Scan(s, ch), Start, t).place = "end"

\* The state after the symbols of t, from s on.
After(s, t) ==
    LET run[i \in 0 .. Len(t)] == IF i = 0 THEN s ELSE Scan(run[i - 1], t[i])
    IN  run[Len(t)]

IsComplete(t) == StartsJson(t) /\ After(Start, t).place = "end"

(***************************************************************************)
(* FrameCallback::onWrite()                                                *)
(***************************************************************************)
\* Faulty: the limit is not looked at.
KeptNoLimit(val) == IF quiet > Silence THEN <<>> ELSE buffer

\* What is left of the buffer when a write comes.
Kept(val) ==
    IF quiet > Silence \/ Len(buffer) + Len(val) > MaxBuffer THEN <<>> ELSE buffer

\* parseFrame() takes the first object of the text and leaves what follows. An
\* object its document has no room for, and any other text that is not a
\* Key=Value frame of the app, is searched for Key=Value pairs, which may be
\* there: a JSON object with line breaks has some.
Answers(t) ==
    IF \E f \in Fitting \cup KeyValues : IsPrefix(f, t) THEN {"OK"} ELSE {"OK", "ERROR"}

\* The chunk joins what is kept; an object that is not complete waits for more.
Handle(val) ==
    LET joined == Kept(val) \o val
        waits  == (Kept(val) # <<>> \/ StartsJson(val)) /\ ~IsComplete(joined)
    IN /\ text' = joined
       /\ buffer' = IF waits THEN joined ELSE <<>>
       /\ IF waits THEN reply' = "none" ELSE reply' \in Answers(joined)

(***************************************************************************)
(* The phone and the clock.                                                *)
(***************************************************************************)
Init ==
    /\ buffer = <<>> /\ quiet = 0
    /\ frame = <<>> /\ sent = 0
    /\ text = <<>> /\ reply = "none" /\ fresh = FALSE

\* A phone begins to send a frame; the one before gave up, or was cut off.
Begin(f) ==
    /\ frame' = f /\ sent' = 0
    /\ fresh' = (buffer = <<>> \/ quiet > Silence)
    /\ reply' = "none"
    /\ UNCHANGED <<buffer, quiet, text>>

\* The next n symbols of the frame.
Write(n) ==
    /\ sent + n <= Len(frame)
    /\ Handle(SubSeq(frame, sent + 1, sent + n))
    /\ quiet' = 0
    /\ sent' = sent + n
    /\ UNCHANGED <<frame, fresh>>

\* A phone that writes something else.
Stray(ch) ==
    /\ Handle(<<ch>>)
    /\ quiet' = 0
    /\ frame' = <<>> /\ sent' = 0 /\ fresh' = FALSE

Tick ==
    /\ quiet <= Silence
    /\ quiet' = quiet + 1
    /\ fresh' = (fresh /\ (buffer = <<>> \/ quiet' <= Silence))
    /\ UNCHANGED <<buffer, frame, sent, text, reply>>

\* runQuickPairing() starts again.
NewPairing ==
    /\ buffer' = <<>> /\ frame' = <<>> /\ sent' = 0
    /\ fresh' = FALSE /\ reply' = "none"
    /\ UNCHANGED <<quiet, text>>

Next ==
    \/ \E f \in Frames \cup KeyValues : Begin(f)
    \/ \E n \in 1 .. Mtu : Write(n)
    \/ \E ch \in Symbols : Stray(ch)
    \/ Tick
    \/ NewPairing

Spec == Init /\ [][Next]_vars

(***************************************************************************)
(* Properties                                                              *)
(***************************************************************************)
\* README, GATT table: frames of 2048 bytes at most are put together; the
\* buffer never holds more, whatever is written.
TypeOK ==
    /\ buffer \in Seq(Symbols) /\ Len(buffer) <= MaxBuffer
    /\ quiet \in 0 .. Silence + 1
    /\ frame \in Frames \cup KeyValues \cup {<<>>} /\ sent \in 0 .. Len(frame)
    /\ text \in Seq(Symbols)
    /\ reply \in {"none", "OK", "ERROR"}
    /\ fresh \in BOOLEAN

\* What is in the buffer is the beginning of an object that has not ended: a
\* whole one is parsed at once and leaves nothing behind.
BufferWaits == buffer # <<>> => StartsJson(buffer) /\ ~IsComplete(buffer)

\* The last piece of a frame that found no remains of another one, and kept no
\* silence.
WholeFrame ==
    fresh /\ frame \in Frames /\ frame' = frame /\ sent < sent' /\ sent' = Len(frame)

\* Such a frame is handed to the parser as it was sent and answered at its last
\* chunk, however it was cut: with "OK" if the parser has room for it.
Delivered ==
    [][WholeFrame =>
         /\ text' = frame /\ reply' # "none"
         /\ frame \in Fitting => reply' = "OK"]_vars

\* The grammar of JSON, as far as these symbols tell it: numbers, literals,
\* brackets, colons and commas are Plain. Bodies are what strings hold, contents
\* what objects hold; each operator takes some of them and makes more.
Characters ==
    {<<ch>> : ch \in Symbols \ {Quote, Slash}} \cup {<<Slash, ch>> : ch \in Symbols}

MoreBodies(B) == {<<>>} \cup {b \o c : b \in B, c \in Characters}

Strings(B) == {<<Quote>> \o b \o <<Quote>> : b \in B}
Objects(C) == {<<Open>> \o c \o <<Close>> : c \in C}

MoreContents(C, B) ==
    {<<>>} \cup {c \o i : c \in C, i \in {<<Plain>>} \cup Strings(B) \cup Objects(C)}

\* isCompleteJsonObject() sees the end of the JSON object a phone sends at its
\* last symbol and no sooner, whatever braces, quotes and backslashes its
\* strings hold.
EndsOnce(f) == IsComplete(f) /\ \A n \in 1 .. Len(f) - 1 : ~IsComplete(SubSeq(f, 1, n))
FramesEndOnce == frame \in Frames => EndsOnce(frame)

(***************************************************************************)
(* The inductive invariant, for frames that end once                       *)
(***************************************************************************)
\* Of a frame that found no remains, the buffer is what was written.
Assembling ==
    fresh /\ frame \in Frames =>
        /\ sent = 0 => buffer = <<>> \/ quiet > Silence
        /\ sent \in 1 .. Len(frame) - 1 => buffer = SubSeq(frame, 1, sent) /\ quiet <= Silence

IInv == TypeOK /\ BufferWaits /\ Assembling
=============================================================================
