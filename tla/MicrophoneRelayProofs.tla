------------------------- MODULE MicrophoneRelayProofs -------------------------
(***************************************************************************)
(* Proofs about MicrophoneRelay: both ends agree between two records, and  *)
(* the audio keeps its order, for any blocks, queues and bounds.           *)
(*                                                                         *)
(* The invariant has two halves.  The conversation (Turns, Serving) is     *)
(* about the one record that is unanswered; what the capture does matters  *)
(* to it only by failing the sender.  The way of the audio (Apart, InOrder,*)
(* Sorted, Budget) is about the six stations that a unit passes; an action *)
(* moves some units from one station to the next, or drops them.           *)
(***************************************************************************)
EXTENDS MicrophoneRelay, SequenceTheorems, FiniteSetTheorems, TLAPS

-----------------------------------------------------------------------------
(* The inductive invariant *)

Reasons == {"none", "CONNECTION_CLOSED", "BUFFER_LIMIT", "SCOPE_MISMATCH",
            "SESSION_REJECTED", "MICROPHONE_OPEN_FAILED", "MICROPHONE_UNAVAILABLE",
            "STALE_SEQUENCE", "SEQUENCE_GAP", "UNEXPECTED_MESSAGE_ORDER",
            "GENERATION_MISMATCH", "STALE_GENERATION", "IO_TIMEOUT"}

SenderState ==
    [status : {"CONNECTING", "STREAMING", "PAUSED", "ENDED", "FAILED"},
     generation : 1..MaxGeneration, next : Nat \ {0}, queue : Seq(Records),
     failure : Reasons, closed : BOOLEAN,
     pc : {"connecting", "idle", "waiting", "resuming", "stopped"}, out : Records]

CaptureState ==
    [pc : {"none", "opening", "starting", "admitting", "checking", "getting", "filling",
           "numbering", "queueing", "settling", "setting", "stopped"},
     stream : {"none", "stopped", "running"}, opened : BOOLEAN, admitting : BOOLEAN,
     drained : BOOLEAN, overflow : BOOLEAN, stop : BOOLEAN, queue : Seq(AudioUnits),
     buffer : AudioUnits, rest : AudioUnits, held : Records,
     callback : {"out", "queueing", "full"}]

PageState ==
    [pc : {"idle", "stopping", "draining", "flushing", "numbering", "queueing", "control",
           "controlQueueing", "closing"},
     button : Buttons \cup {"none"}, held : Records, presses : 0..MaxPresses, early : BOOLEAN]

ReceiverState ==
    [pc : {"accepting", "waiting", "pausing", "stopped"},
     state : {"AWAIT_START", "STREAMING", "PAUSED", "ENDED", "FAILED"},
     generation : Nat, next : Nat, failure : Reasons, closed : BOOLEAN]

SessionState ==
    [status : {"new", "pending", "streaming", "pausing", "paused", "stopping", "completed",
               "closed"},
     generation : Nat]

AudioState == [captured : 0..MaxUnits, admitted : AudioUnits, acknowledged : AudioUnits]

AnswerRecord == [kind : {"ACK", "ERROR"}, seq : Nat]

ClientTypes ==
    /\ sender \in SenderState /\ Len(sender.queue) <= SenderDepth
    /\ capture \in CaptureState /\ Len(capture.queue) <= CaptureDepth
    /\ Len(capture.buffer) < ChunkUnits
    /\ page \in PageState
WireTypes ==
    /\ up \in Seq(Records) /\ down \in Seq(AnswerRecord)
    /\ link \in [client : BOOLEAN, server : BOOLEAN]
ServerTypes ==
    /\ receiver \in ReceiverState /\ session \in SessionState
    /\ dashboard \in {"idle", "finishing", "done"}

Types == ClientTypes /\ WireTypes /\ ServerTypes /\ audio \in AudioState

\* A record that has its number: only audio carries units, and only a RESUME
\* may be ahead of the sender's generation.
IsNumbered(record) ==
    /\ record.kind \in {"AUDIO"} \cup Buttons
    /\ record.kind # "AUDIO" => record.units = <<>>
    /\ record.kind # "RESUME" => record.generation <= sender.generation

\* What the three threads of the client hold between two steps.
SenderHolds ==
    /\ \A i \in DOMAIN sender.queue : IsNumbered(sender.queue[i])
    /\ sender.pc = "connecting" => sender.out = NoRecord
    /\ sender.pc \in {"idle", "waiting", "resuming"}
          => sender.out = StartRecord \/ IsNumbered(sender.out)
    /\ sender.pc = "resuming" => sender.out.kind = "RESUME"

CaptureHolds ==
    /\ capture.pc \notin {"numbering", "queueing"} => capture.held = NoRecord
    /\ capture.pc = "numbering" => capture.held.units # <<>>
    /\ capture.pc = "queueing" => IsNumbered(capture.held) /\ capture.held.kind = "AUDIO"

PageHolds ==
    /\ page.pc \notin {"numbering", "queueing", "controlQueueing"} => page.held = NoRecord
    /\ page.pc = "numbering" => page.held.units # <<>>
    /\ page.pc = "queueing" => IsNumbered(page.held) /\ page.held.kind = "AUDIO"
    /\ page.pc = "controlQueueing" => IsNumbered(page.held) /\ page.held.kind = page.button
    /\ page.pc = "closing" => page.button = "END"
    /\ page.pc \in {"stopping", "draining", "flushing", "numbering", "queueing"}
          => page.button \in {"PAUSE", "END"}
    /\ page.pc \in {"control", "controlQueueing"} => page.button \in Buttons

Holding == SenderHolds /\ CaptureHolds /\ PageHolds

\* A resume has a generation left to number, unless the one before it has come
\* through meanwhile; then no PAUSE is accepted that would let it be numbered.
Room ==
    page.pc = "control" /\ page.button = "RESUME" =>
        \/ sender.generation < MaxGeneration
        \/ /\ sender.status # "PAUSED"
           /\ \A i \in DOMAIN sender.queue : sender.queue[i].kind = "PAUSE"
                                                => sender.queue[i].generation < sender.generation
           /\ sender.pc = "waiting" /\ sender.out.kind = "PAUSE"
                 => sender.out.generation < sender.generation

-----------------------------------------------------------------------------
(* The conversation *)

StateAfter(kind) == CASE kind \in {"START", "RESUME", "AUDIO"} -> "STREAMING"
                      [] kind = "PAUSE" -> "PAUSED"
                      [] kind = "END" -> "ENDED"

\* The receiver has accepted the sender's record, and the sender will agree.
Accepting ==
    /\ sender.out.kind \in {"START", "AUDIO"} \cup Buttons
    /\ sender.out.kind \in {"START", "AUDIO", "PAUSE", "END"}
          => sender.generation = sender.out.generation
    /\ sender.out.kind = "RESUME" => sender.out.generation = sender.generation + 1
    /\ receiver.pc \in {"waiting", "pausing"} =>
          /\ receiver.next = sender.out.seq + 1
          /\ receiver.generation = sender.out.generation
          /\ receiver.state = StateAfter(sender.out.kind)
          /\ sender.out.kind = "AUDIO" /\ ~sender.closed => sender.status = "STREAMING"

\* Before the connection there is nothing to answer.
Unconnected ==
    /\ sender.pc = "connecting" => /\ up = <<>> /\ down = <<>>
                                   /\ receiver.pc \in {"accepting", "stopped"}
                                   /\ ~sender.closed => sender.status = "CONNECTING"
                                   /\ sender.generation = 1
                                   /\ audio.admitted = audio.acknowledged
    /\ receiver.pc = "accepting" => /\ sender.pc \in {"connecting", "stopped"}
                                    /\ up = <<>> /\ down = <<>>

\* Between two records both ends are of one mind.
Answered ==
    sender.pc \in {"idle", "resuming"} =>
        /\ up = <<>> /\ down = <<>> /\ receiver.pc \in {"waiting", "stopped"}
        /\ audio.admitted = audio.acknowledged
        /\ receiver.pc = "waiting" =>
              /\ receiver.next = sender.out.seq + 1
              /\ receiver.generation = sender.generation
              /\ receiver.state \in {"STREAMING", "PAUSED"}
              /\ ~sender.closed => sender.status = receiver.state

\* A record on the wire is the sender's, and the receiver has not seen it.
UnderWay ==
    up # <<>> =>
        /\ up = <<sender.out>> /\ down = <<>> /\ sender.pc \in {"waiting", "stopped"}
        /\ receiver.pc \in {"waiting", "stopped"}
        /\ audio.admitted = audio.acknowledged
        /\ sender.out = StartRecord \/ IsNumbered(sender.out)
        /\ receiver.pc = "waiting" =>
              \/ /\ receiver.state = "AWAIT_START" /\ sender.generation = 1
              \/ /\ receiver.state \in {"STREAMING", "PAUSED"}
                 /\ receiver.generation = sender.generation
                 /\ ~sender.closed => sender.status = receiver.state

\* An answer on the wire is the one to the sender's record.
Replied ==
    down # <<>> =>
        /\ up = <<>>
        /\ sender.pc \in {"waiting", "stopped"} /\ receiver.pc \in {"waiting", "stopped"}
        /\ \/ /\ down = <<[kind |-> "ACK", seq |-> sender.out.seq]>> /\ Accepting
              /\ audio.admitted = audio.acknowledged \o sender.out.units
           \/ /\ down = <<[kind |-> "ERROR", seq |-> sender.out.seq]>>
              /\ receiver.pc = "stopped"

\* A pause is answered when the session has come to rest.
PauseWaits ==
    receiver.pc = "pausing" =>
        /\ sender.pc \in {"waiting", "stopped"} /\ up = <<>> /\ down = <<>>
        /\ sender.out.kind = "PAUSE" /\ sender.out.units = <<>> /\ Accepting
        /\ audio.admitted = audio.acknowledged

\* At most one record is unanswered, wherever it is: on the wire, with the
\* receiver, answered, or lost.
Turns ==
    /\ Unconnected /\ Answered /\ UnderWay /\ Replied /\ PauseWaits
    /\ audio.admitted \in {audio.acknowledged, audio.acknowledged \o sender.out.units}

\* The receiver and its session.
Serving ==
    /\ receiver.pc = "accepting" => /\ receiver.state = "AWAIT_START" /\ receiver.next = 0
                                    /\ ~link.server
                                    /\ receiver.closed => session.status = "closed"
    /\ receiver.pc \in {"waiting", "pausing"} =>
          /\ receiver.state \notin {"ENDED", "FAILED"}
          /\ receiver.state # "AWAIT_START" => receiver.generation = session.generation
    /\ receiver.pc = "pausing" => receiver.state = "PAUSED"
    /\ receiver.state = "AWAIT_START" => session.generation = 1
    /\ receiver.state \notin {"AWAIT_START", "FAILED"} => session.status # "new"
    /\ receiver.pc = "stopped" =>
          /\ session.status \in {"stopping", "completed", "closed"}
          /\ receiver.state = "FAILED" => session.status = "closed"
          /\ ~link.server

-----------------------------------------------------------------------------
(* The way of the audio *)

Longest == (ChunkUnits - 1) \div (CaptureDepth + 1)

\* The page's thread has stopped the device and relies on it.
Resting == \/ page.pc \in {"draining", "flushing", "numbering", "queueing", "closing"}
           \/ page.pc \in {"control", "controlQueueing"} /\ page.button # "RESUME"

\* The pieces in the worker's hands and in its queue.
Pieces ==
    /\ capture.pc \in {"numbering", "queueing"} => capture.buffer = <<>>
    /\ capture.pc \notin {"filling", "numbering", "queueing"} => capture.rest = <<>>
    /\ Len(capture.rest) <= Longest
    /\ \A i \in DOMAIN capture.queue : Len(capture.queue[i]) <= Longest

\* The device is silent while the page's thread relies on it.
Silent ==
    /\ capture.pc \in {"none", "opening"} => capture.stream = "none"
    /\ page.pc # "idle" => capture.pc \notin {"opening", "starting", "admitting"}
    /\ capture.pc \in {"starting", "admitting"} => ~capture.stop
    /\ capture.callback # "out" => capture.stream = "running"
    /\ Resting => capture.stream # "running"

\* While the page's thread holds the rest of the buffer, the blocks that are left
\* do not make another chunk.
Leftover ==
    page.pc \in {"numbering", "queueing"} =>
        /\ capture.pc \notin {"numbering", "queueing"}
        /\ Len(capture.buffer) + Len(capture.rest) + Len(capture.queue) * Longest < ChunkUnits

\* How the page's thread, the worker and the device keep out of each other's
\* way, as long as no button comes early.
Apart == Pieces /\ (~page.early => Silent /\ Leftover)

\* What it means that one unit goes before another: a loose order only tells
\* them apart.
Precedes(loose, u, v) == u # v /\ (~loose => u < v)
Ahead(loose, S, T) == \A u \in S, v \in T : Precedes(loose, u, v)
Rising(loose, s) == \A i, j \in DOMAIN s : i < j => Precedes(loose, s[i], s[j])

\* A line of pieces of audio, the first of them in front.
All(line) == UNION {Range(line[i]) : i \in DOMAIN line}
InLine(loose, line) ==
    /\ \A i \in DOMAIN line : Rising(loose, line[i])
    /\ \A i, j \in DOMAIN line : i < j => Ahead(loose, Range(line[i]), Range(line[j]))

UnitsOf(records) == [i \in DOMAIN records |-> records[i].units]

\* The stations of a unit, from the receiver back to the device.
OnWire == IF up = <<>> THEN <<>> ELSE Head(up).units
Hand == capture.buffer \o capture.rest
Stations == <<Range(audio.admitted),
              Range(OnWire),
              All(UnitsOf(sender.queue)),
              Range(page.held.units) \cup Range(capture.held.units),
              Range(Hand),
              All(capture.queue)>>

Ordered(loose, st) == \A k, l \in 1 .. 6 : k < l => Ahead(loose, st[k], st[l])

InOrder == /\ Ordered(page.early, Stations)
           /\ \A k \in 1 .. 6 : Stations[k] \subseteq 1 .. audio.captured

\* The order inside each station; two records held at once come from a button
\* that was early, or one of them carries no audio.
Sorted ==
    /\ Rising(page.early, audio.admitted)
    /\ Rising(page.early, OnWire)
    /\ InLine(page.early, UnitsOf(sender.queue))
    /\ Rising(page.early, page.held.units) /\ Rising(page.early, capture.held.units)
    /\ \A u \in Range(page.held.units), v \in Range(capture.held.units) : u # v
    /\ Rising(page.early, Hand)
    /\ InLine(page.early, capture.queue)

\* Every number was paid for, by a unit of audio or a button.
Unnumbered == (IF page.pc = "numbering" THEN Range(page.held.units) ELSE {})
              \cup (IF capture.pc = "numbering" THEN Range(capture.held.units) ELSE {})
              \cup Range(Hand) \cup All(capture.queue)
Owing == IF page.pc \in {"idle", "controlQueueing", "closing"} THEN 0 ELSE 1
Budget == sender.next + Cardinality(Unnumbered) + Owing <= audio.captured + page.presses + 1

IInv == /\ Types /\ Holding /\ Room
        /\ Turns /\ Serving
        /\ Apart /\ InOrder /\ Sorted /\ Budget
-----------------------------------------------------------------------------
(* Pieces of audio in order *)

LEMMA SeqFacts ==
    ASSUME NEW S, NEW s \in Seq(S)
    PROVE  /\ Len(s) \in Nat /\ DOMAIN s = 1 .. Len(s)
           /\ \A i \in DOMAIN s : s[i] \in S
           /\ (s = <<>> <=> Len(s) = 0)
  <1>1. Len(s) \in Nat /\ DOMAIN s = 1 .. Len(s) /\ s \in [1 .. Len(s) -> S]
    BY LenProperties
  <1>2. s # <<>> => Len(s) \in Nat \ {0}
    BY EmptySeq
  <1>3. Len(<<>>) = 0
    BY EmptySeq
  <1> QED
    BY <1>1, <1>2, <1>3

LEMMA RangeOfEmpty == Range(<<>>) = {}
  BY DEF Range

\* A loose order asks less.
LEMMA Loosens ==
    ASSUME NEW loose \in BOOLEAN, NEW loose2 \in BOOLEAN, loose => loose2
    PROVE  /\ \A u, v : Precedes(loose, u, v) => Precedes(loose2, u, v)
           /\ \A S, T : Ahead(loose, S, T) => Ahead(loose2, S, T)
           /\ \A s : Rising(loose, s) => Rising(loose2, s)
           /\ \A line : InLine(loose, line) => InLine(loose2, line)
  <1>1. \A u, v : Precedes(loose, u, v) => Precedes(loose2, u, v)
    BY DEF Precedes
  <1>2. \A S, T : Ahead(loose, S, T) => Ahead(loose2, S, T)
    BY <1>1 DEF Ahead
  <1>3. \A s : Rising(loose, s) => Rising(loose2, s)
    BY <1>1 DEF Rising
  <1>4. \A line : InLine(loose, line) => InLine(loose2, line)
    BY <1>2, <1>3 DEF InLine
  <1> QED
    BY <1>1, <1>2, <1>3, <1>4

LEMMA AheadOfParts ==
    ASSUME NEW loose, NEW S, NEW T, Ahead(loose, S, T),
           NEW S2 \in SUBSET S, NEW T2 \in SUBSET T
    PROVE  Ahead(loose, S2, T2)
  BY DEF Ahead

LEMMA RisingEmpty == \A loose : Rising(loose, <<>>)
  BY DEF Rising

\* Two pieces in order, one ahead of the other, make one.
LEMMA RisingConcat ==
    ASSUME NEW loose, NEW S, NEW s \in Seq(S), NEW t \in Seq(S)
    PROVE  Rising(loose, s \o t) <=> /\ Rising(loose, s) /\ Rising(loose, t)
                                     /\ Ahead(loose, Range(s), Range(t))
  <1> DEFINE c == s \o t
  <1>1. /\ c \in Seq(S) /\ Len(c) = Len(s) + Len(t)
        /\ \A i \in 1 .. Len(s) + Len(t) :
              c[i] = IF i <= Len(s) THEN s[i] ELSE t[i - Len(s)]
    BY ConcatProperties
  <1>2. /\ Len(s) \in Nat /\ Len(t) \in Nat /\ DOMAIN s = 1 .. Len(s)
        /\ DOMAIN t = 1 .. Len(t) /\ DOMAIN c = 1 .. Len(s) + Len(t)
    BY <1>1, SeqFacts
  <1> HIDE DEF c
  <1>3. ASSUME Rising(loose, c)
        PROVE  /\ Rising(loose, s) /\ Rising(loose, t)
               /\ Ahead(loose, Range(s), Range(t))
    <2>1. Rising(loose, s)
      BY <1>1, <1>2, <1>3 DEF Rising
    <2>2. Rising(loose, t)
      <3> SUFFICES ASSUME NEW i \in 1 .. Len(t), NEW j \in 1 .. Len(t), i < j
                   PROVE  Precedes(loose, t[i], t[j])
        BY <1>2 DEF Rising
      <3>1. /\ Len(s) + i \in 1 .. Len(s) + Len(t) /\ Len(s) + j \in 1 .. Len(s) + Len(t)
            /\ Len(s) + i < Len(s) + j
        BY <1>2
      <3>2. c[Len(s) + i] = t[i] /\ c[Len(s) + j] = t[j]
        BY SMTT(40), <1>1, <1>2, <3>1
      <3> QED
        BY <1>2, <1>3, <3>1, <3>2 DEF Rising
    <2>3. Ahead(loose, Range(s), Range(t))
      <3> SUFFICES ASSUME NEW i \in 1 .. Len(s), NEW j \in 1 .. Len(t)
                   PROVE  Precedes(loose, s[i], t[j])
        BY <1>2 DEF Ahead, Range
      <3>1. /\ i \in 1 .. Len(s) + Len(t) /\ Len(s) + j \in 1 .. Len(s) + Len(t)
            /\ i < Len(s) + j
        BY <1>2
      <3>2. c[i] = s[i] /\ c[Len(s) + j] = t[j]
        BY SMTT(40), <1>1, <1>2, <3>1
      <3> QED
        BY <1>2, <1>3, <3>1, <3>2 DEF Rising
    <2> QED
      BY <2>1, <2>2, <2>3
  <1>4. ASSUME Rising(loose, s), Rising(loose, t), Ahead(loose, Range(s), Range(t))
        PROVE  Rising(loose, c)
    <2> SUFFICES ASSUME NEW i \in 1 .. Len(s) + Len(t), NEW j \in 1 .. Len(s) + Len(t),
                        i < j
                 PROVE  Precedes(loose, c[i], c[j])
      BY <1>2 DEF Rising
    <2>1. CASE j <= Len(s)
      BY <1>1, <1>2, <1>4, <2>1 DEF Rising
    <2>2. CASE i <= Len(s) /\ j > Len(s)
      <3>1. c[i] = s[i] /\ c[j] = t[j - Len(s)]
        BY <1>1, <1>2, <2>2
      <3>2. i \in 1 .. Len(s) /\ j - Len(s) \in 1 .. Len(t)
        BY <1>2, <2>2
      <3>3. s[i] \in Range(s) /\ t[j - Len(s)] \in Range(t)
        BY <1>2, <3>2 DEF Range
      <3> QED
        BY <1>4, <3>1, <3>3 DEF Ahead
    <2>3. CASE i > Len(s)
      <3>1. c[i] = t[i - Len(s)] /\ c[j] = t[j - Len(s)]
        BY <1>1, <1>2, <2>3
      <3>2. /\ i - Len(s) \in 1 .. Len(t) /\ j - Len(s) \in 1 .. Len(t)
            /\ i - Len(s) < j - Len(s)
        BY <1>2, <2>3
      <3> QED
        BY <1>2, <1>4, <3>1, <3>2 DEF Rising
    <2> QED
      BY <1>2, <2>1, <2>2, <2>3
  <1> QED
    BY <1>3, <1>4 DEF c

\* A piece cut in two.
LEMMA CutInTwo ==
    ASSUME NEW S, NEW s \in Seq(S), NEW n \in Nat, n <= Len(s)
    PROVE  /\ SubSeq(s, 1, n) \in Seq(S) /\ SubSeq(s, n + 1, Len(s)) \in Seq(S)
           /\ Len(SubSeq(s, 1, n)) = n /\ Len(SubSeq(s, n + 1, Len(s))) = Len(s) - n
           /\ SubSeq(s, 1, n) \o SubSeq(s, n + 1, Len(s)) = s
  <1>1. Len(s) \in Nat /\ \A i \in 1 .. Len(s) : s[i] \in S
    BY SeqFacts
  <1>2. SubSeq(s, 1, n) \in Seq(S) /\ Len(SubSeq(s, 1, n)) = n
    <2>1. \A i \in 1 .. n : s[i] \in S
      BY <1>1
    <2> QED
      BY <2>1, SubSeqProperties
  <1>3. SubSeq(s, n + 1, Len(s)) \in Seq(S) /\ Len(SubSeq(s, n + 1, Len(s))) = Len(s) - n
    <2>1. \A i \in n + 1 .. Len(s) : s[i] \in S
      BY <1>1
    <2>2. n + 1 \in Int /\ Len(s) \in Int
      BY <1>1
    <2>3. /\ SubSeq(s, n + 1, Len(s)) \in Seq(S)
          /\ Len(SubSeq(s, n + 1, Len(s))) =
                IF n + 1 <= Len(s) THEN Len(s) - (n + 1) + 1 ELSE 0
      BY <2>1, <2>2, SubSeqProperties
    <2> QED
      BY <1>1, <2>3
  <1>4. SubSeq(s, 1, n) \o SubSeq(s, n + 1, Len(s)) = s
    <2>1. 1 \in 1 .. Len(s) + 1 /\ n \in 1 - 1 .. Len(s) /\ Len(s) \in n .. Len(s)
      BY <1>1
    <2>2. SubSeq(s, 1, n) \o SubSeq(s, n + 1, Len(s)) = SubSeq(s, 1, Len(s))
      BY <2>1, ConcatAdjacentSubSeq
    <2> QED
      BY <2>2, SubSeqFull
  <1> QED
    BY <1>2, <1>3, <1>4

LEMMA AllOfEmpty == \A loose : All(<<>>) = {} /\ InLine(loose, <<>>)
  BY DEF All, InLine

\* A piece comes last into a line.
LEMMA LineAppends ==
    ASSUME NEW loose, NEW S, NEW line \in Seq(S), NEW s \in S
    PROVE  /\ All(Append(line, s)) = All(line) \cup Range(s)
           /\ InLine(loose, line) /\ Rising(loose, s) /\ Ahead(loose, All(line), Range(s))
                 => InLine(loose, Append(line, s))
  <1> DEFINE more == Append(line, s)
  <1>1. /\ Len(more) = Len(line) + 1 /\ more \in Seq(S)
        /\ \A i \in 1 .. Len(line) : more[i] = line[i]
        /\ more[Len(line) + 1] = s
    BY AppendProperties
  <1>2. /\ Len(line) \in Nat /\ DOMAIN line = 1 .. Len(line)
        /\ DOMAIN more = 1 .. Len(line) + 1
    BY <1>1, SeqFacts
  <1> HIDE DEF more
  <1>3. All(more) = All(line) \cup Range(s)
    <2>1. \A i \in 1 .. Len(line) + 1 : i \in 1 .. Len(line) \/ i = Len(line) + 1
      BY <1>2
    <2>2. 1 .. Len(line) \subseteq 1 .. Len(line) + 1 /\ Len(line) + 1 \in 1 .. Len(line) + 1
      BY <1>2
    <2> QED
      BY <1>1, <1>2, <2>1, <2>2 DEF All
  <1>4. ASSUME InLine(loose, line), Rising(loose, s), Ahead(loose, All(line), Range(s))
        PROVE  InLine(loose, more)
    <2>1. \A i \in DOMAIN more : Rising(loose, more[i])
      <3> SUFFICES ASSUME NEW i \in 1 .. Len(line) + 1
                   PROVE  Rising(loose, more[i])
        BY <1>2
      <3>1. i \in 1 .. Len(line) \/ i = Len(line) + 1
        BY <1>2
      <3> QED
        BY <1>1, <1>2, <1>4, <3>1 DEF InLine
    <2>2. ASSUME NEW i \in DOMAIN more, NEW j \in DOMAIN more, i < j
          PROVE  Ahead(loose, Range(more[i]), Range(more[j]))
      <3>1. i \in 1 .. Len(line) /\ (j \in 1 .. Len(line) \/ j = Len(line) + 1)
        BY <1>2, <2>2
      <3>2. CASE j \in 1 .. Len(line)
        BY <1>1, <1>2, <1>4, <2>2, <3>1, <3>2 DEF InLine
      <3>3. CASE j = Len(line) + 1
        <4>1. more[i] = line[i] /\ more[j] = s
          BY <1>1, <3>1, <3>3
        <4>2. Range(line[i]) \subseteq All(line)
          BY <1>2, <3>1 DEF All
        <4> QED
          BY <1>4, <4>1, <4>2 DEF Ahead
      <3> QED
        BY <3>1, <3>2, <3>3
    <2> QED
      BY <2>1, <2>2 DEF InLine
  <1> QED
    BY <1>3, <1>4 DEF more

\* The first piece leaves a line.
LEMMA LineMovesOn ==
    ASSUME NEW loose, NEW S, NEW line \in Seq(S), line # <<>>
    PROVE  /\ All(line) = Range(Head(line)) \cup All(Tail(line))
           /\ InLine(loose, line) => /\ InLine(loose, Tail(line))
                                     /\ Rising(loose, Head(line))
                                     /\ Ahead(loose, Range(Head(line)), All(Tail(line)))
  <1> DEFINE rest == Tail(line)
  <1>1. /\ rest \in Seq(S) /\ Len(rest) = Len(line) - 1
        /\ \A i \in 1 .. Len(rest) : rest[i] = line[i+1]
    BY HeadTailProperties
  <1>2. /\ Len(line) \in Nat \ {0} /\ DOMAIN line = 1 .. Len(line)
        /\ DOMAIN rest = 1 .. Len(line) - 1 /\ 1 \in DOMAIN line
    <2>1. /\ Len(line) \in Nat /\ DOMAIN line = 1 .. Len(line) /\ Len(line) # 0
          /\ DOMAIN rest = 1 .. Len(rest)
      BY <1>1, SeqFacts
    <2> QED
      BY <2>1, <1>1
  <1>3. Head(line) = line[1]
    OBVIOUS
  <1> HIDE DEF rest
  <1>4. /\ \A i \in 1 .. Len(line) : i = 1 \/ (i - 1 \in 1 .. Len(line) - 1 /\ (i - 1) + 1 = i)
        /\ \A i \in 1 .. Len(line) - 1 : i + 1 \in 1 .. Len(line) /\ 1 < i + 1
        /\ \A i, j \in 1 .. Len(line) - 1 : i < j => i + 1 < j + 1
    BY <1>2
  <1>5. All(line) = Range(line[1]) \cup All(rest)
    <2>1. ASSUME NEW u \in All(line)
          PROVE  u \in Range(line[1]) \cup All(rest)
      <3>1. PICK i \in 1 .. Len(line) : u \in Range(line[i])
        BY <1>2, <2>1 DEF All
      <3>2. CASE i = 1
        BY <3>1, <3>2
      <3>3. CASE i - 1 \in 1 .. Len(line) - 1 /\ (i - 1) + 1 = i
        <4>1. rest[i - 1] = line[i]
          BY <1>1, <3>3
        <4> QED
          BY <1>2, <3>1, <3>3, <4>1 DEF All
      <3> QED
        BY <1>4, <3>2, <3>3
    <2>2. Range(line[1]) \subseteq All(line)
      BY <1>2 DEF All
    <2>3. All(rest) \subseteq All(line)
      BY <1>1, <1>2, <1>4 DEF All
    <2> QED
      BY <2>1, <2>2, <2>3
  <1>6. ASSUME InLine(loose, line)
        PROVE  /\ InLine(loose, rest) /\ Rising(loose, line[1])
               /\ Ahead(loose, Range(line[1]), All(rest))
    <2>1. InLine(loose, rest)
      <3>1. \A i \in 1 .. Len(line) - 1 : Rising(loose, rest[i])
        BY <1>1, <1>2, <1>4, <1>6 DEF InLine
      <3>2. ASSUME NEW i \in 1 .. Len(line) - 1, NEW j \in 1 .. Len(line) - 1, i < j
            PROVE  Ahead(loose, Range(rest[i]), Range(rest[j]))
        <4>1. rest[i] = line[i+1] /\ rest[j] = line[j+1]
          BY <1>1
        <4>2. i + 1 \in DOMAIN line /\ j + 1 \in DOMAIN line /\ i + 1 < j + 1
          BY <1>2, <1>4, <3>2
        <4> QED
          BY <1>6, <4>1, <4>2 DEF InLine
      <3> QED
        BY <1>2, <3>1, <3>2 DEF InLine
    <2>2. Rising(loose, line[1])
      BY <1>2, <1>6 DEF InLine
    <2>3. \A i \in 1 .. Len(line) - 1 : Ahead(loose, Range(line[1]), Range(rest[i]))
      BY <1>1, <1>2, <1>4, <1>6 DEF InLine
    <2>4. Ahead(loose, Range(line[1]), All(rest))
      BY <1>2, <2>3 DEF Ahead, All
    <2> QED
      BY <2>1, <2>2, <2>4
  <1> QED
    BY <1>3, <1>5, <1>6 DEF rest

\* The units of a queue of records.
LEMMA UnitsOfQueue ==
    ASSUME NEW queue \in Seq(Records)
    PROVE  /\ UnitsOf(queue) \in Seq(AudioUnits)
           /\ UnitsOf(queue) = <<>> <=> queue = <<>>
           /\ \A record \in Records :
                 UnitsOf(Append(queue, record)) = Append(UnitsOf(queue), record.units)
           /\ queue # <<>> => /\ Head(UnitsOf(queue)) = Head(queue).units
                              /\ UnitsOf(Tail(queue)) = Tail(UnitsOf(queue))
  <1> DEFINE line == UnitsOf(queue)
  <1>1. /\ Len(queue) \in Nat /\ DOMAIN queue = 1 .. Len(queue)
        /\ \A i \in 1 .. Len(queue) : queue[i] \in Records
        /\ (queue = <<>> <=> Len(queue) = 0)
    BY SeqFacts
  <1>2. \A record \in Records : record.units \in AudioUnits
    BY DEF Records
  <1>3. line = [i \in 1 .. Len(queue) |-> queue[i].units]
    BY <1>1 DEF UnitsOf
  <1>4. line \in Seq(AudioUnits) /\ Len(line) = Len(queue)
    BY <1>1, <1>2, <1>3
  <1>5. line = <<>> <=> queue = <<>>
    BY <1>1, <1>4, SeqFacts
  <1>6. ASSUME NEW record \in Records
        PROVE  UnitsOf(Append(queue, record)) = Append(line, record.units)
    <2> DEFINE more == Append(queue, record)
    <2>1. /\ more \in Seq(Records) /\ Len(more) = Len(queue) + 1
          /\ \A i \in 1 .. Len(queue) : more[i] = queue[i]
          /\ more[Len(queue) + 1] = record
      BY AppendProperties
    <2>2. /\ Append(line, record.units) \in Seq(AudioUnits)
          /\ Len(Append(line, record.units)) = Len(queue) + 1
          /\ \A i \in 1 .. Len(queue) : Append(line, record.units)[i] = line[i]
          /\ Append(line, record.units)[Len(queue) + 1] = record.units
      BY <1>2, <1>4, AppendProperties
    <2> HIDE DEF more, line
    <2>3. /\ DOMAIN more = 1 .. Len(queue) + 1
          /\ \A i \in 1 .. Len(queue) + 1 : more[i] \in Records
      BY <2>1, SeqFacts
    <2>4. UnitsOf(more) = [i \in 1 .. Len(queue) + 1 |-> more[i].units]
      BY <2>3 DEF UnitsOf
    <2>5. UnitsOf(more) \in Seq(AudioUnits) /\ Len(UnitsOf(more)) = Len(queue) + 1
      BY <1>1, <1>2, <2>3, <2>4
    <2>6. \A i \in 1 .. Len(queue) + 1 : UnitsOf(more)[i] = Append(line, record.units)[i]
      <3> SUFFICES ASSUME NEW i \in 1 .. Len(queue) + 1
                   PROVE  UnitsOf(more)[i] = Append(line, record.units)[i]
        OBVIOUS
      <3>1. i \in 1 .. Len(queue) \/ i = Len(queue) + 1
        BY <1>1
      <3>2. UnitsOf(more)[i] = more[i].units
        BY <2>4
      <3> QED
        BY <1>3, <2>1, <2>2, <3>1, <3>2
    <2> QED
      BY <2>2, <2>5, <2>6, SeqEqual DEF more
  <1>7. ASSUME queue # <<>>
        PROVE  Head(line) = Head(queue).units /\ UnitsOf(Tail(queue)) = Tail(line)
    <2> DEFINE rest == Tail(queue)
    <2>1. /\ rest \in Seq(Records) /\ Len(rest) = Len(queue) - 1
          /\ \A i \in 1 .. Len(rest) : rest[i] = queue[i+1]
      BY <1>7, HeadTailProperties
    <2>2. /\ Tail(line) \in Seq(AudioUnits) /\ Len(Tail(line)) = Len(queue) - 1
          /\ \A i \in 1 .. Len(queue) - 1 : Tail(line)[i] = line[i+1]
      BY <1>4, <1>5, <1>7, HeadTailProperties
    <2>3. Len(queue) \in Nat \ {0}
      BY <1>1, <1>7
    <2>4. Head(line) = Head(queue).units
      <3>1. Head(line) = line[1] /\ Head(queue) = queue[1] /\ 1 \in 1 .. Len(queue)
        BY <2>3
      <3> QED
        BY <1>3, <3>1
    <2> HIDE DEF rest, line
    <2>5. DOMAIN rest = 1 .. Len(queue) - 1 /\ \A i \in 1 .. Len(queue) - 1 : rest[i] \in Records
      BY <2>1, SeqFacts
    <2>6. UnitsOf(rest) = [i \in 1 .. Len(queue) - 1 |-> rest[i].units]
      BY <2>5 DEF UnitsOf
    <2>7. UnitsOf(rest) \in Seq(AudioUnits) /\ Len(UnitsOf(rest)) = Len(queue) - 1
      BY <1>2, <2>3, <2>5, <2>6
    <2>8. \A i \in 1 .. Len(queue) - 1 : UnitsOf(rest)[i] = Tail(line)[i]
      BY <1>3, <2>1, <2>2, <2>3, <2>6
    <2> QED
      BY <2>2, <2>4, <2>7, <2>8, SeqEqual DEF rest
  <1> QED
    BY <1>4, <1>5, <1>6, <1>7

\* The units M leave station n for the one before it; elsewhere units may only
\* be dropped.
LEMMA MovesOn ==
    ASSUME NEW loose \in BOOLEAN, NEW loose2 \in BOOLEAN, loose => loose2,
           NEW S, NEW T, Ordered(loose, S), NEW n \in 2 .. 6, NEW M, M \subseteq S[n],
           \A k \in 1 .. 6 : k # n - 1 => T[k] \subseteq S[k],
           T[n-1] \subseteq S[n-1] \cup M,
           Ahead(loose, M, T[n])
    PROVE  Ordered(loose2, T)
  <1> SUFFICES ASSUME NEW k \in 1 .. 6, NEW l \in 1 .. 6, k < l
               PROVE  Ahead(loose, T[k], T[l])
    BY Loosens DEF Ordered
  <1>1. \A i, j \in 1 .. 6 : i < j => \A u \in S[i], v \in S[j] : Precedes(loose, u, v)
    BY DEF Ordered, Ahead
  <1>2. n \in 1 .. 6 /\ n - 1 \in 1 .. 6 /\ n - 1 < n
    OBVIOUS
  <1>3. CASE k # n - 1 /\ l # n - 1
    BY <1>1, <1>3 DEF Ahead
  <1>4. CASE k = n - 1
    <2>1. l # n - 1 /\ n <= l
      BY <1>4
    <2>2. T[k] \subseteq S[n-1] \cup M /\ T[l] \subseteq S[l]
      BY <1>4, <2>1
    <2>3. \A u \in S[n-1], v \in S[l] : Precedes(loose, u, v)
      BY <1>1, <1>2, <1>4
    <2>4. \A u \in M, v \in T[l] : Precedes(loose, u, v)
      <3>1. CASE l = n
        BY <3>1 DEF Ahead
      <3>2. CASE n < l
        BY <1>1, <1>2, <2>2, <3>2
      <3> QED
        BY <2>1, <3>1, <3>2
    <2> QED
      BY <2>2, <2>3, <2>4 DEF Ahead
  <1>5. CASE l = n - 1
    <2>1. k # n - 1 /\ k < n
      BY <1>5
    <2>2. T[l] \subseteq S[n-1] \cup M /\ T[k] \subseteq S[k]
      BY <1>5, <2>1
    <2> QED
      BY <1>1, <1>2, <1>5, <2>1, <2>2 DEF Ahead
  <1> QED
    BY <1>3, <1>4, <1>5

LEMMA OnlyDrops ==
    ASSUME NEW loose \in BOOLEAN, NEW loose2 \in BOOLEAN, loose => loose2,
           NEW S, NEW T, Ordered(loose, S), \A k \in 1 .. 6 : T[k] \subseteq S[k]
    PROVE  Ordered(loose2, T)
  <1>1. ASSUME NEW k \in 1 .. 6, NEW l \in 1 .. 6, k < l
        PROVE  Ahead(loose, T[k], T[l])
    BY <1>1 DEF Ordered, Ahead
  <1> QED
    BY <1>1, Loosens DEF Ordered

-----------------------------------------------------------------------------
(* Constants and single steps of the sender *)

LEMMA DivFacts ==
    ASSUME NEW a \in Nat, NEW b \in Nat \ {0}
    PROVE  /\ a \div b \in Nat /\ b * (a \div b) <= a
           /\ \A n \in Nat : b * n <= a => n <= a \div b
  <1> DEFINE q == a \div b
  <1>1. q \in Int /\ a % b \in 0 .. b - 1 /\ a = b * q + (a % b)
    OBVIOUS
  <1>2. q \in Nat
    <2>1. CASE q < 0
      BY <2>1, <1>1
    <2> QED
      BY <1>1, <2>1
  <1>3. b * q <= a
    BY <1>1
  <1>4. ASSUME NEW n \in Nat, b * n <= a
        PROVE  n <= q
    BY <1>1, <1>4
  <1> QED
    BY <1>2, <1>3, <1>4

\* The blocks in the queue and the one in hand do not fill a chunk.
LEMMA BlocksAreShort ==
    /\ ChunkUnits \in Nat \ {0} /\ CaptureDepth \in Nat \ {0} /\ SenderDepth \in Nat \ {0}
    /\ MaxUnits \in Nat /\ MaxGeneration \in Nat \ {0} /\ MaxPresses \in Nat
    /\ Longest \in Nat
    /\ \A n \in BlockSizes : n \in Nat \ {0} /\ n <= Longest
    /\ \A k \in 0 .. CaptureDepth : k * Longest \in Nat /\ Longest + k * Longest < ChunkUnits
    /\ \A k \in Nat \ {0} : (k - 1) * Longest + Longest = k * Longest
  <1>1. /\ ChunkUnits \in Nat \ {0} /\ CaptureDepth \in Nat \ {0} /\ SenderDepth \in Nat \ {0}
        /\ MaxUnits \in Nat /\ MaxGeneration \in Nat \ {0} /\ MaxPresses \in Nat
        /\ \A n \in BlockSizes : n \in Nat \ {0} /\ (CaptureDepth + 1) * n < ChunkUnits
    BY RelayAssumption
  <1>2. ChunkUnits - 1 \in Nat /\ CaptureDepth + 1 \in Nat \ {0}
    BY <1>1
  <1>3. /\ Longest \in Nat /\ (CaptureDepth + 1) * Longest <= ChunkUnits - 1
        /\ \A n \in Nat : (CaptureDepth + 1) * n <= ChunkUnits - 1 => n <= Longest
    BY <1>2, DivFacts DEF Longest
  <1>4. ASSUME NEW n \in BlockSizes
        PROVE  n \in Nat \ {0} /\ n <= Longest
    <2>1. n \in Nat \ {0} /\ (CaptureDepth + 1) * n < ChunkUnits
      BY <1>1
    <2>2. (CaptureDepth + 1) * n \in Nat
      BY <1>1, <2>1
    <2>3. (CaptureDepth + 1) * n <= ChunkUnits - 1
      BY <1>1, <2>1, <2>2
    <2> QED
      BY <1>3, <2>1, <2>3
  <1>5. ASSUME NEW k \in 0 .. CaptureDepth
        PROVE  k * Longest \in Nat /\ Longest + k * Longest < ChunkUnits
    <2>1. k \in Nat /\ k <= CaptureDepth
      BY <1>1
    <2>2. k * Longest \in Nat /\ CaptureDepth * Longest \in Nat
      BY <1>1, <1>3, <2>1
    <2>3. k * Longest <= CaptureDepth * Longest
      BY <1>1, <1>3, <2>1
    <2>4. (CaptureDepth + 1) * Longest = CaptureDepth * Longest + Longest
      BY <1>1, <1>3
    <2> QED
      BY <1>1, <1>3, <2>2, <2>3, <2>4
  <1>6. \A k \in Nat \ {0} : (k - 1) * Longest + Longest = k * Longest
    BY <1>3
  <1> QED
    BY <1>1, <1>3, <1>4, <1>5, <1>6

LEMMA NoRecordFacts ==
    /\ NoRecord \in Records /\ NoRecord.units = <<>> /\ NoRecord.kind = "none"
    /\ StartRecord \in Records /\ StartRecord.units = <<>> /\ StartRecord.kind = "START"
    /\ StartRecord.seq = 0 /\ StartRecord.generation = 1
    /\ <<>> \in AudioUnits
  <1>1. <<>> \in AudioUnits
    BY DEF AudioUnits
  <1>2. 0 \in 0 .. MaxUnits + MaxPresses /\ 0 \in 0 .. MaxGeneration /\ 1 \in 0 .. MaxGeneration
    BY BlocksAreShort
  <1>3. "none" \in Kinds \cup {"none"} /\ "START" \in Kinds \cup {"none"}
    BY DEF Kinds
  <1> QED
    BY <1>1, <1>2, <1>3 DEF NoRecord, StartRecord, Record, Records

LEMMA RecordFacts ==
    ASSUME NEW kind, NEW seq, NEW generation, NEW units
    PROVE  /\ Record(kind, seq, generation, units).kind = kind
           /\ Record(kind, seq, generation, units).seq = seq
           /\ Record(kind, seq, generation, units).generation = generation
           /\ Record(kind, seq, generation, units).units = units
           /\ /\ kind \in Kinds \cup {"none"} /\ seq \in 0 .. MaxUnits + MaxPresses
              /\ generation \in 0 .. MaxGeneration /\ units \in AudioUnits
              => Record(kind, seq, generation, units) \in Records
  BY DEF Record, Records

LEMMA FieldsOfRecords ==
    ASSUME NEW record \in Records
    PROVE  /\ record.kind \in Kinds \cup {"none"} /\ record.seq \in 0 .. MaxUnits + MaxPresses
           /\ record.seq \in Nat /\ record.generation \in 0 .. MaxGeneration
           /\ record.generation \in Nat /\ record.units \in AudioUnits
  BY BlocksAreShort DEF Records

\* The sender keeps its work and at most fails.
MayFail(s, t) ==
    /\ t.out = s.out /\ t.generation = s.generation /\ t.next = s.next
    /\ \/ t.status = s.status /\ t.closed = s.closed /\ t.failure = s.failure
       \/ t.status = "FAILED" /\ t.closed = TRUE

LEMMA FailedFacts ==
    ASSUME sender \in SenderState, NEW reason \in Reasons
    PROVE  /\ Failed(sender, reason) \in SenderState
           /\ MayFail(sender, Failed(sender, reason))
           /\ Failed(sender, reason).pc = sender.pc
           /\ Failed(sender, reason).queue = sender.queue
  BY DEF Failed, SenderState, MayFail

LEMMA FailAndCloseFacts ==
    ASSUME sender \in SenderState, link \in [client : BOOLEAN, server : BOOLEAN],
           NEW reason \in Reasons, FailAndClose(reason)
    PROVE  /\ sender' \in SenderState /\ MayFail(sender, sender')
           /\ sender'.pc = sender.pc /\ sender'.queue = sender.queue
           /\ link' \in [client : BOOLEAN, server : BOOLEAN] /\ link'.server = link.server
  BY FailedFacts DEF FailAndClose

LEMMA GiveUpFacts ==
    ASSUME sender \in SenderState, link \in [client : BOOLEAN, server : BOOLEAN],
           NEW reason \in Reasons, GiveUp(reason)
    PROVE  /\ sender' \in SenderState /\ MayFail(sender, sender')
           /\ sender'.pc = "stopped" /\ sender'.queue = sender.queue
           /\ link' \in [client : BOOLEAN, server : BOOLEAN] /\ link'.server = link.server
  <1> DEFINE f == Failed(sender, reason)
  <1>1. /\ f \in SenderState /\ MayFail(sender, f) /\ f.queue = sender.queue
    BY FailedFacts
  <1>2. sender' = [f EXCEPT !.pc = "stopped"] /\ link' = [link EXCEPT !.client = FALSE]
    BY DEF GiveUp
  <1> HIDE DEF f
  <1>3. /\ sender' \in SenderState /\ sender'.pc = "stopped" /\ sender'.queue = f.queue
        /\ sender'.out = f.out /\ sender'.generation = f.generation /\ sender'.next = f.next
        /\ sender'.status = f.status /\ sender'.closed = f.closed
        /\ sender'.failure = f.failure
    BY <1>1, <1>2 DEF SenderState
  <1> QED
    BY <1>1, <1>2, <1>3 DEF MayFail

LEMMA EnqueuedFacts ==
    ASSUME sender \in SenderState, Len(sender.queue) <= SenderDepth,
           NEW record \in Records, sender' = Enqueued(record)
    PROVE  /\ sender' \in SenderState /\ Len(sender'.queue) <= SenderDepth
           /\ MayFail(sender, sender') /\ sender'.pc = sender.pc
           /\ sender'.queue = IF HasRoom THEN Append(sender.queue, record) ELSE sender.queue
           /\ HasRoom => sender'.status = sender.status /\ sender'.closed = sender.closed
  <1>1. /\ sender.queue \in Seq(Records) /\ Len(sender.queue) \in Nat
    BY SeqFacts DEF SenderState
  <1>2. CASE HasRoom
    <2>1. /\ Append(sender.queue, record) \in Seq(Records)
          /\ Len(Append(sender.queue, record)) = Len(sender.queue) + 1
      BY <1>1, AppendProperties
    <2>2. sender' = [sender EXCEPT !.queue = Append(@, record)]
      BY <1>2 DEF Enqueued, HasRoom
    <2>3. /\ sender' \in SenderState /\ sender'.queue = Append(sender.queue, record)
          /\ sender'.pc = sender.pc /\ sender'.out = sender.out
          /\ sender'.generation = sender.generation /\ sender'.next = sender.next
          /\ sender'.status = sender.status /\ sender'.closed = sender.closed
          /\ sender'.failure = sender.failure
      BY <2>1, <2>2 DEF SenderState
    <2> QED
      BY <1>1, <1>2, <2>1, <2>3, BlocksAreShort DEF MayFail, HasRoom
  <1>3. CASE ~HasRoom
    <2>1. sender' = Failed(sender, "BUFFER_LIMIT")
      BY <1>3 DEF Enqueued, HasRoom
    <2>2. "BUFFER_LIMIT" \in Reasons
      BY DEF Reasons
    <2> QED
      BY <1>3, <2>1, <2>2, FailedFacts
  <1> QED
    BY <1>2, <1>3

-----------------------------------------------------------------------------
(* Types *)

LEMMA QueueFacts ==
    ASSUME Types
    PROVE  /\ sender.queue \in Seq(Records) /\ capture.queue \in Seq(AudioUnits)
           /\ capture.buffer \in AudioUnits /\ capture.rest \in AudioUnits
           /\ capture.held \in Records /\ page.held \in Records /\ sender.out \in Records
           /\ up \in Seq(Records) /\ down \in Seq(AnswerRecord)
           /\ audio.admitted \in AudioUnits /\ audio.acknowledged \in AudioUnits
           /\ audio.captured \in 0 .. MaxUnits /\ page.presses \in 0 .. MaxPresses
           /\ sender.next \in Nat \ {0} /\ sender.generation \in 1 .. MaxGeneration
           /\ Len(sender.queue) \in Nat /\ Len(capture.queue) \in Nat
           /\ Len(capture.queue) <= CaptureDepth /\ Len(sender.queue) <= SenderDepth
           /\ Len(capture.buffer) \in Nat /\ Len(capture.rest) \in Nat
           /\ Len(capture.buffer) < ChunkUnits
  <1>1. /\ sender.queue \in Seq(Records) /\ capture.queue \in Seq(AudioUnits)
        /\ capture.buffer \in AudioUnits /\ capture.rest \in AudioUnits
        /\ capture.held \in Records /\ page.held \in Records /\ sender.out \in Records
        /\ up \in Seq(Records) /\ down \in Seq(AnswerRecord)
        /\ audio.admitted \in AudioUnits /\ audio.acknowledged \in AudioUnits
        /\ audio.captured \in 0 .. MaxUnits /\ page.presses \in 0 .. MaxPresses
        /\ sender.next \in Nat \ {0} /\ sender.generation \in 1 .. MaxGeneration
        /\ Len(capture.queue) <= CaptureDepth /\ Len(sender.queue) <= SenderDepth
        /\ Len(capture.buffer) < ChunkUnits
    BY DEF Types, ClientTypes, WireTypes, SenderState, CaptureState, PageState,
       AudioState
  <1> QED
    BY <1>1, SeqFacts DEF AudioUnits

LEMMA StateTypes ==
    ASSUME Types
    PROVE  /\ sender \in SenderState /\ capture \in CaptureState /\ page \in PageState
           /\ link \in [client : BOOLEAN, server : BOOLEAN]
           /\ receiver \in ReceiverState /\ session \in SessionState
           /\ audio \in AudioState /\ dashboard \in {"idle", "finishing", "done"}
  BY DEF Types, ClientTypes, WireTypes, ServerTypes

\* The acknowledged record adds its audio to what is acknowledged.
LEMMA AnswerTypes ==
    ASSUME Types, down # <<>>
    PROVE  /\ Head(down) \in AnswerRecord /\ Tail(down) \in Seq(AnswerRecord)
           /\ [audio EXCEPT !.acknowledged = @ \o sender.out.units] \in AudioState
  <1>1. Head(down) \in AnswerRecord /\ Tail(down) \in Seq(AnswerRecord)
    BY QueueFacts, HeadTailProperties
  <1>2. sender.out.units \in AudioUnits
    BY QueueFacts, FieldsOfRecords
  <1>3. audio.acknowledged \o sender.out.units \in AudioUnits
    BY <1>2, QueueFacts, ConcatProperties DEF AudioUnits
  <1> QED
    BY <1>1, <1>3, StateTypes DEF AudioState

\* A resume was numbered for the next generation.
LEMMA AckTypes ==
    ASSUME Types, Turns, sender.pc = "waiting", down # <<>>, Head(down).kind = "ACK"
    PROVE  /\ AfterAck(sender) \in SenderState /\ AfterAck(sender).queue = sender.queue
           /\ AfterAck(sender).next = sender.next /\ AfterAck(sender).out = sender.out
           /\ Accepting
           /\ audio.admitted = audio.acknowledged \o sender.out.units
  <1>1. sender \in SenderState /\ sender.out \in Records
    BY QueueFacts, StateTypes
  <1>2. Accepting /\ audio.admitted = audio.acknowledged \o sender.out.units
    <2>1. CASE down = <<[kind |-> "ERROR", seq |-> sender.out.seq]>>
      BY <2>1
    <2> QED
      BY <2>1 DEF Turns, Replied
  <1>3. /\ sender.out.kind \in {"START", "AUDIO", "PAUSE", "RESUME", "END"}
        /\ sender.out.kind = "RESUME" => sender.out.generation \in 1 .. MaxGeneration
    <2>1. sender.out.generation \in 0 .. MaxGeneration /\ sender.generation \in 1 .. MaxGeneration
      BY <1>1, QueueFacts, FieldsOfRecords
    <2> QED
      BY <1>2, <2>1, BlocksAreShort DEF Accepting, Buttons
  <1> QED
    BY <1>1, <1>2, <1>3 DEF AfterAck, SenderState

LEMMA SenderTypes ==
    ASSUME Types, Turns, SenderNext
    PROVE  Types'
  <1>1. /\ sender \in SenderState /\ capture \in CaptureState /\ page \in PageState
        /\ receiver \in ReceiverState /\ link \in [client : BOOLEAN, server : BOOLEAN]
    BY StateTypes
  <1>2. CASE SenderConnects
    <2>1. /\ UNCHANGED <<capture, page, down, session, dashboard, audio>>
      BY <1>2 DEF SenderConnects
    <2>2. /\ sender' \in SenderState /\ sender'.queue = sender.queue
          /\ link' \in [client : BOOLEAN, server : BOOLEAN] /\ up' \in Seq(Records)
          /\ receiver' \in ReceiverState
      <3>1. CASE /\ receiver.pc = "accepting" /\ ~receiver.closed
                 /\ sender' = [sender EXCEPT !.pc = "waiting", !.out = StartRecord]
                 /\ link' = [client |-> TRUE, server |-> TRUE]
                 /\ up' = <<StartRecord>>
                 /\ receiver' = [receiver EXCEPT !.pc = "waiting"]
        <4>1. up' \in Seq(Records)
          BY <3>1, NoRecordFacts
        <4>2. sender' \in SenderState /\ sender'.queue = sender.queue
          BY <1>1, <3>1, NoRecordFacts DEF SenderState
        <4>3. receiver' \in ReceiverState
          BY <1>1, <3>1 DEF ReceiverState
        <4> QED
          BY <3>1, <4>1, <4>2, <4>3
      <3>2. CASE GiveUp("CONNECTION_CLOSED") /\ UNCHANGED <<up, receiver>>
        <4>1. "CONNECTION_CLOSED" \in Reasons
          BY DEF Reasons
        <4> QED
          BY <1>1, <3>2, <4>1, GiveUpFacts, QueueFacts
      <3> QED
        BY <1>2, <3>1, <3>2 DEF SenderConnects
    <2> QED
      BY <2>1, <2>2 DEF Types, ClientTypes, WireTypes, ServerTypes
  <1>3. CASE SenderSends
    <2>1. /\ UNCHANGED <<capture, page, down, link, receiver, session, dashboard, audio>>
          /\ sender.queue # <<>>
          /\ sender' = [sender EXCEPT !.pc = "waiting", !.out = Head(sender.queue),
                                      !.queue = Tail(@)]
          /\ up' = up \/ up' = Append(up, Head(sender.queue))
      BY <1>3 DEF SenderSends, Send, server
    <2>2. /\ Head(sender.queue) \in Records /\ Tail(sender.queue) \in Seq(Records)
          /\ Len(Tail(sender.queue)) <= SenderDepth
      <3>1. sender.queue \in Seq(Records) /\ Len(sender.queue) \in Nat
        BY QueueFacts
      <3>2. /\ Head(sender.queue) \in Records /\ Tail(sender.queue) \in Seq(Records)
            /\ Len(Tail(sender.queue)) = Len(sender.queue) - 1
        BY <2>1, <3>1, HeadTailProperties
      <3> QED
        BY <3>1, <3>2, QueueFacts, BlocksAreShort
    <2>3. /\ sender' \in SenderState /\ sender'.queue = Tail(sender.queue)
      BY <1>1, <2>1, <2>2 DEF SenderState
    <2>4. up' \in Seq(Records)
      <3>1. up \in Seq(Records)
        BY QueueFacts
      <3>2. Append(up, Head(sender.queue)) \in Seq(Records)
        BY <2>2, <3>1, AppendProperties
      <3> QED
        BY <2>1, <3>1, <3>2
    <2> QED
      BY <2>1, <2>2, <2>3, <2>4 DEF Types, ClientTypes, WireTypes, ServerTypes
  <1>4. CASE SenderStops
    <2>1. /\ UNCHANGED <<capture, page, up, down, receiver, session, dashboard, audio>>
          /\ sender' = [sender EXCEPT !.pc = "stopped"]
          /\ link' = [link EXCEPT !.client = FALSE]
      BY <1>4 DEF SenderStops, server
    <2>2. sender' \in SenderState /\ sender'.queue = sender.queue
      BY <1>1, <2>1 DEF SenderState
    <2>3. link' \in [client : BOOLEAN, server : BOOLEAN]
      BY <1>1, <2>1
    <2> QED
      BY <2>1, <2>2, <2>3 DEF Types, ClientTypes, WireTypes, ServerTypes
  <1>5. CASE SenderReadsAnswer
    <2>1. /\ UNCHANGED <<capture, page, up, receiver, session, dashboard>>
          /\ sender.pc = "waiting" /\ down # <<>> /\ down' = Tail(down)
      BY <1>5 DEF SenderReadsAnswer, server
    <2>2. PICK reason \in {"SCOPE_MISMATCH", "SESSION_REJECTED"} :
             \/ /\ Head(down).kind = "ACK" /\ sender' = AfterAck(sender)
                /\ link' = link \/ link' = [link EXCEPT !.client = FALSE]
                /\ audio' = [audio EXCEPT !.acknowledged = @ \o sender.out.units]
             \/ GiveUp(reason) /\ UNCHANGED audio
      BY <1>5 DEF SenderReadsAnswer
    <2>3. reason \in Reasons
      BY DEF Reasons
    <2>4. /\ sender' \in SenderState /\ sender'.queue = sender.queue
          /\ link' \in [client : BOOLEAN, server : BOOLEAN] /\ audio' \in AudioState
      <3>1. CASE GiveUp(reason) /\ UNCHANGED audio
        BY <1>1, <2>3, <3>1, GiveUpFacts, StateTypes
      <3>2. CASE /\ Head(down).kind = "ACK" /\ sender' = AfterAck(sender)
                 /\ link' = link \/ link' = [link EXCEPT !.client = FALSE]
                 /\ audio' = [audio EXCEPT !.acknowledged = @ \o sender.out.units]
        <4>1. link' \in [client : BOOLEAN, server : BOOLEAN]
          BY <1>1, <3>2
        <4>2. sender' \in SenderState /\ sender'.queue = sender.queue
          BY <2>1, <3>2, AckTypes
        <4>3. audio' \in AudioState
          BY <2>1, <3>2, AnswerTypes
        <4> QED
          BY <4>1, <4>2, <4>3
      <3> QED
        BY <2>2, <3>1, <3>2
    <2>5. down' \in Seq(AnswerRecord)
      BY <2>1, AnswerTypes
    <2> QED
      BY <2>1, <2>4, <2>5 DEF Types, ClientTypes, WireTypes, ServerTypes
  <1>6. CASE SenderLosesAnswer
    <2>1. /\ UNCHANGED <<capture, page, up, down, receiver, session, dashboard, audio>>
          /\ GiveUp("CONNECTION_CLOSED")
      BY <1>6 DEF SenderLosesAnswer, server
    <2>2. "CONNECTION_CLOSED" \in Reasons
      BY DEF Reasons
    <2>3. /\ sender' \in SenderState /\ sender'.queue = sender.queue
          /\ link' \in [client : BOOLEAN, server : BOOLEAN]
      BY <1>1, <2>1, <2>2, GiveUpFacts
    <2> QED
      BY <2>1, <2>3 DEF Types, ClientTypes, WireTypes, ServerTypes
  <1>7. CASE ResumeCallback
    <2>1. UNCHANGED <<up, down, receiver, session, dashboard, audio>>
      BY <1>7 DEF ResumeCallback, server
    <2>2. /\ sender' \in SenderState /\ sender'.queue = sender.queue
          /\ link' \in [client : BOOLEAN, server : BOOLEAN]
          /\ capture' \in CaptureState /\ capture'.queue = capture.queue
          /\ capture'.buffer = capture.buffer /\ page' \in PageState
      <3>1. CASE /\ capture' = [capture EXCEPT !.stream = "running", !.admitting = TRUE,
                                               !.opened = TRUE]
                 /\ sender' = [sender EXCEPT !.pc = "idle"]
                 /\ page' = [page EXCEPT !.early = @ \/ page.pc # "idle"]
                 /\ UNCHANGED link
        <4>1. sender' \in SenderState /\ sender'.queue = sender.queue
          BY <1>1, <3>1 DEF SenderState
        <4>2. /\ capture' \in CaptureState /\ capture'.queue = capture.queue
              /\ capture'.buffer = capture.buffer
          BY <1>1, <3>1 DEF CaptureState
        <4>3. page' \in PageState
          BY <1>1, <3>1 DEF PageState
        <4> QED
          BY <1>1, <3>1, <4>1, <4>2, <4>3
      <3>2. CASE GiveUp("MICROPHONE_OPEN_FAILED") /\ UNCHANGED <<capture, page>>
        <4>1. "MICROPHONE_OPEN_FAILED" \in Reasons
          BY DEF Reasons
        <4> QED
          BY <1>1, <3>2, <4>1, GiveUpFacts
      <3> QED
        BY <1>7, <3>1, <3>2 DEF ResumeCallback
    <2> QED
      BY <2>1, <2>2 DEF Types, ClientTypes, WireTypes, ServerTypes
  <1> QED
    BY <1>2, <1>3, <1>4, <1>5, <1>6, <1>7 DEF SenderNext

LEMMA StationsAre ==
    /\ Stations[1] = Range(audio.admitted)
    /\ Stations[2] = Range(OnWire)
    /\ Stations[3] = All(UnitsOf(sender.queue))
    /\ Stations[4] = Range(page.held.units) \cup Range(capture.held.units)
    /\ Stations[5] = Range(Hand)
    /\ Stations[6] = All(capture.queue)
  BY DEF Stations

\* The units without a number are some of those captured.
LEMMA UnnumberedFacts ==
    ASSUME Types, InOrder
    PROVE  /\ Unnumbered \subseteq 1 .. audio.captured
           /\ IsFiniteSet(Unnumbered) /\ Cardinality(Unnumbered) \in Nat
           /\ \A S \in SUBSET Unnumbered : IsFiniteSet(S)
                                          /\ Cardinality(S) \in Nat
                                          /\ Cardinality(S) <= Cardinality(Unnumbered)
           /\ \A S \in SUBSET Unnumbered : S # Unnumbered
                                          => Cardinality(S) + 1 <= Cardinality(Unnumbered)
  <1>1. Unnumbered \subseteq 1 .. audio.captured
    <2>1. \A k \in 1 .. 6 : Stations[k] \subseteq 1 .. audio.captured
      BY DEF InOrder
    <2>2. /\ Stations[4] \subseteq 1 .. audio.captured /\ Stations[5] \subseteq 1 .. audio.captured
          /\ Stations[6] \subseteq 1 .. audio.captured
      BY <2>1
    <2> QED
      BY <2>2, StationsAre DEF Unnumbered
  <1>2. audio.captured \in Nat
    BY QueueFacts, BlocksAreShort
  <1>3. IsFiniteSet(Unnumbered)
    <2>1. IsFiniteSet(1 .. audio.captured)
      BY <1>2, FS_Interval
    <2> QED
      BY <1>1, <2>1, FS_Subset
  <1>4. Cardinality(Unnumbered) \in Nat
    BY <1>3, FS_CardinalityType
  <1>5. ASSUME NEW S \in SUBSET Unnumbered
        PROVE  /\ IsFiniteSet(S) /\ Cardinality(S) \in Nat
               /\ Cardinality(S) <= Cardinality(Unnumbered)
               /\ S # Unnumbered => Cardinality(S) + 1 <= Cardinality(Unnumbered)
    <2>1. /\ IsFiniteSet(S) /\ Cardinality(S) <= Cardinality(Unnumbered)
          /\ Cardinality(Unnumbered) = Cardinality(S) => Unnumbered = S
      BY <1>3, FS_Subset
    <2>2. Cardinality(S) \in Nat
      BY <2>1, FS_CardinalityType
    <2> QED
      BY <1>4, <2>1, <2>2
  <1> QED
    BY <1>1, <1>3, <1>4, <1>5

LEMMA RangeNotEmpty ==
    ASSUME NEW units \in AudioUnits, units # <<>>
    PROVE  \E u : u \in Range(units)
  <1>1. 1 \in DOMAIN units
    BY SeqFacts DEF AudioUnits
  <1> QED
    BY <1>1 DEF Range

\* Whoever gives out a number finds one within the bounds.
LEMMA NumberLeft ==
    ASSUME Types, Holding, InOrder, Budget,
           \/ capture.pc = "numbering"
           \/ page.pc \in {"numbering", "control"}
    PROVE  /\ sender.next \in 0 .. MaxUnits + MaxPresses
           /\ sender.next + 1 \in Nat \ {0}
  <1>1. /\ Cardinality(Unnumbered) \in Nat
        /\ Unnumbered # {} => Cardinality(Unnumbered) # 0
    BY UnnumberedFacts, FS_EmptySet
  <1>2. Cardinality(Unnumbered) + Owing >= 1
    <2>1. CASE capture.pc = "numbering"
      <3>1. capture.held.units # <<>> /\ capture.held \in Records
        BY <2>1, QueueFacts DEF Holding, CaptureHolds, PageHolds
      <3>2. Range(capture.held.units) # {}
        BY <3>1, RangeNotEmpty, FieldsOfRecords
      <3>3. Unnumbered # {}
        BY <2>1, <3>2 DEF Unnumbered
      <3> QED
        BY <1>1, <3>3 DEF Owing
    <2>2. CASE page.pc \in {"numbering", "control"}
      BY <1>1, <2>2 DEF Owing
    <2> QED
      BY <2>1, <2>2
  <1>3. /\ sender.next \in Nat \ {0} /\ audio.captured \in 0 .. MaxUnits
        /\ page.presses \in 0 .. MaxPresses
    BY QueueFacts
  <1>4. Owing \in {0, 1}
    BY DEF Owing
  <1> QED
    BY <1>1, <1>2, <1>3, <1>4, BlocksAreShort DEF Budget

\* What a step of the capture or of the page leaves alone, and what it may do to
\* the sender.
Aside ==
    /\ sender'.pc = sender.pc /\ sender'.out = sender.out
    /\ sender'.generation = sender.generation
    /\ \/ sender'.status = sender.status /\ sender'.closed = sender.closed
       \/ sender'.status = "FAILED" /\ sender'.closed = TRUE
    /\ link'.server = link.server
    /\ UNCHANGED <<up, down, receiver, session, dashboard>>
    /\ audio'.admitted = audio.admitted /\ audio'.acknowledged = audio.acknowledged

LEMMA TypesAside ==
    ASSUME Types, sender' \in SenderState, Len(sender'.queue) <= SenderDepth,
           capture' \in CaptureState, Len(capture'.queue) <= CaptureDepth,
           Len(capture'.buffer) < ChunkUnits, page' \in PageState,
           link' \in [client : BOOLEAN, server : BOOLEAN], audio' \in AudioState,
           UNCHANGED <<up, down, receiver, session, dashboard>>
    PROVE  Types'
  BY DEF Types, ClientTypes, WireTypes, ServerTypes

\* A step that touches no queue, and the sender only by failing it.
LEMMA PageOnly ==
    ASSUME Types, capture' \in CaptureState, capture'.queue = capture.queue,
           capture'.buffer = capture.buffer \/ capture'.buffer = <<>>,
           page' \in PageState, UNCHANGED <<up, down, server, audio>>,
           \/ UNCHANGED <<sender, link>>
           \/ \E reason \in Reasons : FailAndClose(reason)
    PROVE  Types' /\ Aside
  <1>1. sender \in SenderState /\ link \in [client : BOOLEAN, server : BOOLEAN]
    BY StateTypes
  <1>2. /\ sender' \in SenderState /\ sender'.queue = sender.queue
        /\ sender'.pc = sender.pc /\ sender'.out = sender.out
        /\ sender'.generation = sender.generation
        /\ \/ sender'.status = sender.status /\ sender'.closed = sender.closed
           \/ sender'.status = "FAILED" /\ sender'.closed = TRUE
        /\ link' \in [client : BOOLEAN, server : BOOLEAN] /\ link'.server = link.server
    <2>1. CASE UNCHANGED <<sender, link>>
      BY <1>1, <2>1
    <2>2. CASE \E reason \in Reasons : FailAndClose(reason)
      BY <1>1, <2>2, FailAndCloseFacts DEF MayFail
    <2> QED
      BY <2>1, <2>2
  <1>3. /\ Len(sender.queue) <= SenderDepth /\ Len(capture.queue) <= CaptureDepth
        /\ Len(capture.buffer) < ChunkUnits /\ audio' \in AudioState
    BY QueueFacts, StateTypes
  <1>4. UNCHANGED <<up, down, receiver, session, dashboard>>
    BY DEF server
  <1>5. Len(capture'.buffer) < ChunkUnits
    BY <1>3, BlocksAreShort
  <1> QED
    BY <1>2, <1>3, <1>4, <1>5, TypesAside DEF Aside

LEMMA CaptureOnly ==
    ASSUME Types, capture' \in CaptureState, capture'.queue = capture.queue,
           capture'.buffer = capture.buffer, UNCHANGED <<page, up, down, server, audio>>,
           \/ UNCHANGED <<sender, link>>
           \/ \E reason \in Reasons : FailAndClose(reason)
    PROVE  Types' /\ Aside
  BY PageOnly, StateTypes

\* The device's block is numbered from the last unit captured.
LEMMA BlockTypes ==
    ASSUME Types, NEW n \in BlockSizes, audio.captured + n <= MaxUnits
    PROVE  /\ n \in Nat \ {0} /\ audio.captured \in Nat /\ audio.captured + n \in 0 .. MaxUnits
           /\ Units(audio.captured + 1, n) \in AudioUnits
           /\ Len(Units(audio.captured + 1, n)) = n
           /\ \A i \in 1 .. n : Units(audio.captured + 1, n)[i] = audio.captured + i
  <1>1. n \in Nat \ {0} /\ audio.captured \in Nat /\ audio.captured + n \in 0 .. MaxUnits
    <2>1. n \in Nat \ {0} /\ MaxUnits \in Nat
      BY BlocksAreShort
    <2>2. audio.captured \in 0 .. MaxUnits
      BY QueueFacts
    <2> QED
      BY <2>1, <2>2
  <1>2. Units(audio.captured + 1, n) = [i \in 1 .. n |-> audio.captured + i]
    BY <1>1 DEF Units
  <1>3. \A i \in 1 .. n : audio.captured + i \in 1 .. MaxUnits
    BY <1>1, BlocksAreShort
  <1>4. Units(audio.captured + 1, n) \in Seq(1 .. MaxUnits) /\ Len(Units(audio.captured + 1, n)) = n
    <2> DEFINE block == Units(audio.captured + 1, n)
    <2>1. block \in [1 .. n -> 1 .. MaxUnits] /\ DOMAIN block = 1 .. n
      BY <1>2, <1>3
    <2> HIDE DEF block
    <2>2. block \in Seq(1 .. MaxUnits)
      BY <1>1, <2>1, SeqDef
    <2>3. Len(block) \in Nat /\ DOMAIN block = 1 .. Len(block)
      BY <2>2, SeqFacts
    <2>4. Len(block) = n
      BY <1>1, <2>1, <2>3
    <2> QED
      BY <2>2, <2>4 DEF block
  <1> QED
    BY <1>1, <1>2, <1>3, <1>4 DEF AudioUnits

\* What the worker has in hand, and what is left when a chunk is taken out.
LEMMA HandTypes ==
    ASSUME Types
    PROVE  /\ Hand \in AudioUnits /\ Len(Hand) = Len(capture.buffer) + Len(capture.rest)
           /\ Len(Hand) \in Nat
           /\ Len(Hand) >= ChunkUnits =>
                 /\ SubSeq(Hand, 1, ChunkUnits) \in AudioUnits
                 /\ Len(SubSeq(Hand, 1, ChunkUnits)) = ChunkUnits
                 /\ SubSeq(Hand, ChunkUnits + 1, Len(Hand)) \in AudioUnits
                 /\ Len(SubSeq(Hand, ChunkUnits + 1, Len(Hand))) = Len(Hand) - ChunkUnits
                 /\ Len(SubSeq(Hand, ChunkUnits + 1, Len(Hand))) <= Len(capture.rest)
                 /\ SubSeq(Hand, 1, ChunkUnits) \o SubSeq(Hand, ChunkUnits + 1, Len(Hand))
                       = Hand
  <1>1. /\ capture.buffer \in Seq(1 .. MaxUnits) /\ capture.rest \in Seq(1 .. MaxUnits)
        /\ Len(capture.buffer) \in Nat /\ Len(capture.rest) \in Nat
        /\ Len(capture.buffer) < ChunkUnits
    BY QueueFacts DEF AudioUnits
  <1>2. Hand \in Seq(1 .. MaxUnits) /\ Len(Hand) = Len(capture.buffer) + Len(capture.rest)
    BY <1>1, ConcatProperties DEF Hand
  <1>3. ChunkUnits \in Nat
    BY BlocksAreShort
  <1>4. ASSUME Len(Hand) >= ChunkUnits
        PROVE  /\ SubSeq(Hand, 1, ChunkUnits) \in Seq(1 .. MaxUnits)
               /\ SubSeq(Hand, ChunkUnits + 1, Len(Hand)) \in Seq(1 .. MaxUnits)
               /\ Len(SubSeq(Hand, 1, ChunkUnits)) = ChunkUnits
               /\ Len(SubSeq(Hand, ChunkUnits + 1, Len(Hand))) = Len(Hand) - ChunkUnits
               /\ SubSeq(Hand, 1, ChunkUnits) \o SubSeq(Hand, ChunkUnits + 1, Len(Hand)) = Hand
    BY ZenonT(60), <1>1, <1>2, <1>3, <1>4, CutInTwo
  <1>5. Len(Hand) - ChunkUnits <= Len(capture.rest)
    BY <1>1, <1>2, <1>3
  <1>6. Hand \in AudioUnits /\ Len(Hand) \in Nat
    <2>1. Len(Hand) \in Nat
      BY <1>2, SeqFacts
    <2>2. Hand \in AudioUnits
      BY <1>2 DEF AudioUnits
    <2> QED
      BY <2>1, <2>2
  <1> QED
    BY <1>2, <1>4, <1>5, <1>6 DEF AudioUnits

LEMMA CaptureTypes ==
    ASSUME Types, Holding, InOrder, Budget, CaptureNext
    PROVE  Types' /\ Aside
  <1>1. /\ sender \in SenderState /\ capture \in CaptureState /\ page \in PageState
        /\ link \in [client : BOOLEAN, server : BOOLEAN] /\ audio \in AudioState
    BY StateTypes
  <1>2. /\ "MICROPHONE_UNAVAILABLE" \in Reasons /\ "MICROPHONE_OPEN_FAILED" \in Reasons
        /\ "BUFFER_LIMIT" \in Reasons
    BY DEF Reasons
  <1>3. CASE OpenDevice
    <2>1. /\ \/ capture' = [capture EXCEPT !.pc = "stopped"]
             \/ capture' = [capture EXCEPT !.pc = "starting", !.stream = "stopped"]
          /\ UNCHANGED <<sender, link>> \/ FailAndClose("MICROPHONE_UNAVAILABLE")
          /\ UNCHANGED <<page, up, down, server, audio>>
      BY <1>3 DEF OpenDevice
    <2>2. /\ capture' \in CaptureState /\ capture'.queue = capture.queue
          /\ capture'.buffer = capture.buffer
      BY ZenonT(60), <1>1, <2>1 DEF CaptureState
    <2> QED
      BY <1>2, <2>1, <2>2, CaptureOnly
  <1>4. CASE StartDevice
    <2>1. /\ \/ capture' = [capture EXCEPT !.pc = "stopped"]
             \/ capture' = [capture EXCEPT !.pc = "admitting", !.stream = "running"]
          /\ UNCHANGED <<sender, link>> \/ FailAndClose("MICROPHONE_OPEN_FAILED")
          /\ UNCHANGED <<page, up, down, server, audio>>
      BY <1>4 DEF StartDevice
    <2>2. /\ capture' \in CaptureState /\ capture'.queue = capture.queue
          /\ capture'.buffer = capture.buffer
      BY ZenonT(60), <1>1, <2>1 DEF CaptureState
    <2> QED
      BY <1>2, <2>1, <2>2, CaptureOnly
  <1>5. CASE BeginAdmitting
    <2>1. /\ \/ capture' = [capture EXCEPT !.pc = "stopped", !.stream = "none"]
             \/ capture' = [capture EXCEPT !.pc = "checking", !.opened = TRUE,
                                           !.admitting = TRUE]
          /\ UNCHANGED <<sender, link>>
          /\ UNCHANGED <<page, up, down, server, audio>>
      BY <1>5 DEF BeginAdmitting, wire
    <2>2. /\ capture' \in CaptureState /\ capture'.queue = capture.queue
          /\ capture'.buffer = capture.buffer
      BY ZenonT(60), <1>1, <2>1 DEF CaptureState
    <2> QED
      BY <2>1, <2>2, CaptureOnly
  <1>6. CASE CallbackEnters \/ CallbackGivesUp
    <2>1. /\ \/ capture' = [capture EXCEPT !.callback = "queueing", !.drained = FALSE]
             \/ capture' = [capture EXCEPT !.callback = "out",
                                           !.drained = @ \/ capture.queue = <<>>]
          /\ UNCHANGED <<sender, link>>
          /\ UNCHANGED <<page, up, down, server, audio>>
      BY <1>6 DEF CallbackEnters, CallbackGivesUp, wire
    <2>2. /\ capture' \in CaptureState /\ capture'.queue = capture.queue
          /\ capture'.buffer = capture.buffer
      BY ZenonT(60), <1>1, <2>1 DEF CaptureState
    <2> QED
      BY <2>1, <2>2, CaptureOnly
  <1>7. ASSUME NEW n \in BlockSizes, CallbackQueues(n)
        PROVE  Types' /\ Aside
    <2> DEFINE block == Units(audio.captured + 1, n)
    <2>1. /\ audio.captured + n <= MaxUnits
          /\ audio' = [audio EXCEPT !.captured = @ + n]
          /\ capture' = IF Len(capture.queue) < CaptureDepth
                        THEN [capture EXCEPT !.callback = "out", !.queue = Append(@, block)]
                        ELSE [capture EXCEPT !.callback = "full", !.overflow = TRUE]
          /\ UNCHANGED <<sender, page, up, down, link, receiver, session, dashboard>>
      BY <1>7 DEF CallbackQueues, wire, server
    <2>2. /\ audio.captured + n \in 0 .. MaxUnits /\ block \in AudioUnits
      BY <2>1, BlockTypes
    <2> HIDE DEF block
    <2>3. /\ audio' \in AudioState /\ audio'.admitted = audio.admitted
          /\ audio'.acknowledged = audio.acknowledged
      BY <1>1, <2>1, <2>2 DEF AudioState
    <2>4. /\ Append(capture.queue, block) \in Seq(AudioUnits)
          /\ Len(Append(capture.queue, block)) = Len(capture.queue) + 1
      BY <2>2, QueueFacts, AppendProperties
    <2>5. /\ capture' \in CaptureState /\ capture'.buffer = capture.buffer
          /\ \/ Len(capture.queue) < CaptureDepth /\ capture'.queue = Append(capture.queue, block)
             \/ capture'.queue = capture.queue
      BY <1>1, <2>1, <2>4 DEF CaptureState
    <2>6. Len(capture'.queue) <= CaptureDepth
      BY SMTT(40), <2>4, <2>5, QueueFacts, BlocksAreShort
    <2> QED
      BY <1>1, <2>1, <2>3, <2>5, <2>6, QueueFacts, TypesAside DEF Aside
  <1>8. CASE WorkerChecks
    <2>1. /\ \/ capture' = [capture EXCEPT !.pc = "stopped"]
             \/ capture' = [capture EXCEPT !.pc = "stopped", !.stop = TRUE]
             \/ capture' = [capture EXCEPT !.pc = "getting"]
          /\ UNCHANGED <<sender, link>> \/ FailAndClose("BUFFER_LIMIT")
          /\ UNCHANGED <<page, up, down, server, audio>>
      BY <1>8 DEF WorkerChecks
    <2>2. /\ capture' \in CaptureState /\ capture'.queue = capture.queue
          /\ capture'.buffer = capture.buffer
      BY ZenonT(60), <1>1, <2>1 DEF CaptureState
    <2> QED
      BY <1>2, <2>1, <2>2, CaptureOnly
  <1>9. CASE WorkerGets
    <2>1. /\ \/ /\ capture.queue # <<>>
                /\ capture' = [capture EXCEPT !.pc = "filling", !.rest = Head(capture.queue),
                                              !.queue = Tail(@)]
             \/ capture' = [capture EXCEPT !.pc = "checking"]
          /\ UNCHANGED <<sender, page, link, audio, up, down, receiver, session, dashboard>>
      BY <1>9 DEF WorkerGets, wire, server
    <2>2. capture.queue # <<>> => /\ Head(capture.queue) \in AudioUnits
                                  /\ Tail(capture.queue) \in Seq(AudioUnits)
                                  /\ Len(Tail(capture.queue)) = Len(capture.queue) - 1
      BY QueueFacts, HeadTailProperties
    <2>3. /\ capture' \in CaptureState /\ capture'.buffer = capture.buffer
          /\ \/ capture.queue # <<>> /\ capture'.queue = Tail(capture.queue)
             \/ capture'.queue = capture.queue
      BY ZenonT(60), <1>1, <2>1, <2>2 DEF CaptureState
    <2>4. Len(capture'.queue) <= CaptureDepth
      <3>1. Len(capture.queue) \in Nat /\ Len(capture.queue) <= CaptureDepth
        BY QueueFacts
      <3>2. CASE capture.queue # <<>> /\ capture'.queue = Tail(capture.queue)
        <4>1. Len(Tail(capture.queue)) = Len(capture.queue) - 1
          BY <2>2, <3>2
        <4>2. Len(capture.queue) - 1 <= CaptureDepth
          BY <3>1, BlocksAreShort
        <4> QED
          BY <3>2, <4>1, <4>2
      <3> QED
        BY <2>3, <3>1, <3>2
    <2> QED
      BY <1>1, <2>1, <2>3, <2>4, QueueFacts, TypesAside DEF Aside
  <1>10. CASE WorkerFills
    <2>1. /\ capture' = IF Len(Hand) < ChunkUnits
                        THEN [capture EXCEPT !.buffer = Hand, !.rest = <<>>, !.pc = "settling"]
                        ELSE [capture EXCEPT
                                !.buffer = <<>>,
                                !.rest = SubSeq(Hand, ChunkUnits + 1, Len(Hand)),
                                !.held = Record("AUDIO", 0, 0, SubSeq(Hand, 1, ChunkUnits)),
                                !.pc = "numbering"]
          /\ UNCHANGED <<sender, page, link, audio, up, down, receiver, session, dashboard>>
      BY <1>10 DEF WorkerFills, Hand, wire, server
    <2>2. /\ Hand \in AudioUnits /\ Len(Hand) \in Nat /\ ChunkUnits \in Nat \ {0}
          /\ ~(Len(Hand) < ChunkUnits) =>
                /\ SubSeq(Hand, ChunkUnits + 1, Len(Hand)) \in AudioUnits
                /\ SubSeq(Hand, 1, ChunkUnits) \in AudioUnits
      <3>1. Hand \in AudioUnits /\ Len(Hand) \in Nat /\ ChunkUnits \in Nat \ {0}
        BY HandTypes, BlocksAreShort
      <3>2. ~(Len(Hand) < ChunkUnits) => Len(Hand) >= ChunkUnits
        BY <3>1
      <3> QED
        BY <3>1, <3>2, HandTypes
    <2>3. ~(Len(Hand) < ChunkUnits) =>
             Record("AUDIO", 0, 0, SubSeq(Hand, 1, ChunkUnits)) \in Records
      BY <2>2, BlocksAreShort, RecordFacts DEF Kinds
    <2>4. <<>> \in AudioUnits /\ Len(<<>>) = 0
      BY NoRecordFacts
    <2>5. /\ capture' \in CaptureState /\ capture'.queue = capture.queue
          /\ \/ Len(Hand) < ChunkUnits /\ capture'.buffer = Hand
             \/ capture'.buffer = <<>>
      BY <1>1, <2>1, <2>2, <2>3, <2>4 DEF CaptureState
    <2>6. Len(capture'.buffer) < ChunkUnits
      BY <2>2, <2>4, <2>5
    <2> QED
      BY <1>1, <2>1, <2>5, <2>6, QueueFacts, TypesAside DEF Aside
  <1>11. CASE WorkerNumbers
    <2>1. /\ capture.pc = "numbering"
          /\ UNCHANGED <<page, link, audio, up, down, receiver, session, dashboard>>
      BY <1>11 DEF WorkerNumbers, wire, server
    <2>2. /\ sender.next \in 0 .. MaxUnits + MaxPresses /\ sender.next + 1 \in Nat \ {0}
      BY <2>1, NumberLeft
    <2>3. CASE sender.status = "STREAMING"
      <3>1. /\ capture' = [capture EXCEPT !.pc = "queueing",
                             !.held = Numbered("AUDIO", sender.generation, @.units)]
            /\ sender' = [sender EXCEPT !.next = @ + 1]
        BY <1>11, <2>3 DEF WorkerNumbers
      <3>2. Numbered("AUDIO", sender.generation, capture.held.units) \in Records
        <4>1. capture.held.units \in AudioUnits /\ sender.generation \in 0 .. MaxGeneration
          BY SMTT(40), QueueFacts, FieldsOfRecords, BlocksAreShort
        <4> QED
          BY <2>2, <4>1, RecordFacts DEF Numbered, Kinds
      <3>3. /\ capture' \in CaptureState /\ capture'.queue = capture.queue
            /\ capture'.buffer = capture.buffer
        BY <1>1, <3>1, <3>2 DEF CaptureState
      <3>4. /\ sender' \in SenderState /\ sender'.queue = sender.queue
            /\ sender'.pc = sender.pc /\ sender'.out = sender.out
            /\ sender'.generation = sender.generation
            /\ sender'.status = sender.status /\ sender'.closed = sender.closed
        BY <1>1, <2>2, <3>1 DEF SenderState
      <3> QED
        BY <1>1, <2>1, <3>3, <3>4, QueueFacts, TypesAside DEF Aside
    <2>4. CASE sender.status # "STREAMING"
      <3>1. /\ capture' = [capture EXCEPT !.pc = "settling", !.stop = TRUE,
                                          !.held = NoRecord, !.rest = <<>>]
            /\ UNCHANGED sender
        BY <1>11, <2>4 DEF WorkerNumbers
      <3>2. /\ capture' \in CaptureState /\ capture'.queue = capture.queue
            /\ capture'.buffer = capture.buffer
        BY <1>1, <3>1, NoRecordFacts DEF CaptureState
      <3> QED
        BY <1>1, <2>1, <3>1, <3>2, QueueFacts, TypesAside DEF Aside
    <2> QED
      BY <2>3, <2>4
  <1>12. CASE WorkerQueues
    <2>1. /\ UNCHANGED <<page, link, audio, up, down, receiver, session, dashboard>>
          /\ sender' = Enqueued(capture.held) /\ capture.held \in Records
      BY <1>12, QueueFacts DEF WorkerQueues, wire, server
    <2>2. PICK pc \in {"settling", "filling"}, stop \in BOOLEAN, rest \in {<<>>, capture.rest} :
             capture' = [capture EXCEPT !.held = NoRecord, !.stop = stop, !.rest = rest,
                                        !.pc = pc]
      <3>1. CASE HasRoom
        <4>1. capture' = [capture EXCEPT !.held = NoRecord,
                            !.pc = IF capture.rest = <<>> THEN "settling" ELSE "filling"]
          BY <1>12, <3>1 DEF WorkerQueues
        <4>2. /\ capture' = [capture EXCEPT !.held = NoRecord, !.stop = capture.stop,
                               !.rest = capture.rest,
                               !.pc = IF capture.rest = <<>> THEN "settling" ELSE "filling"]
              /\ capture.stop \in BOOLEAN
          BY <1>1, <4>1 DEF CaptureState
        <4> QED
          BY <4>2
      <3>2. CASE ~HasRoom
        BY <1>12, <3>2 DEF WorkerQueues
      <3> QED
        BY <3>1, <3>2
    <2>3. /\ capture' \in CaptureState /\ capture'.queue = capture.queue
          /\ capture'.buffer = capture.buffer
      BY <1>1, <2>2, NoRecordFacts, QueueFacts DEF CaptureState
    <2>4. /\ sender' \in SenderState /\ Len(sender'.queue) <= SenderDepth
          /\ MayFail(sender, sender') /\ sender'.pc = sender.pc
      BY <1>1, <2>1, QueueFacts, EnqueuedFacts
    <2> QED
      BY <1>1, <2>1, <2>3, <2>4, QueueFacts, TypesAside DEF Aside, MayFail
  <1>13. CASE WorkerSettles \/ WorkerSetsDrained
    <2>1. /\ \/ capture' = [capture EXCEPT !.pc = IF capture.queue = <<>> THEN "setting"
                                                                         ELSE "checking"]
             \/ capture' = [capture EXCEPT !.drained = TRUE, !.pc = "checking"]
          /\ UNCHANGED <<sender, link>>
          /\ UNCHANGED <<page, up, down, server, audio>>
      BY <1>13 DEF WorkerSettles, WorkerSetsDrained, wire
    <2>2. /\ capture' \in CaptureState /\ capture'.queue = capture.queue
          /\ capture'.buffer = capture.buffer
      BY ZenonT(60), <1>1, <2>1 DEF CaptureState
    <2> QED
      BY <2>1, <2>2, CaptureOnly
  <1> QED
    BY <1>3, <1>4, <1>5, <1>6, <1>7, <1>8, <1>9, <1>10, <1>11, <1>12, <1>13
    DEF CaptureNext

LEMMA PageTypes ==
    ASSUME Types, Holding, Room, InOrder, Budget, PageNext
    PROVE  Types' /\ Aside
  <1>1. /\ sender \in SenderState /\ capture \in CaptureState /\ page \in PageState
        /\ link \in [client : BOOLEAN, server : BOOLEAN] /\ audio \in AudioState
    BY StateTypes
  <1>2. "MICROPHONE_OPEN_FAILED" \in Reasons /\ "BUFFER_LIMIT" \in Reasons
    BY DEF Reasons
  <1>3. CASE OpenMicrophone
    <2>1. /\ capture' = [capture EXCEPT !.pc = "opening"]
          /\ UNCHANGED <<sender, link>> /\ UNCHANGED <<page, up, down, server, audio>>
      BY <1>3 DEF OpenMicrophone, wire
    <2>2. /\ capture' \in CaptureState /\ capture'.queue = capture.queue
          /\ capture'.buffer = capture.buffer
      BY <1>1, <2>1 DEF CaptureState
    <2> QED
      BY <2>1, <2>2, CaptureOnly
  <1>4. ASSUME NEW button \in Buttons, Press(button),
               \/ capture' = [capture EXCEPT !.admitting = FALSE] \/ UNCHANGED capture,
               UNCHANGED <<sender, link>>, UNCHANGED <<up, down, server, audio>>
        PROVE  Types' /\ Aside
    <2>1. /\ capture' \in CaptureState /\ capture'.queue = capture.queue
          /\ capture'.buffer = capture.buffer
      BY <1>1, <1>4 DEF CaptureState
    <2>2. page.presses < MaxPresses /\ page.presses \in 0 .. MaxPresses
      BY <1>4, QueueFacts DEF Press
    <2>3. page.presses + 1 \in 0 .. MaxPresses
      BY <2>2, BlocksAreShort
    <2>4. page' \in PageState
      BY <1>1, <1>4, <2>3 DEF Press, PageState
    <2> QED
      BY <1>4, <2>1, <2>4, PageOnly
  <1>5. CASE PressPause \/ PressEnd \/ PressResume
    BY <1>4, <1>5 DEF PressPause, PressEnd, PressResume, Buttons, wire
  <1>6. CASE StopStream \/ Drained \/ DrainTimesOut
    <2>1. /\ \/ UNCHANGED capture \/ capture' = [capture EXCEPT !.stream = "stopped"]
          /\ \/ page' = [page EXCEPT !.pc = "draining"]
             \/ page' = [page EXCEPT !.pc = "flushing"]
             \/ page' = [page EXCEPT !.pc = "idle"]
          /\ \/ UNCHANGED <<sender, link>>
             \/ FailAndClose("MICROPHONE_OPEN_FAILED")
             \/ FailAndClose("BUFFER_LIMIT")
          /\ UNCHANGED <<up, down, server, audio>>
      BY <1>6 DEF StopStream, Drained, DrainTimesOut, wire
    <2>2. /\ capture' \in CaptureState /\ capture'.queue = capture.queue
          /\ capture'.buffer = capture.buffer
      BY <1>1, <2>1 DEF CaptureState
    <2>3. page' \in PageState
      BY <1>1, <2>1 DEF PageState
    <2> QED
      BY <1>2, <2>1, <2>2, <2>3, PageOnly
  <1>7. CASE Flush
    <2>1. /\ capture' = [capture EXCEPT !.buffer = <<>>]
          /\ \/ page' = [page EXCEPT !.pc = "control"]
             \/ page' = [page EXCEPT !.pc = "numbering",
                                     !.held = Record("AUDIO", 0, 0, capture.buffer)]
          /\ UNCHANGED <<sender, link>> /\ UNCHANGED <<up, down, server, audio>>
      BY <1>7 DEF Flush, wire
    <2>2. /\ capture' \in CaptureState /\ capture'.queue = capture.queue
          /\ capture'.buffer = <<>>
      BY <1>1, <2>1, NoRecordFacts DEF CaptureState
    <2>3. Record("AUDIO", 0, 0, capture.buffer) \in Records
      <3>1. /\ capture.buffer \in AudioUnits /\ 0 \in 0 .. MaxGeneration
            /\ 0 \in 0 .. MaxUnits + MaxPresses
        BY QueueFacts, BlocksAreShort
      <3> QED
        BY <3>1, RecordFacts DEF Kinds
    <2>4. page' \in PageState
      BY <1>1, <2>1, <2>3 DEF PageState
    <2> QED
      BY <2>1, <2>2, <2>4, PageOnly
  <1>8. CASE NumberRest
    <2>1. /\ page.pc = "numbering"
          /\ UNCHANGED <<capture, link, audio, up, down, receiver, session, dashboard>>
      BY <1>8 DEF NumberRest, wire, server
    <2>2. /\ sender.next \in 0 .. MaxUnits + MaxPresses /\ sender.next + 1 \in Nat \ {0}
      BY <2>1, NumberLeft
    <2>3. CASE sender.status = "STREAMING"
      <3>1. /\ page' = [page EXCEPT !.pc = "queueing",
                          !.held = Numbered("AUDIO", sender.generation, @.units)]
            /\ sender' = [sender EXCEPT !.next = @ + 1]
        BY <1>8, <2>3 DEF NumberRest
      <3>2. Numbered("AUDIO", sender.generation, page.held.units) \in Records
        <4>1. page.held.units \in AudioUnits /\ sender.generation \in 0 .. MaxGeneration
          BY SMTT(40), QueueFacts, FieldsOfRecords, BlocksAreShort
        <4> QED
          BY <2>2, <4>1, RecordFacts DEF Numbered, Kinds
      <3>3. page' \in PageState
        BY <1>1, <3>1, <3>2 DEF PageState
      <3>4. /\ sender' \in SenderState /\ sender'.queue = sender.queue
            /\ sender'.pc = sender.pc /\ sender'.out = sender.out
            /\ sender'.generation = sender.generation
            /\ sender'.status = sender.status /\ sender'.closed = sender.closed
        BY <1>1, <2>2, <3>1 DEF SenderState
      <3> QED
        BY <1>1, <2>1, <3>3, <3>4, QueueFacts, TypesAside DEF Aside
    <2>4. CASE sender.status # "STREAMING"
      <3>1. page' = [page EXCEPT !.pc = "idle", !.held = NoRecord] /\ UNCHANGED sender
        BY <1>8, <2>4 DEF NumberRest
      <3>2. page' \in PageState
        BY <1>1, <3>1, NoRecordFacts DEF PageState
      <3> QED
        BY <1>1, <2>1, <3>1, <3>2, QueueFacts, TypesAside DEF Aside
    <2> QED
      BY <2>3, <2>4
  <1>9. CASE QueueRest \/ QueueControl
    <2>1. /\ UNCHANGED <<capture, link, audio, up, down, receiver, session, dashboard>>
          /\ sender' = Enqueued(page.held) /\ page.held \in Records
          /\ \/ page' = [page EXCEPT !.held = NoRecord, !.pc = "control"]
             \/ page' = [page EXCEPT !.held = NoRecord, !.pc = "idle"]
             \/ page' = [page EXCEPT !.held = NoRecord, !.pc = "closing"]
      BY <1>9, QueueFacts DEF QueueRest, QueueControl, wire, server
    <2>2. page' \in PageState
      BY <1>1, <2>1, NoRecordFacts DEF PageState
    <2>3. /\ sender' \in SenderState /\ Len(sender'.queue) <= SenderDepth
          /\ MayFail(sender, sender') /\ sender'.pc = sender.pc
      BY <1>1, <2>1, QueueFacts, EnqueuedFacts
    <2> QED
      BY <1>1, <2>1, <2>2, <2>3, QueueFacts, TypesAside DEF Aside, MayFail
  <1>10. CASE NumberControl
    <2>1. /\ page.pc = "control"
          /\ UNCHANGED <<capture, link, audio, up, down, receiver, session, dashboard>>
      BY <1>10 DEF NumberControl, wire, server
    <2>2. /\ sender.next \in 0 .. MaxUnits + MaxPresses /\ sender.next + 1 \in Nat \ {0}
          /\ page.button \in Buttons
      BY <2>1, NumberLeft DEF Holding, PageHolds
    <2>3. CASE MayNumber
      <3> DEFINE generation == sender.generation + IF page.button = "RESUME" THEN 1 ELSE 0
      <3>1. /\ page' = [page EXCEPT !.pc = "controlQueueing",
                           !.held = Numbered(page.button, generation, <<>>)]
            /\ sender' = [sender EXCEPT !.next = @ + 1]
        BY <1>10, <2>3 DEF NumberControl
      <3>2. generation \in 0 .. MaxGeneration
        <4>1. sender.generation \in 1 .. MaxGeneration
          BY QueueFacts
        <4>2. page.button = "RESUME" => sender.generation < MaxGeneration
          BY <2>1, <2>3 DEF Room, MayNumber
        <4> QED
          BY <4>1, <4>2, BlocksAreShort
      <3> HIDE DEF generation
      <3>3. Numbered(page.button, generation, <<>>) \in Records
        BY <2>2, <3>2, NoRecordFacts, RecordFacts DEF Numbered, Kinds
      <3>4. page' \in PageState
        BY <1>1, <3>1, <3>3 DEF PageState
      <3>5. /\ sender' \in SenderState /\ sender'.queue = sender.queue
            /\ sender'.pc = sender.pc /\ sender'.out = sender.out
            /\ sender'.generation = sender.generation
            /\ sender'.status = sender.status /\ sender'.closed = sender.closed
        BY <1>1, <2>2, <3>1 DEF SenderState
      <3> QED
        BY <1>1, <2>1, <3>4, <3>5, QueueFacts, TypesAside DEF Aside
    <2>4. CASE ~MayNumber
      <3>1. page' = [page EXCEPT !.pc = "idle"] /\ UNCHANGED sender
        BY <1>10, <2>4 DEF NumberControl
      <3>2. page' \in PageState
        BY <1>1, <3>1 DEF PageState
      <3> QED
        BY <1>1, <2>1, <3>1, <3>2, QueueFacts, TypesAside DEF Aside
    <2> QED
      BY <2>3, <2>4
  <1>11. CASE CloseCapture
    <2>1. /\ capture' = [capture EXCEPT !.admitting = FALSE, !.stop = TRUE,
                                        !.opened = FALSE, !.stream = "none"]
          /\ page' = [page EXCEPT !.pc = "idle"]
          /\ UNCHANGED <<sender, link>> /\ UNCHANGED <<up, down, server, audio>>
      BY <1>11 DEF CloseCapture, wire
    <2>2. /\ capture' \in CaptureState /\ capture'.queue = capture.queue
          /\ capture'.buffer = capture.buffer
      BY <1>1, <2>1 DEF CaptureState
    <2>3. page' \in PageState
      BY <1>1, <2>1 DEF PageState
    <2> QED
      BY <2>1, <2>2, <2>3, PageOnly
  <1> QED
    BY <1>3, <1>5, <1>6, <1>7, <1>8, <1>9, <1>10, <1>11 DEF PageNext

\* The record at the head of the wire.
LEMMA HeadOfWire ==
    ASSUME Types, up # <<>>
    PROVE  /\ Head(up) \in Records /\ Tail(up) \in Seq(Records)
           /\ Head(up).seq \in Nat /\ Head(up).generation \in Nat
           /\ Head(up).units \in AudioUnits /\ Head(up).kind \in Kinds \cup {"none"}
  <1>1. Head(up) \in Records /\ Tail(up) \in Seq(Records)
    BY QueueFacts, HeadTailProperties
  <1> QED
    BY <1>1, FieldsOfRecords

LEMMA AcceptedFacts ==
    ASSUME receiver \in ReceiverState, NEW record \in Records
    PROVE  /\ Accepted(record) \in ReceiverState
           /\ Accepted(record).pc = receiver.pc /\ Accepted(record).closed = receiver.closed
           /\ Accepted(record).next = receiver.next + 1
           /\ Accepted(record).generation = record.generation
           /\ record.kind \in {"START", "RESUME"} => Accepted(record).state = "STREAMING"
           /\ record.kind = "PAUSE" => Accepted(record).state = "PAUSED"
           /\ record.kind = "END" => Accepted(record).state = "ENDED"
           /\ record.kind \notin {"START", "RESUME", "PAUSE", "END"}
                 => Accepted(record).state = receiver.state
  <1>1. record.generation \in Nat
    BY FieldsOfRecords
  <1> DEFINE s == CASE record.kind \in {"START", "RESUME"} -> "STREAMING"
                    [] record.kind = "PAUSE" -> "PAUSED"
                    [] record.kind = "END" -> "ENDED"
                    [] OTHER -> receiver.state
  <1>2. /\ record.kind \in {"START", "RESUME"} => s = "STREAMING"
        /\ record.kind = "PAUSE" => s = "PAUSED"
        /\ record.kind = "END" => s = "ENDED"
        /\ record.kind \notin {"START", "RESUME", "PAUSE", "END"} => s = receiver.state
    OBVIOUS
  <1>3. Accepted(record) = [receiver EXCEPT !.next = @ + 1,
                                            !.generation = record.generation, !.state = s]
    BY DEF Accepted
  <1> HIDE DEF s
  <1>4. s \in {"AWAIT_START", "STREAMING", "PAUSED", "ENDED", "FAILED"}
    BY <1>2 DEF ReceiverState
  <1>5. /\ Accepted(record) \in ReceiverState
        /\ Accepted(record).pc = receiver.pc /\ Accepted(record).closed = receiver.closed
        /\ Accepted(record).next = receiver.next + 1
        /\ Accepted(record).generation = record.generation
        /\ Accepted(record).state = s
    <2>1. receiver.next \in Nat /\ receiver.next + 1 \in Nat
      BY DEF ReceiverState
    <2>2. Accepted(record) \in ReceiverState
      BY <1>1, <1>3, <1>4, <2>1 DEF ReceiverState
    <2>3. /\ Accepted(record).pc = receiver.pc /\ Accepted(record).closed = receiver.closed
          /\ Accepted(record).next = receiver.next + 1
          /\ Accepted(record).generation = record.generation
          /\ Accepted(record).state = s
      BY <1>3 DEF ReceiverState
    <2> QED
      BY <2>2, <2>3
  <1> QED
    BY <1>2, <1>5

\* A failing receiver is stopped, its session closed and its connection too.
HasFailed ==
    /\ receiver'.pc = "stopped" /\ session'.status = "closed" /\ ~link'.server
    /\ session'.generation = session.generation
    /\ link'.client = link.client

LEMMA FailsFacts ==
    ASSUME Types, NEW r \in ReceiverState,
           \/ \E reason \in Reasons : Fails(r, reason)
           \/ Overloads(r)
    PROVE  /\ receiver' \in ReceiverState /\ session' \in SessionState
           /\ link' \in [client : BOOLEAN, server : BOOLEAN]
           /\ HasFailed /\ receiver'.state # "AWAIT_START" /\ UNCHANGED <<down, audio>>
  <1>1. session \in SessionState /\ link \in [client : BOOLEAN, server : BOOLEAN]
    BY StateTypes
  <1>2. ASSUME NEW reason \in Reasons, Fails(r, reason)
        PROVE  /\ receiver' \in ReceiverState /\ session' \in SessionState
               /\ link' \in [client : BOOLEAN, server : BOOLEAN]
               /\ HasFailed /\ receiver'.state # "AWAIT_START" /\ UNCHANGED <<down, audio>>
    <2>1. /\ receiver' = [r EXCEPT !.pc = "stopped", !.closed = TRUE, !.state = "FAILED",
                                   !.failure = reason]
          /\ session' = [session EXCEPT !.status = "closed"]
          /\ link' = [link EXCEPT !.server = FALSE] /\ UNCHANGED <<down, audio>>
      BY <1>2 DEF Fails, Closed, CutOff
    <2>2. receiver' \in ReceiverState /\ receiver'.pc = "stopped" /\ receiver'.state = "FAILED"
      BY <2>1 DEF ReceiverState
    <2>3. /\ session' \in SessionState /\ session'.status = "closed"
          /\ session'.generation = session.generation
      BY <1>1, <2>1 DEF SessionState
    <2> QED
      BY <1>1, <2>1, <2>2, <2>3 DEF HasFailed
  <1>3. ASSUME Overloads(r)
        PROVE  /\ receiver' \in ReceiverState /\ session' \in SessionState
               /\ link' \in [client : BOOLEAN, server : BOOLEAN]
               /\ HasFailed /\ receiver'.state # "AWAIT_START" /\ UNCHANGED <<down, audio>>
    <2>1. /\ receiver' = [r EXCEPT !.pc = "stopped", !.closed = TRUE,
                            !.state = IF @ = "ENDED" THEN @ ELSE "FAILED",
                            !.failure = IF r.state = "ENDED" THEN @ ELSE "SESSION_REJECTED"]
          /\ session' = [session EXCEPT !.status = "closed"]
          /\ link' = [link EXCEPT !.server = FALSE] /\ UNCHANGED <<down, audio>>
      BY <1>3 DEF Overloads, Closed, CutOff
    <2>2. "SESSION_REJECTED" \in Reasons
      BY DEF Reasons
    <2>3. /\ receiver' \in ReceiverState /\ receiver'.pc = "stopped"
          /\ receiver'.state \in {"ENDED", "FAILED"}
      BY <2>1, <2>2 DEF ReceiverState
    <2>4. /\ session' \in SessionState /\ session'.status = "closed"
          /\ session'.generation = session.generation
      BY <1>1, <2>1 DEF SessionState
    <2> QED
      BY <1>1, <2>1, <2>3, <2>4 DEF HasFailed
  <1> QED
    BY <1>2, <1>3

LEMMA AnswerFacts ==
    ASSUME Types, NEW kind \in {"ACK", "ERROR"}, NEW seq \in Nat, Answer(kind, seq)
    PROVE  /\ down' \in Seq(AnswerRecord)
           /\ down = <<>> => down' = <<[kind |-> kind, seq |-> seq]>>
  <1>1. [kind |-> kind, seq |-> seq] \in AnswerRecord
    BY DEF AnswerRecord
  <1>2. down \in Seq(AnswerRecord) /\ down' = Append(down, [kind |-> kind, seq |-> seq])
    BY QueueFacts DEF Answer
  <1>3. down' \in Seq(AnswerRecord)
    BY <1>1, <1>2, AppendProperties
  <1>4. down = <<>> => down' = <<[kind |-> kind, seq |-> seq]>>
    BY <1>2
  <1> QED
    BY <1>3, <1>4

LEMMA TypesAtServer ==
    ASSUME Types, UNCHANGED client, up' \in Seq(Records), down' \in Seq(AnswerRecord),
           link' \in [client : BOOLEAN, server : BOOLEAN], receiver' \in ReceiverState,
           session' \in SessionState, dashboard' \in {"idle", "finishing", "done"},
           audio' \in AudioState
    PROVE  Types'
  BY DEF Types, ClientTypes, WireTypes, ServerTypes, client

LEMMA TakesFacts ==
    ASSUME Types, NEW kind, Takes(kind)
    PROVE  /\ receiver.pc = "waiting" /\ link.server /\ up # <<>> /\ Head(up) \in Records
           /\ Head(up).kind = kind /\ Reason(Head(up)) = "none"
           /\ up' = Tail(up) /\ up' \in Seq(Records) /\ UNCHANGED <<client, dashboard>>
           /\ Accepted(Head(up)) \in ReceiverState
           /\ Accepted(Head(up)).pc = "waiting"
           /\ Accepted(Head(up)).generation = Head(up).generation
           /\ Accepted(Head(up)).next = receiver.next + 1
  <1>1. /\ receiver.pc = "waiting" /\ link.server /\ up # <<>>
        /\ Head(up).kind = kind /\ Reason(Head(up)) = "none"
        /\ up' = Tail(up) /\ UNCHANGED <<client, dashboard>>
    BY DEF Takes
  <1> QED
    BY <1>1, HeadOfWire, StateTypes, AcceptedFacts

\* What a step of the receiver comes to: it fails, or it is one of seven more.
Cut ==
    /\ HasFailed /\ receiver'.state # "AWAIT_START"
    /\ receiver.pc \in {"waiting", "pausing"}
    /\ up' = up \/ (up # <<>> /\ up' = Tail(up))
    /\ UNCHANGED <<client, down, dashboard, audio>>

Starts ==
    /\ Takes("START")
    /\ session.status = "new" /\ Head(up).generation = session.generation
    /\ receiver' = Accepted(Head(up))
    /\ session' = [session EXCEPT !.status = "streaming"]
    /\ Answer("ACK", Head(up).seq) /\ UNCHANGED <<link, audio>>

Admits ==
    /\ Takes("AUDIO")
    /\ session.generation = Head(up).generation
    /\ receiver' = Accepted(Head(up))
    /\ session' = [session EXCEPT !.status = "streaming"]
    /\ audio' = [audio EXCEPT !.admitted = @ \o Head(up).units]
    /\ Answer("ACK", Head(up).seq) /\ UNCHANGED link

Pauses ==
    /\ Takes("PAUSE")
    /\ receiver' = [Accepted(Head(up)) EXCEPT !.pc = "pausing"]
    /\ session' = [session EXCEPT !.status = "pausing"]
    /\ UNCHANGED <<down, link, audio>>

Settles ==
    /\ receiver.pc = "pausing"
    /\ receiver' = [receiver EXCEPT !.pc = "waiting"]
    /\ Answer("ACK", receiver.next - 1)
    /\ UNCHANGED <<client, up, link, session, dashboard, audio>>

Resumes ==
    /\ Takes("RESUME") /\ session.status = "paused"
    /\ receiver' = Accepted(Head(up))
    /\ session' = [session EXCEPT !.status = "pending", !.generation = @ + 1]
    /\ Answer("ACK", Head(up).seq) /\ UNCHANGED <<link, audio>>

Ends ==
    /\ Takes("END")
    /\ receiver' = [Accepted(Head(up)) EXCEPT !.pc = "stopped", !.closed = TRUE]
    /\ LET open == session.status \in {"pending", "streaming", "pausing", "paused"}
       IN  /\ session' = IF open THEN [session EXCEPT !.status = "stopping"] ELSE session
           /\ Answer(IF open THEN "ACK" ELSE "ERROR", Head(up).seq)
    /\ link' = [link EXCEPT !.server = FALSE] /\ UNCHANGED audio

LEMMA FailsToCut ==
    ASSUME Types, NEW r \in ReceiverState,
           \/ \E reason \in Reasons : Fails(r, reason)
           \/ Overloads(r),
           receiver.pc \in {"waiting", "pausing"},
           up' = up \/ (up # <<>> /\ up' = Tail(up)), UNCHANGED <<client, dashboard>>
    PROVE  Types' /\ Cut
  <1>1. /\ receiver' \in ReceiverState /\ session' \in SessionState
        /\ link' \in [client : BOOLEAN, server : BOOLEAN]
        /\ HasFailed /\ receiver'.state # "AWAIT_START" /\ UNCHANGED <<down, audio>>
    BY FailsFacts
  <1>2. up' \in Seq(Records) /\ down' \in Seq(AnswerRecord)
    BY <1>1, QueueFacts, HeadOfWire
  <1>3. dashboard' \in {"idle", "finishing", "done"} /\ audio' \in AudioState
    BY <1>1, StateTypes
  <1> QED
    BY <1>1, <1>2, <1>3, TypesAtServer DEF Cut

LEMMA ReasonIsReason ==
    ASSUME Types, NEW record
    PROVE  Reason(record) \in Reasons
  BY DEF Reason, Reasons

LEMMA ReceiverTypes ==
    ASSUME Types, Turns, ReceiverNext
    PROVE  /\ Types'
           /\ \/ Cut \/ Starts \/ Admits \/ Pauses \/ Settles \/ Resumes \/ Ends
              \/ ReceiverLeaves
  <1>1. /\ receiver \in ReceiverState /\ session \in SessionState /\ audio \in AudioState
        /\ link \in [client : BOOLEAN, server : BOOLEAN]
        /\ dashboard \in {"idle", "finishing", "done"}
        /\ down \in Seq(AnswerRecord) /\ up \in Seq(Records)
    BY StateTypes, QueueFacts
  <1>2. /\ "SESSION_REJECTED" \in Reasons /\ "IO_TIMEOUT" \in Reasons
        /\ "CONNECTION_CLOSED" \in Reasons
    BY DEF Reasons
  <1> DEFINE Rejects(kind) == /\ Takes(kind)
                              /\ \/ Fails(Accepted(Head(up)), "SESSION_REJECTED")
                                 \/ Overloads(Accepted(Head(up)))
  <1>3. ASSUME NEW kind, Rejects(kind)
        PROVE  Types' /\ Cut
    BY <1>2, <1>3, TakesFacts, FailsToCut
  \* The records that are accepted and answered at once.
  <1>4. ASSUME NEW kind, Takes(kind), NEW answer \in {"ACK", "ERROR"},
               receiver' \in ReceiverState, session' \in SessionState,
               link' \in [client : BOOLEAN, server : BOOLEAN], audio' \in AudioState,
               Answer(answer, Head(up).seq) \/ UNCHANGED down
        PROVE  Types'
    <2>1. up' \in Seq(Records) /\ UNCHANGED <<client, dashboard>> /\ Head(up).seq \in Nat
      BY <1>4, TakesFacts, FieldsOfRecords
    <2>2. down' \in Seq(AnswerRecord)
      BY <1>1, <1>4, <2>1, AnswerFacts
    <2> QED
      BY <1>1, <1>4, <2>1, <2>2, TypesAtServer
  <1>5. CASE ReceiverRefuses
    <2>1. /\ receiver.pc = "waiting" /\ up # <<>> /\ up' = Tail(up)
          /\ Fails(receiver, Reason(Head(up))) /\ UNCHANGED <<client, dashboard>>
      BY <1>5 DEF ReceiverRefuses
    <2> QED
      BY <1>1, <2>1, ReasonIsReason, FailsToCut
  <1>6. CASE ReceiverStarts
    <2>1. Rejects("START") \/ Starts
      BY <1>6 DEF ReceiverStarts, Starts
    <2>2. ASSUME Starts
          PROVE  Types'
      <3>1. Takes("START") /\ receiver' \in ReceiverState
        BY <2>2, TakesFacts DEF Starts
      <3>2. session' \in SessionState
        BY <1>1, <2>2 DEF Starts, SessionState
      <3> QED
        BY <1>1, <1>4, <2>2, <3>1, <3>2 DEF Starts
    <2> QED
      BY <1>3, <2>1, <2>2
  <1>7. CASE ReceiverAdmitsAudio
    <2>1. Rejects("AUDIO") \/ Admits
      BY <1>7 DEF ReceiverAdmitsAudio, Admits
    <2>2. ASSUME Admits
          PROVE  Types'
      <3>1. Takes("AUDIO") /\ receiver' \in ReceiverState
        BY <2>2, TakesFacts DEF Admits
      <3>2. session' \in SessionState
        BY <1>1, <2>2 DEF Admits, SessionState
      <3>3. audio.admitted \o Head(up).units \in AudioUnits
        <4>1. audio.admitted \in AudioUnits /\ Head(up).units \in AudioUnits
          BY <3>1, QueueFacts, HeadOfWire, TakesFacts
        <4> QED
          BY <4>1, ConcatProperties DEF AudioUnits
      <3>4. audio' \in AudioState
        BY <1>1, <2>2, <3>3 DEF Admits, AudioState
      <3> QED
        BY <1>1, <1>4, <2>2, <3>1, <3>2, <3>4 DEF Admits
    <2> QED
      BY <1>3, <2>1, <2>2
  <1>8. CASE ReceiverPauses
    <2>1. Rejects("PAUSE") \/ Pauses
      BY <1>8 DEF ReceiverPauses, Pauses
    <2>2. ASSUME Pauses
          PROVE  Types'
      <3>1. Takes("PAUSE") /\ Accepted(Head(up)) \in ReceiverState
        BY <2>2, TakesFacts DEF Pauses
      <3>2. receiver' \in ReceiverState
        BY <2>2, <3>1 DEF Pauses, ReceiverState
      <3>3. session' \in SessionState
        BY <1>1, <2>2 DEF Pauses, SessionState
      <3> QED
        BY <1>1, <1>4, <2>2, <3>1, <3>2, <3>3 DEF Pauses
    <2> QED
      BY <1>3, <2>1, <2>2
  <1>9. CASE PauseSettles
    <2>1. \/ Settles
          \/ /\ receiver.pc = "pausing" /\ Fails(receiver, "IO_TIMEOUT")
             /\ UNCHANGED <<client, up, dashboard>>
      BY <1>9 DEF PauseSettles, Settles
    <2>2. ASSUME Settles
          PROVE  Types'
      <3>1. receiver' \in ReceiverState
        BY <1>1, <2>2 DEF Settles, ReceiverState
      <3>2. receiver.next - 1 \in Nat
        BY <1>1, <2>2, QueueFacts, FieldsOfRecords DEF Settles, Turns, PauseWaits,
           Accepting
      <3>3. down' \in Seq(AnswerRecord)
        BY <2>2, <3>2, AnswerFacts DEF Settles
      <3> QED
        BY <1>1, <2>2, <3>1, <3>3, TypesAtServer DEF Settles
    <2> QED
      BY <1>1, <1>2, <2>1, <2>2, FailsToCut
  <1>10. CASE ReceiverResumes
    <2>1. Rejects("RESUME") \/ Resumes
      BY <1>10 DEF ReceiverResumes, Resumes
    <2>2. ASSUME Resumes
          PROVE  Types'
      <3>1. Takes("RESUME") /\ receiver' \in ReceiverState
        BY <2>2, TakesFacts DEF Resumes
      <3>2. session' \in SessionState
        <4>1. session' = [session EXCEPT !.status = "pending", !.generation = @ + 1]
          BY <2>2 DEF Resumes
        <4>2. session.generation + 1 \in Nat
          BY <1>1 DEF SessionState
        <4> QED
          BY <1>1, <4>1, <4>2 DEF SessionState
      <3> QED
        BY <1>1, <1>4, <2>2, <3>1, <3>2 DEF Resumes
    <2> QED
      BY <1>3, <2>1, <2>2
  <1>11. CASE ReceiverEnds
    <2>1. Rejects("END") \/ Ends
      BY <1>11 DEF ReceiverEnds, Ends, CutOff
    <2>2. ASSUME Ends
          PROVE  Types'
      <3>1. Takes("END") /\ Accepted(Head(up)) \in ReceiverState
        BY <2>2, TakesFacts DEF Ends
      <3>2. receiver' \in ReceiverState
        BY <2>2, <3>1 DEF Ends, ReceiverState
      <3>3. session' \in SessionState /\ link' \in [client : BOOLEAN, server : BOOLEAN]
        <4>1. \/ session' = session \/ session' = [session EXCEPT !.status = "stopping"]
          BY <2>2 DEF Ends
        <4>2. link' = [link EXCEPT !.server = FALSE]
          BY <2>2 DEF Ends
        <4> QED
          BY <1>1, <4>1, <4>2 DEF SessionState
      <3> QED
        BY <1>1, <1>4, <2>2, <3>1, <3>2, <3>3 DEF Ends
    <2> QED
      BY <1>3, <2>1, <2>2
  <1>12. CASE ReceiverBroken \/ ReceiverTimesOut
    <2>1. /\ receiver.pc \in {"waiting", "pausing"} /\ UNCHANGED <<client, up, dashboard>>
          /\ \/ Fails(receiver, "CONNECTION_CLOSED") \/ Fails(receiver, "IO_TIMEOUT")
      BY <1>12 DEF ReceiverBroken, ReceiverTimesOut
    <2> QED
      BY <1>1, <1>2, <2>1, FailsToCut
  <1>13. CASE ReceiverLeaves
    <2>1. /\ receiver' = [receiver EXCEPT !.pc = "stopped"]
          /\ UNCHANGED <<client, up, down, link, session, dashboard, audio>>
      BY <1>13 DEF ReceiverLeaves, wire
    <2>2. receiver' \in ReceiverState
      BY <1>1, <2>1 DEF ReceiverState
    <2> QED
      BY <1>1, <1>13, <2>1, <2>2, TypesAtServer
  <1> QED
    BY <1>5, <1>6, <1>7, <1>8, <1>9, <1>10, <1>11, <1>12, <1>13 DEF ReceiverNext

LEMMA OutsideTypes ==
    ASSUME Types, OutsideNext
    PROVE  /\ Types' /\ UNCHANGED <<client, audio>>
           /\ receiver'.pc = receiver.pc /\ receiver'.state = receiver.state
           /\ receiver'.next = receiver.next /\ receiver'.generation = receiver.generation
           /\ session'.generation = session.generation
           /\ \/ UNCHANGED <<up, down>> \/ (up' = <<>> /\ down' = <<>>)
           /\ link'.server => link.server
           /\ \/ UNCHANGED <<session, receiver>>
              \/ receiver'.closed = TRUE /\ session'.status = "closed"
              \/ /\ UNCHANGED receiver /\ session.status # "closed"
                 /\ \/ /\ session.status = "pausing" /\ session'.status = "paused"
                    \/ session.status = "stopping" /\ session'.status = "completed"
                    \/ session'.status = "stopping"
  <1>1. /\ receiver \in ReceiverState /\ session \in SessionState /\ audio \in AudioState
        /\ link \in [client : BOOLEAN, server : BOOLEAN]
        /\ dashboard \in {"idle", "finishing", "done"}
        /\ down \in Seq(AnswerRecord) /\ up \in Seq(Records)
    BY StateTypes, QueueFacts
  <1>2. /\ UNCHANGED <<client, audio>>
        /\ UNCHANGED receiver \/ receiver' = [receiver EXCEPT !.closed = TRUE]
        /\ \/ UNCHANGED <<up, down>> \/ (up' = <<>> /\ down' = <<>>)
        /\ \/ UNCHANGED link \/ link' = [link EXCEPT !.server = FALSE]
           \/ link' = [client |-> FALSE, server |-> FALSE]
        /\ dashboard' \in {"idle", "finishing", "done"}
        /\ \/ UNCHANGED <<session, receiver>>
           \/ /\ receiver' = [receiver EXCEPT !.closed = TRUE]
              /\ session' = [session EXCEPT !.status = "closed"]
           \/ /\ UNCHANGED receiver /\ session.status # "closed"
              /\ \/ /\ session.status = "pausing"
                    /\ session' = [session EXCEPT !.status = "paused"]
                 \/ /\ session.status = "stopping"
                    /\ session' = [session EXCEPT !.status = "completed"]
                 \/ session' = [session EXCEPT !.status = "stopping"]
    <2>0. dashboard \in {"idle", "finishing", "done"}
      BY <1>1
    <2>1. CASE SessionDrains
      BY <2>0, <2>1 DEF SessionDrains, wire
    <2>2. CASE SessionCloses
      BY <2>0, <2>2 DEF SessionCloses, CloseTransport, CutOff, Closed
    <2>3. CASE FinishRequested
      BY <2>0, <2>3 DEF FinishRequested, CloseTransport, CutOff, Closed
    <2>4. CASE StopListening
      BY <2>0, <2>4 DEF StopListening, CutOff
    <2>5. CASE TunnelBreaks
      BY <2>0, <2>5 DEF TunnelBreaks, server
    <2> QED
      BY <2>1, <2>2, <2>3, <2>4, <2>5 DEF OutsideNext
  <1>3. /\ receiver' \in ReceiverState
        /\ receiver'.pc = receiver.pc /\ receiver'.state = receiver.state
        /\ receiver'.next = receiver.next /\ receiver'.generation = receiver.generation
        /\ UNCHANGED receiver \/ receiver'.closed = TRUE
    BY <1>1, <1>2 DEF ReceiverState
  <1>4. /\ session' \in SessionState /\ session'.generation = session.generation
    BY <1>1, <1>2 DEF SessionState
  <1>5. /\ link' \in [client : BOOLEAN, server : BOOLEAN] /\ (link'.server => link.server)
    <2>1. \/ UNCHANGED link \/ link' = [link EXCEPT !.server = FALSE]
          \/ link' = [client |-> FALSE, server |-> FALSE]
      BY <1>2
    <2>2. CASE UNCHANGED link
      BY <1>1, <2>2
    <2>3. CASE link' = [link EXCEPT !.server = FALSE]
      BY <1>1, <2>3
    <2>4. CASE link' = [client |-> FALSE, server |-> FALSE]
      BY <2>4
    <2> QED
      BY <2>1, <2>2, <2>3, <2>4
  <1>6. up' \in Seq(Records) /\ down' \in Seq(AnswerRecord)
    <2>1. \/ UNCHANGED <<up, down>> \/ (up' = <<>> /\ down' = <<>>)
      BY <1>2
    <2> QED
      BY <1>1, <2>1, EmptySeq
  <1>7. Types'
    BY <1>1, <1>2, <1>3, <1>4, <1>5, <1>6, TypesAtServer
  <1>8. \/ UNCHANGED <<session, receiver>>
        \/ receiver'.closed = TRUE /\ session'.status = "closed"
        \/ /\ UNCHANGED receiver /\ session.status # "closed"
           /\ \/ /\ session.status = "pausing" /\ session'.status = "paused"
              \/ session.status = "stopping" /\ session'.status = "completed"
              \/ session'.status = "stopping"
    BY <1>1, <1>2 DEF SessionState, ReceiverState
  <1> QED
    BY <1>2, <1>3, <1>4, <1>5, <1>7, <1>8

-----------------------------------------------------------------------------
(* The conversation: steps of the sender *)

\* What a step of the sender comes to: it stops, or it is one of four more.
Stopping ==
    /\ sender'.pc = "stopped" /\ sender'.queue = sender.queue
    /\ MayFail(sender, sender')
    /\ down' = down \/ (down # <<>> /\ down' = Tail(down))
    /\ link'.server = link.server
    /\ UNCHANGED <<capture, page, up, receiver, session, dashboard, audio>>

Connects ==
    /\ sender.pc = "connecting" /\ receiver.pc = "accepting"
    /\ sender' = [sender EXCEPT !.pc = "waiting", !.out = StartRecord]
    /\ link' = [client |-> TRUE, server |-> TRUE] /\ up' = <<StartRecord>>
    /\ receiver' = [receiver EXCEPT !.pc = "waiting"]
    /\ UNCHANGED <<capture, page, down, session, dashboard, audio>>

AckRead ==
    /\ sender.pc = "waiting" /\ down # <<>> /\ down' = Tail(down)
    /\ Head(down).kind = "ACK" /\ sender' = AfterAck(sender)
    /\ link'.server = link.server
    /\ audio' = [audio EXCEPT !.acknowledged = @ \o sender.out.units]
    /\ UNCHANGED <<capture, page, up, receiver, session, dashboard>>

DeviceResumes ==
    /\ sender.pc = "resuming" /\ capture.stream # "none"
    /\ capture' = [capture EXCEPT !.stream = "running", !.admitting = TRUE, !.opened = TRUE]
    /\ sender' = [sender EXCEPT !.pc = "idle"]
    /\ page' = [page EXCEPT !.early = @ \/ page.pc # "idle"]
    /\ UNCHANGED <<up, down, link, receiver, session, dashboard, audio>>

LEMMA SenderSplits ==
    ASSUME Types, SenderNext
    PROVE  Stopping \/ Connects \/ SenderSends \/ AckRead \/ DeviceResumes
  <1>1. sender \in SenderState /\ link \in [client : BOOLEAN, server : BOOLEAN]
    BY StateTypes
  <1>2. ASSUME NEW reason \in Reasons, GiveUp(reason),
               down' = down \/ (down # <<>> /\ down' = Tail(down)),
               UNCHANGED <<capture, page, up, receiver, session, dashboard, audio>>
        PROVE  Stopping
    BY <1>1, <1>2, GiveUpFacts DEF Stopping
  <1>3. /\ "SCOPE_MISMATCH" \in Reasons /\ "SESSION_REJECTED" \in Reasons
        /\ "CONNECTION_CLOSED" \in Reasons /\ "MICROPHONE_OPEN_FAILED" \in Reasons
    BY DEF Reasons
  <1>4. CASE SenderConnects
    <2>1. \/ Connects
          \/ /\ GiveUp("CONNECTION_CLOSED") /\ UNCHANGED down
             /\ UNCHANGED <<capture, page, up, receiver, session, dashboard, audio>>
      BY <1>4 DEF SenderConnects, Connects
    <2> QED
      BY <1>2, <1>3, <2>1
  <1>5. CASE SenderStops
    <2>1. /\ sender' = [sender EXCEPT !.pc = "stopped"]
          /\ link' = [link EXCEPT !.client = FALSE]
          /\ UNCHANGED <<capture, page, up, down, receiver, session, dashboard, audio>>
      BY <1>5 DEF SenderStops, server
    <2>2. /\ sender'.pc = "stopped" /\ sender'.queue = sender.queue
          /\ MayFail(sender, sender')
      BY <1>1, <2>1 DEF SenderState, MayFail
    <2> QED
      BY <1>1, <2>1, <2>2 DEF Stopping
  <1>6. CASE SenderReadsAnswer
    <2>1. /\ sender.pc = "waiting" /\ down # <<>> /\ down' = Tail(down)
          /\ UNCHANGED <<capture, page, up, receiver, session, dashboard>>
      BY <1>6 DEF SenderReadsAnswer, server
    <2>2. \/ /\ Head(down).kind = "ACK" /\ sender' = AfterAck(sender)
             /\ link' = link \/ link' = [link EXCEPT !.client = FALSE]
             /\ audio' = [audio EXCEPT !.acknowledged = @ \o sender.out.units]
          \/ GiveUp("SCOPE_MISMATCH") /\ UNCHANGED audio
          \/ GiveUp("SESSION_REJECTED") /\ UNCHANGED audio
      BY <1>6 DEF SenderReadsAnswer
    <2>3. CASE /\ Head(down).kind = "ACK" /\ sender' = AfterAck(sender)
               /\ link' = link \/ link' = [link EXCEPT !.client = FALSE]
               /\ audio' = [audio EXCEPT !.acknowledged = @ \o sender.out.units]
      <3>1. link'.server = link.server
        BY <1>1, <2>3
      <3> QED
        BY <2>1, <2>3, <3>1 DEF AckRead
    <2> QED
      BY <1>2, <1>3, <2>1, <2>2, <2>3
  <1>7. CASE SenderLosesAnswer
    <2>1. /\ GiveUp("CONNECTION_CLOSED") /\ UNCHANGED down
          /\ UNCHANGED <<capture, page, up, receiver, session, dashboard, audio>>
      BY <1>7 DEF SenderLosesAnswer, server
    <2> QED
      BY <1>2, <1>3, <2>1
  <1>8. CASE ResumeCallback
    <2>1. \/ DeviceResumes
          \/ /\ GiveUp("MICROPHONE_OPEN_FAILED") /\ UNCHANGED down
             /\ UNCHANGED <<capture, page, up, receiver, session, dashboard, audio>>
      BY <1>8 DEF ResumeCallback, DeviceResumes, server
    <2> QED
      BY <1>2, <1>3, <2>1
  <1> QED
    BY <1>4, <1>5, <1>6, <1>7, <1>8 DEF SenderNext

\* The record on the wire, and the answer, are the only ones.
LEMMA OneAtATime ==
    ASSUME Turns
    PROVE  /\ up # <<>> => Head(up) = sender.out /\ Tail(up) = <<>>
           /\ down # <<>> => Tail(down) = <<>> /\ Head(down).seq = sender.out.seq
  <1>1. up # <<>> => up = <<sender.out>>
    BY DEF Turns, UnderWay
  <1>2. down # <<>> => \/ down = <<[kind |-> "ACK", seq |-> sender.out.seq]>>
                       \/ down = <<[kind |-> "ERROR", seq |-> sender.out.seq]>>
    BY DEF Turns, Replied
  <1>3. up # <<>> => Head(up) = sender.out /\ Tail(up) = <<>>
    <2>1. ASSUME NEW x, up = <<x>>
          PROVE  Head(up) = x /\ Tail(up) = <<>>
      BY <2>1
    <2> QED
      BY <1>1, <2>1
  <1>4. ASSUME NEW x, down = <<x>>
        PROVE  Head(down) = x /\ Tail(down) = <<>>
    BY <1>4
  <1>5. down # <<>> => Tail(down) = <<>> /\ Head(down).seq = sender.out.seq
    BY <1>2, <1>4
  <1> QED
    BY <1>3, <1>5

LEMMA TurnsAside ==
    ASSUME Turns, Aside
    PROVE  Turns'
  <1>1. Unconnected'
    BY DEF Turns, Unconnected, Aside
  <1>2. Answered'
    BY DEF Turns, Answered, Aside
  <1>3. UnderWay'
    BY DEF Turns, UnderWay, Aside, IsNumbered
  <1>4. Accepting => Accepting'
    BY DEF Accepting, Aside
  <1>5. Replied'
    BY <1>4 DEF Turns, Replied, Aside
  <1>6. PauseWaits'
    BY <1>4 DEF Turns, PauseWaits, Aside
  <1> QED
    BY <1>1, <1>2, <1>3, <1>5, <1>6 DEF Turns, Aside

LEMMA TurnsStopping ==
    ASSUME Types, Turns, Stopping
    PROVE  Turns'
  <1>1. down' = down \/ (down # <<>> /\ down' = <<>>)
    BY OneAtATime DEF Stopping
  <1>2. Unconnected'
    BY <1>1 DEF Turns, Unconnected, Stopping
  <1>3. Answered'
    BY DEF Answered, Stopping
  <1>4. UnderWay'
    BY <1>1 DEF Turns, UnderWay, Stopping, MayFail, IsNumbered
  <1>5. Accepting => Accepting'
    BY DEF Accepting, Stopping, MayFail
  <1>6. Replied'
    BY <1>1, <1>5 DEF Turns, Replied, Stopping, MayFail
  <1>7. PauseWaits'
    BY <1>1, <1>5 DEF Turns, PauseWaits, Stopping, MayFail
  <1> QED
    BY <1>2, <1>3, <1>4, <1>6, <1>7 DEF Turns, Stopping, MayFail

LEMMA TurnsConnects ==
    ASSUME Types, Turns, Serving, Connects
    PROVE  Turns'
  <1>1. /\ sender'.pc = "waiting" /\ sender'.out = StartRecord
        /\ sender'.generation = sender.generation /\ sender'.status = sender.status
        /\ sender'.closed = sender.closed
    BY StateTypes DEF Connects, SenderState
  <1>2. /\ receiver'.pc = "waiting" /\ receiver'.state = receiver.state
        /\ receiver'.next = receiver.next /\ receiver'.generation = receiver.generation
    BY StateTypes DEF Connects, ReceiverState
  <1>3. /\ up = <<>> /\ down = <<>> /\ down' = <<>> /\ receiver.state = "AWAIT_START"
        /\ sender.generation = 1 /\ audio.admitted = audio.acknowledged
    BY DEF Turns, Unconnected, Connects, Serving
  <1>4. up' = <<StartRecord>> /\ up' # <<>> /\ audio' = audio
    BY DEF Connects
  <1>5. Unconnected' /\ Answered' /\ Replied' /\ PauseWaits'
    BY <1>1, <1>2, <1>3 DEF Unconnected, Answered, Replied, PauseWaits
  <1>6. UnderWay'
    BY <1>1, <1>2, <1>3, <1>4 DEF UnderWay
  <1> QED
    BY <1>3, <1>4, <1>5, <1>6 DEF Turns

\* An idle sender's next record finds both ends of one mind.
LEMMA TurnsSends ==
    ASSUME Types, Holding, Turns, SenderSends
    PROVE  Turns'
  <1> DEFINE record == Head(sender.queue)
  <1>1. /\ sender.pc = "idle" /\ ~sender.closed /\ sender.queue # <<>>
        /\ sender' = [sender EXCEPT !.pc = "waiting", !.out = record, !.queue = Tail(@)]
        /\ up' = up \/ up' = Append(up, record)
        /\ UNCHANGED <<down, receiver, audio>>
    BY DEF SenderSends, Send, server
  <1>2. IsNumbered(record)
    <2>1. 1 \in DOMAIN sender.queue /\ record = sender.queue[1]
      BY <1>1, QueueFacts, SeqFacts
    <2> QED
      BY <2>1 DEF Holding, SenderHolds
  <1> HIDE DEF record
  <1>3. /\ sender'.pc = "waiting" /\ sender'.out = record
        /\ sender'.generation = sender.generation /\ sender'.status = sender.status
        /\ sender'.closed = sender.closed
    BY <1>1, StateTypes DEF SenderState
  <1>4. /\ up = <<>> /\ down = <<>> /\ receiver.pc \in {"waiting", "stopped"}
        /\ audio.admitted = audio.acknowledged
        /\ receiver.pc = "waiting" =>
              /\ receiver.generation = sender.generation
              /\ receiver.state \in {"STREAMING", "PAUSED"}
              /\ sender.status = receiver.state
    BY <1>1 DEF Turns, Answered
  <1>5. up' = <<>> \/ up' = <<record>>
    BY <1>1, <1>4
  <1>6. IsNumbered(sender.out)'
    BY <1>1, <1>2, <1>3 DEF IsNumbered
  <1>7. Unconnected' /\ Answered' /\ Replied' /\ PauseWaits'
    BY <1>1, <1>3, <1>4 DEF Unconnected, Answered, Replied, PauseWaits
  <1>8. UnderWay'
    BY <1>1, <1>3, <1>4, <1>5, <1>6 DEF UnderWay
  <1> QED
    BY <1>1, <1>4, <1>7, <1>8 DEF Turns

\* The acknowledgement brings the sender to the state of the receiver.
LEMMA AfterAckFacts ==
    ASSUME Types, Turns, AckRead
    PROVE  /\ Accepting /\ audio.admitted = audio.acknowledged \o sender.out.units
           /\ sender'.out = sender.out /\ sender'.queue = sender.queue
           /\ sender'.closed = sender.closed
           /\ sender'.pc \in {"idle", "resuming", "stopped"}
           /\ sender'.pc = "resuming" <=> sender.out.kind = "RESUME"
           /\ sender'.pc = "stopped" <=> sender.out.kind = "END"
           /\ sender'.generation = sender.out.generation
           /\ sender'.generation = sender.generation
              \/ (sender.out.kind = "RESUME" /\ sender'.generation = sender.generation + 1)
           /\ sender.out.kind # "AUDIO" => sender'.status = StateAfter(sender.out.kind)
           /\ sender.out.kind = "AUDIO" => sender'.status = sender.status
           /\ receiver.pc \in {"waiting", "stopped"} /\ up = <<>>
  <1>1. /\ sender.pc = "waiting" /\ down # <<>> /\ Head(down).kind = "ACK"
        /\ sender' = AfterAck(sender)
    BY DEF AckRead
  <1>2. Accepting /\ audio.admitted = audio.acknowledged \o sender.out.units
    BY <1>1, AckTypes
  <1>3. receiver.pc \in {"waiting", "stopped"} /\ up = <<>>
    BY <1>1 DEF Turns, Replied
  <1>4. sender.out.kind \in {"START", "AUDIO", "PAUSE", "RESUME", "END"}
    BY <1>2 DEF Accepting, Buttons
  <1>5. /\ sender'.out = sender.out /\ sender'.queue = sender.queue
        /\ sender'.closed = sender.closed
        /\ sender'.pc \in {"idle", "resuming", "stopped"}
        /\ sender'.pc = "resuming" <=> sender.out.kind = "RESUME"
        /\ sender'.pc = "stopped" <=> sender.out.kind = "END"
        /\ sender.out.kind # "RESUME" => sender'.generation = sender.generation
        /\ sender.out.kind = "RESUME" => sender'.generation = sender.out.generation
        /\ sender.out.kind # "AUDIO" => sender'.status = StateAfter(sender.out.kind)
        /\ sender.out.kind = "AUDIO" => sender'.status = sender.status
    BY <1>1, <1>4, StateTypes DEF AfterAck, SenderState, StateAfter
  <1>6. /\ sender.out.kind # "RESUME" => sender.generation = sender.out.generation
        /\ sender.out.kind = "RESUME" => sender.out.generation = sender.generation + 1
    BY <1>2, <1>4 DEF Accepting
  <1> QED
    BY <1>2, <1>3, <1>5, <1>6

LEMMA TurnsAckRead ==
    ASSUME Types, Turns, AckRead
    PROVE  Turns'
  <1>1. /\ sender'.out = sender.out /\ sender'.closed = sender.closed
        /\ sender'.pc \in {"idle", "resuming", "stopped"}
        /\ sender'.pc = "stopped" <=> sender.out.kind = "END"
        /\ sender'.generation = sender.out.generation
        /\ sender.out.kind # "AUDIO" => sender'.status = StateAfter(sender.out.kind)
        /\ sender.out.kind = "AUDIO" => sender'.status = sender.status
        /\ receiver.pc \in {"waiting", "stopped"} /\ up = <<>>
        /\ Accepting /\ audio.admitted = audio.acknowledged \o sender.out.units
    BY AfterAckFacts
  <1>2. down' = <<>>
    BY OneAtATime DEF AckRead
  <1>3. /\ UNCHANGED <<up, receiver>>
        /\ audio'.admitted = audio.admitted
        /\ audio'.acknowledged = audio.acknowledged \o sender.out.units
    BY StateTypes DEF AckRead, AudioState
  <1>4. Unconnected' /\ UnderWay' /\ Replied' /\ PauseWaits'
    BY <1>1, <1>2, <1>3 DEF Unconnected, UnderWay, Replied, PauseWaits
  <1>5. Answered'
    <2> SUFFICES ASSUME sender'.pc \in {"idle", "resuming"}
                 PROVE  /\ audio'.admitted = audio'.acknowledged
                        /\ receiver'.pc = "waiting" =>
                              /\ receiver'.next = sender'.out.seq + 1
                              /\ receiver'.generation = sender'.generation
                              /\ receiver'.state \in {"STREAMING", "PAUSED"}
                              /\ ~sender'.closed => sender'.status = receiver'.state
      BY <1>1, <1>2, <1>3 DEF Answered
    <2>1. sender.out.kind \in {"START", "AUDIO", "PAUSE", "RESUME"}
      BY <1>1 DEF Accepting, Buttons
    <2>2. receiver.pc = "waiting" =>
             /\ receiver.next = sender.out.seq + 1
             /\ receiver.generation = sender.out.generation
             /\ receiver.state = StateAfter(sender.out.kind)
             /\ sender.out.kind = "AUDIO" /\ ~sender.closed => sender.status = "STREAMING"
      BY <1>1 DEF Accepting
    <2>3. /\ StateAfter(sender.out.kind) \in {"STREAMING", "PAUSED"}
          /\ sender.out.kind = "AUDIO" => StateAfter(sender.out.kind) = "STREAMING"
      BY <2>1 DEF StateAfter
    <2> QED
      BY <1>1, <1>3, <2>2, <2>3
  <1> QED
    BY <1>1, <1>3, <1>4, <1>5 DEF Turns

LEMMA TurnsDeviceResumes ==
    ASSUME Types, Turns, DeviceResumes
    PROVE  Turns'
  <1>1. /\ sender'.pc = "idle" /\ sender'.out = sender.out
        /\ sender'.generation = sender.generation /\ sender'.status = sender.status
        /\ sender'.closed = sender.closed /\ sender.pc = "resuming"
        /\ UNCHANGED <<up, down, receiver, audio>>
    BY StateTypes DEF DeviceResumes, SenderState
  <1>2. Unconnected' /\ Answered' /\ UnderWay' /\ Replied' /\ PauseWaits'
    BY <1>1 DEF Turns, Unconnected, Answered, UnderWay, Replied, PauseWaits
  <1> QED
    BY <1>1, <1>2 DEF Turns

-----------------------------------------------------------------------------
(* The conversation: steps of the receiver and from outside *)

\* What an accepted record has to be.
LEMMA ReasonIsNone ==
    ASSUME Types, NEW record \in Records, Reason(record) = "none"
    PROVE  /\ record.seq = receiver.next
           /\ receiver.state = "AWAIT_START" <=> record.kind = "START"
           /\ record.kind = "RESUME" => /\ receiver.state = "PAUSED"
                                        /\ record.generation = receiver.generation + 1
           /\ record.kind \notin {"START", "RESUME"} => record.generation = receiver.generation
           /\ record.kind \in {"AUDIO", "PAUSE"} => receiver.state = "STREAMING"
  <1>1. record.seq \in Nat /\ receiver.next \in Nat
    BY StateTypes, FieldsOfRecords DEF ReceiverState
  <1>2. ~(record.seq < receiver.next) /\ ~(record.seq > receiver.next)
    BY DEF Reason
  <1>3. record.seq = receiver.next
    BY <1>1, <1>2
  <1>4. /\ receiver.state = "AWAIT_START" <=> record.kind = "START"
        /\ record.kind = "RESUME" => /\ receiver.state = "PAUSED"
                                     /\ record.generation = receiver.generation + 1
        /\ record.kind \notin {"START", "RESUME"} => record.generation = receiver.generation
        /\ record.kind \in {"AUDIO", "PAUSE"} => receiver.state = "STREAMING"
    BY <1>2 DEF Reason
  <1> QED
    BY <1>3, <1>4

\* A record that is taken off the wire is the sender's, and nothing else is on
\* its way.
LEMMA TakenFacts ==
    ASSUME Types, Turns, NEW kind, Takes(kind)
    PROVE  /\ Head(up) = sender.out /\ up' = <<>> /\ down = <<>> /\ sender.out.kind = kind
           /\ sender.pc \in {"waiting", "stopped"} /\ receiver.pc = "waiting"
           /\ UNCHANGED <<sender, capture, page, dashboard>>
           /\ sender.out = StartRecord \/ IsNumbered(sender.out)
           /\ sender.out.seq \in Nat
           /\ audio.admitted = audio.acknowledged
           /\ \/ /\ receiver.state = "AWAIT_START" /\ sender.generation = 1
              \/ /\ receiver.state \in {"STREAMING", "PAUSED"}
                 /\ receiver.generation = sender.generation
                 /\ ~sender.closed => sender.status = receiver.state
           /\ sender.out.seq = receiver.next
           /\ receiver.state = "AWAIT_START" <=> kind = "START"
           /\ kind = "RESUME" => /\ receiver.state = "PAUSED"
                                 /\ sender.out.generation = receiver.generation + 1
           /\ kind \notin {"START", "RESUME"} => sender.out.generation = receiver.generation
           /\ kind \in {"AUDIO", "PAUSE"} => receiver.state = "STREAMING"
  <1>1. /\ receiver.pc = "waiting" /\ up # <<>> /\ Head(up) \in Records
        /\ Head(up).kind = kind /\ Reason(Head(up)) = "none" /\ up' = Tail(up)
        /\ UNCHANGED <<sender, capture, page, dashboard>>
    BY TakesFacts DEF client
  <1>2. Head(up) = sender.out /\ up' = <<>>
    BY <1>1, OneAtATime
  <1>3. sender.out \in Records /\ sender.out.kind = kind /\ Reason(sender.out) = "none"
    BY <1>1, <1>2
  <1>4. /\ down = <<>> /\ sender.pc \in {"waiting", "stopped"}
        /\ audio.admitted = audio.acknowledged
        /\ sender.out = StartRecord \/ IsNumbered(sender.out)
        /\ \/ /\ receiver.state = "AWAIT_START" /\ sender.generation = 1
           \/ /\ receiver.state \in {"STREAMING", "PAUSED"}
              /\ receiver.generation = sender.generation
              /\ ~sender.closed => sender.status = receiver.state
    BY <1>1 DEF Turns, UnderWay
  <1> QED
    BY <1>1, <1>2, <1>3, <1>4, ReasonIsNone, FieldsOfRecords

\* A taken record that is answered or awaits its answer.
LEMMA TurnsTaken ==
    ASSUME Types, Turns, NEW kind, Takes(kind),
           kind \in {"START", "AUDIO"} \cup Buttons,
           receiver'.next = receiver.next + 1,
           receiver'.generation = sender.out.generation,
           receiver'.pc = "stopped" \/ receiver'.state = StateAfter(kind),
           \/ /\ receiver'.pc \in {"waiting", "stopped"}
              /\ down' = <<[kind |-> "ACK", seq |-> sender.out.seq]>>
              /\ audio'.admitted = audio.acknowledged \o sender.out.units
           \/ /\ receiver'.pc = "stopped"
              /\ down' = <<[kind |-> "ERROR", seq |-> sender.out.seq]>>
              /\ audio'.admitted = audio.acknowledged
           \/ /\ receiver'.pc = "pausing" /\ kind = "PAUSE" /\ down' = <<>>
              /\ audio'.admitted = audio.acknowledged,
           audio'.acknowledged = audio.acknowledged
    PROVE  Turns'
  <1>1. /\ up' = <<>> /\ down = <<>> /\ sender.out.kind = kind
        /\ sender.pc \in {"waiting", "stopped"} /\ receiver.pc = "waiting"
        /\ UNCHANGED sender
        /\ sender.out = StartRecord \/ IsNumbered(sender.out)
        /\ \/ /\ receiver.state = "AWAIT_START" /\ sender.generation = 1
           \/ /\ receiver.state \in {"STREAMING", "PAUSED"}
              /\ receiver.generation = sender.generation
              /\ ~sender.closed => sender.status = receiver.state
        /\ sender.out.seq = receiver.next
        /\ receiver.state = "AWAIT_START" <=> kind = "START"
        /\ kind = "RESUME" => sender.out.generation = receiver.generation + 1
        /\ kind \notin {"START", "RESUME"} => sender.out.generation = receiver.generation
        /\ kind \in {"AUDIO", "PAUSE"} => receiver.state = "STREAMING"
    BY TakenFacts
  <1>2. kind = "START" => sender.out.generation = 1
    BY <1>1, NoRecordFacts DEF IsNumbered, Buttons
  <1>3. kind = "PAUSE" => sender.out.units = <<>>
    BY <1>1, NoRecordFacts DEF IsNumbered
  <1>4. Accepting'
    BY <1>1, <1>2 DEF Accepting, Buttons
  <1>5. Unconnected' /\ Answered' /\ UnderWay'
    BY <1>1 DEF Unconnected, Answered, UnderWay
  <1>6. Replied'
    BY <1>1, <1>4 DEF Replied
  <1>7. PauseWaits'
    BY <1>1, <1>3, <1>4 DEF PauseWaits
  <1> QED
    BY <1>1, <1>5, <1>6, <1>7 DEF Turns

\* The receiver fails, or leaves without having accepted anybody.
LEMMA TurnsCut ==
    ASSUME Types, Turns, Cut
    PROVE  Turns'
  <1>1. /\ receiver'.pc = "stopped"
        /\ \/ up' = up
           \/ up # <<>> /\ up' = <<>>
        /\ receiver.pc \in {"waiting", "pausing"} /\ UNCHANGED <<sender, down, audio>>
    BY OneAtATime DEF Cut, HasFailed, client
  <1>2. Unconnected' /\ Answered' /\ UnderWay' /\ PauseWaits'
    BY <1>1 DEF Turns, Unconnected, Answered, UnderWay, PauseWaits, IsNumbered
  <1>3. Accepting => Accepting'
    BY <1>1 DEF Accepting
  <1>4. Replied'
    BY <1>1, <1>3 DEF Turns, Replied
  <1> QED
    BY <1>1, <1>2, <1>4 DEF Turns

LEMMA TurnsReceiver ==
    ASSUME Types, Turns, Serving,
           \/ Cut \/ Starts \/ Admits \/ Pauses \/ Settles \/ Resumes \/ Ends
           \/ ReceiverLeaves
    PROVE  Turns'
  <1>1. CASE Cut
    BY <1>1, TurnsCut
  \* What a taken record and its answer have in common.
  <1>2. ASSUME NEW kind, Takes(kind)
        PROVE  /\ Accepted(Head(up)).next = receiver.next + 1
               /\ Accepted(Head(up)).generation = sender.out.generation
               /\ Accepted(Head(up)).pc = "waiting" /\ Accepted(Head(up)) \in ReceiverState
               /\ kind \in {"START", "RESUME"} => Accepted(Head(up)).state = "STREAMING"
               /\ kind = "PAUSE" => Accepted(Head(up)).state = "PAUSED"
               /\ kind = "AUDIO" => Accepted(Head(up)).state = "STREAMING"
               /\ Head(up) = sender.out /\ sender.out.seq \in Nat /\ down = <<>>
               /\ audio.admitted = audio.acknowledged
               /\ kind # "AUDIO" => sender.out.units = <<>>
    <2>1. /\ Head(up) = sender.out /\ down = <<>> /\ sender.out.kind = kind
          /\ sender.out.seq \in Nat /\ audio.admitted = audio.acknowledged
          /\ kind \in {"AUDIO", "PAUSE"} => receiver.state = "STREAMING"
          /\ sender.out = StartRecord \/ IsNumbered(sender.out)
      BY <1>2, TakenFacts
    <2>2. receiver \in ReceiverState /\ sender.out \in Records
      BY StateTypes, QueueFacts
    <2>3. kind # "AUDIO" => sender.out.units = <<>>
      BY <2>1, NoRecordFacts DEF IsNumbered
    <2> QED
      BY <1>2, <2>1, <2>2, <2>3, AcceptedFacts, TakesFacts
  <1>3. audio.acknowledged \o <<>> = audio.acknowledged
    BY QueueFacts, ConcatEmptySeq DEF AudioUnits
  <1>4. CASE Starts
    <2>1. /\ Takes("START") /\ receiver' = Accepted(Head(up)) /\ UNCHANGED audio
          /\ Answer("ACK", Head(up).seq)
      BY <1>4 DEF Starts
    <2>2. down' = <<[kind |-> "ACK", seq |-> sender.out.seq]>>
      BY <1>2, <2>1, AnswerFacts
    <2> QED
      BY <1>2, <1>3, <2>1, <2>2, TurnsTaken DEF StateAfter
  <1>5. CASE Resumes
    <2>1. /\ Takes("RESUME") /\ receiver' = Accepted(Head(up)) /\ UNCHANGED audio
          /\ Answer("ACK", Head(up).seq)
      BY <1>5 DEF Resumes
    <2>2. down' = <<[kind |-> "ACK", seq |-> sender.out.seq]>>
      BY <1>2, <2>1, AnswerFacts
    <2> QED
      BY <1>2, <1>3, <2>1, <2>2, TurnsTaken DEF StateAfter, Buttons
  <1>6. CASE Admits
    <2>1. /\ Takes("AUDIO") /\ receiver' = Accepted(Head(up))
          /\ audio' = [audio EXCEPT !.admitted = @ \o Head(up).units]
          /\ Answer("ACK", Head(up).seq)
      BY <1>6 DEF Admits
    <2>2. down' = <<[kind |-> "ACK", seq |-> sender.out.seq]>>
      BY <1>2, <2>1, AnswerFacts
    <2>3. /\ audio'.admitted = audio.acknowledged \o sender.out.units
          /\ audio'.acknowledged = audio.acknowledged
      BY <1>2, <2>1, StateTypes DEF AudioState
    <2> QED
      BY <1>2, <2>1, <2>2, <2>3, TurnsTaken DEF StateAfter
  <1>7. CASE Pauses
    <2>1. /\ Takes("PAUSE") /\ UNCHANGED <<down, audio>>
          /\ receiver' = [Accepted(Head(up)) EXCEPT !.pc = "pausing"]
      BY <1>7 DEF Pauses
    <2>2. /\ receiver'.pc = "pausing" /\ receiver'.next = receiver.next + 1
          /\ receiver'.generation = sender.out.generation /\ receiver'.state = "PAUSED"
      BY <1>2, <2>1 DEF ReceiverState
    <2> QED
      BY <1>2, <2>1, <2>2, TurnsTaken DEF StateAfter, Buttons
  <1>8. CASE Ends
    <2>1. /\ Takes("END") /\ UNCHANGED audio
          /\ receiver' = [Accepted(Head(up)) EXCEPT !.pc = "stopped", !.closed = TRUE]
          /\ Answer("ACK", Head(up).seq) \/ Answer("ERROR", Head(up).seq)
      BY <1>8 DEF Ends
    <2>2. /\ receiver'.pc = "stopped" /\ receiver'.next = receiver.next + 1
          /\ receiver'.generation = sender.out.generation
      BY <1>2, <2>1 DEF ReceiverState
    <2>3. \/ down' = <<[kind |-> "ACK", seq |-> sender.out.seq]>>
          \/ down' = <<[kind |-> "ERROR", seq |-> sender.out.seq]>>
      BY <1>2, <2>1, AnswerFacts
    <2>6. sender.out.units = <<>> /\ audio.admitted = audio.acknowledged
      BY <1>2, <2>1
    <2>4. /\ audio'.admitted = audio.acknowledged
          /\ audio'.admitted = audio.acknowledged \o sender.out.units
          /\ audio'.acknowledged = audio.acknowledged
      BY <1>3, <2>1, <2>6
    <2>5. "END" \in {"START", "AUDIO"} \cup Buttons
      BY DEF Buttons
    <2> QED
      BY <2>1, <2>2, <2>3, <2>4, <2>5, TurnsTaken
  <1>9. CASE Settles
    <2>1. /\ receiver.pc = "pausing" /\ receiver' = [receiver EXCEPT !.pc = "waiting"]
          /\ Answer("ACK", receiver.next - 1) /\ UNCHANGED <<sender, up, audio>>
      BY <1>9 DEF Settles, client
    <2>2. /\ sender.pc \in {"waiting", "stopped"} /\ up = <<>> /\ down = <<>>
          /\ sender.out.units = <<>> /\ Accepting /\ audio.admitted = audio.acknowledged
      BY <2>1 DEF Turns, PauseWaits
    <2>3. receiver.next = sender.out.seq + 1 /\ sender.out.seq \in Nat
      BY <2>1, <2>2, QueueFacts, FieldsOfRecords DEF Accepting
    <2>4. receiver.next - 1 = sender.out.seq
      BY <2>3
    <2>5. down' = <<[kind |-> "ACK", seq |-> sender.out.seq]>>
      BY <2>1, <2>2, <2>3, <2>4, AnswerFacts
    <2>6. /\ receiver'.pc = "waiting" /\ receiver'.next = receiver.next
          /\ receiver'.generation = receiver.generation /\ receiver'.state = receiver.state
      BY <2>1, StateTypes DEF ReceiverState
    <2>7. Accepting'
      BY <2>1, <2>2, <2>6 DEF Accepting
    <2>8. Unconnected' /\ Answered' /\ UnderWay' /\ PauseWaits'
      BY <2>1, <2>2, <2>6 DEF Unconnected, Answered, UnderWay, PauseWaits
    <2>9. Replied'
      BY <1>3, <2>1, <2>2, <2>5, <2>6, <2>7 DEF Replied
    <2> QED
      BY <2>1, <2>2, <2>8, <2>9 DEF Turns
  <1>10. CASE ReceiverLeaves
    <2>1. /\ receiver.pc = "accepting" /\ receiver'.pc = "stopped"
          /\ UNCHANGED <<sender, up, down, audio>>
      BY <1>10, StateTypes DEF ReceiverLeaves, client, wire, ReceiverState
    <2>2. Unconnected' /\ Answered' /\ UnderWay' /\ Replied' /\ PauseWaits'
      BY <2>1 DEF Turns, Unconnected, Answered, UnderWay, Replied, PauseWaits
    <2> QED
      BY <2>1, <2>2 DEF Turns
  <1> QED
    BY <1>1, <1>4, <1>5, <1>6, <1>7, <1>8, <1>9, <1>10

\* Nothing that happens outside changes what the two have said.
LEMMA TurnsOutside ==
    ASSUME Types, Turns, OutsideNext
    PROVE  Turns'
  <1>1. /\ UNCHANGED <<sender, audio>>
        /\ receiver'.pc = receiver.pc /\ receiver'.state = receiver.state
        /\ receiver'.next = receiver.next /\ receiver'.generation = receiver.generation
        /\ \/ UNCHANGED <<up, down>> \/ (up' = <<>> /\ down' = <<>>)
    BY OutsideTypes DEF client
  <1>2. Unconnected' /\ Answered'
    BY <1>1 DEF Turns, Unconnected, Answered
  <1>3. UnderWay'
    BY <1>1 DEF Turns, UnderWay, IsNumbered
  <1>4. Accepting => Accepting'
    BY <1>1 DEF Accepting
  <1>5. Replied'
    BY <1>1, <1>4 DEF Turns, Replied
  <1>6. PauseWaits'
    BY <1>1, <1>4 DEF Turns, PauseWaits
  <1> QED
    BY <1>1, <1>2, <1>3, <1>5, <1>6 DEF Turns

-----------------------------------------------------------------------------
(* The receiver and its session *)

LEMMA ServingKept ==
    ASSUME Serving, UNCHANGED <<receiver, session>>, link'.server = link.server
    PROVE  Serving'
  BY DEF Serving

LEMMA ServingConnects ==
    ASSUME Types, Serving, Connects
    PROVE  Serving'
  <1>1. /\ receiver'.pc = "waiting" /\ receiver'.state = "AWAIT_START" /\ UNCHANGED session
        /\ receiver.state = "AWAIT_START"
    BY StateTypes DEF Connects, ReceiverState, Serving
  <1> QED
    BY <1>1 DEF Serving

LEMMA ServingReceiver ==
    ASSUME Types, Turns, Serving,
           \/ Cut \/ Starts \/ Admits \/ Pauses \/ Settles \/ Resumes \/ Ends
           \/ ReceiverLeaves
    PROVE  Serving'
  <1>1. CASE Cut
    BY <1>1 DEF Cut, HasFailed, Serving
  <1>2. ASSUME NEW kind, Takes(kind)
        PROVE  /\ receiver.pc = "waiting" /\ receiver.state \notin {"ENDED", "FAILED"}
               /\ Accepted(Head(up)) \in ReceiverState /\ Accepted(Head(up)).pc = "waiting"
               /\ Accepted(Head(up)).generation = Head(up).generation
               /\ Head(up) = sender.out /\ Head(up).kind = kind
               /\ kind \in {"START", "RESUME"} => Accepted(Head(up)).state = "STREAMING"
               /\ kind = "PAUSE" => Accepted(Head(up)).state = "PAUSED"
               /\ kind = "END" => Accepted(Head(up)).state = "ENDED"
               /\ kind = "AUDIO" => Accepted(Head(up)).state = "STREAMING"
               /\ receiver.state = "AWAIT_START" <=> kind = "START"
               /\ kind \notin {"START", "RESUME"}
                     => Head(up).generation = receiver.generation
               /\ kind = "RESUME" => Head(up).generation = receiver.generation + 1
               /\ kind # "START" => /\ receiver.generation = session.generation
                                    /\ session.status # "new"
    <2>1. /\ receiver.pc = "waiting" /\ receiver.state \notin {"ENDED", "FAILED"}
          /\ receiver.state # "AWAIT_START" => /\ receiver.generation = session.generation
                                               /\ session.status # "new"
      BY <1>2, TakesFacts DEF Serving
    <2>2. receiver \in ReceiverState /\ Head(up) \in Records /\ Head(up).kind = kind
      BY <1>2, StateTypes, TakesFacts
    <2>3. /\ Accepted(Head(up)) \in ReceiverState /\ Accepted(Head(up)).pc = "waiting"
          /\ Accepted(Head(up)).generation = Head(up).generation
          /\ kind \in {"START", "RESUME"} => Accepted(Head(up)).state = "STREAMING"
          /\ kind = "PAUSE" => Accepted(Head(up)).state = "PAUSED"
          /\ kind = "END" => Accepted(Head(up)).state = "ENDED"
          /\ kind = "AUDIO" => Accepted(Head(up)).state = receiver.state
      BY <2>1, <2>2, AcceptedFacts
    <2>4. /\ Head(up) = sender.out
          /\ receiver.state = "AWAIT_START" <=> kind = "START"
          /\ kind = "RESUME" => sender.out.generation = receiver.generation + 1
          /\ kind \notin {"START", "RESUME"} => sender.out.generation = receiver.generation
          /\ kind = "AUDIO" => receiver.state = "STREAMING"
      BY <1>2, TakenFacts
    <2> QED
      BY <2>1, <2>2, <2>3, <2>4
  <1>3. CASE Starts
    <2>1. /\ Takes("START") /\ receiver' = Accepted(Head(up))
          /\ Head(up).generation = session.generation
          /\ session' = [session EXCEPT !.status = "streaming"]
      BY <1>3 DEF Starts
    <2>2. session'.status = "streaming" /\ session'.generation = session.generation
      BY <2>1, StateTypes DEF SessionState
    <2>3. /\ receiver'.pc = "waiting" /\ receiver'.state = "STREAMING"
          /\ receiver'.generation = Head(up).generation
      BY <1>2, <2>1
    <2> QED
      BY <2>1, <2>2, <2>3 DEF Serving
  <1>4. CASE Admits
    <2>1. /\ Takes("AUDIO") /\ receiver' = Accepted(Head(up))
          /\ Head(up).generation = session.generation
          /\ session' = [session EXCEPT !.status = "streaming"]
      BY <1>4 DEF Admits
    <2>2. session'.status = "streaming" /\ session'.generation = session.generation
      BY <2>1, StateTypes DEF SessionState
    <2>3. /\ receiver'.pc = "waiting" /\ receiver'.state = "STREAMING"
          /\ receiver'.generation = Head(up).generation
      BY <1>2, <2>1
    <2> QED
      BY <2>1, <2>2, <2>3 DEF Serving
  <1>5. CASE Pauses
    <2>1. /\ Takes("PAUSE") /\ receiver' = [Accepted(Head(up)) EXCEPT !.pc = "pausing"]
          /\ session' = [session EXCEPT !.status = "pausing"]
      BY <1>5 DEF Pauses
    <2>2. session'.status = "pausing" /\ session'.generation = session.generation
      BY <2>1, StateTypes DEF SessionState
    <2>3. /\ receiver'.pc = "pausing" /\ receiver'.state = Accepted(Head(up)).state
          /\ receiver'.generation = Accepted(Head(up)).generation
      BY <1>2, <2>1 DEF ReceiverState
    <2>4. /\ Accepted(Head(up)).state = "PAUSED"
          /\ Accepted(Head(up)).generation = session.generation
      BY <1>2, <2>1
    <2> QED
      BY <2>2, <2>3, <2>4 DEF Serving
  <1>6. CASE Settles
    <2>1. /\ receiver'.pc = "waiting" /\ receiver'.state = "PAUSED"
          /\ receiver'.generation = receiver.generation /\ UNCHANGED session
          /\ receiver.state = "PAUSED" /\ receiver.generation = session.generation
          /\ session.status # "new"
      BY <1>6, StateTypes DEF Settles, Serving, ReceiverState
    <2> QED
      BY <2>1 DEF Serving
  <1>7. CASE Resumes
    <2>1. /\ Takes("RESUME") /\ receiver' = Accepted(Head(up))
          /\ session' = [session EXCEPT !.status = "pending", !.generation = @ + 1]
      BY <1>7 DEF Resumes
    <2>2. session'.status = "pending" /\ session'.generation = session.generation + 1
      BY <2>1, StateTypes DEF SessionState
    <2>3. /\ receiver'.pc = "waiting" /\ receiver'.state = "STREAMING"
          /\ receiver'.generation = session.generation + 1
      BY <1>2, <2>1
    <2> QED
      BY <2>2, <2>3 DEF Serving
  <1>8. CASE Ends
    <2>1. /\ Takes("END")
          /\ receiver' = [Accepted(Head(up)) EXCEPT !.pc = "stopped", !.closed = TRUE]
          /\ session' = IF session.status \in {"pending", "streaming", "pausing", "paused"}
                        THEN [session EXCEPT !.status = "stopping"] ELSE session
          /\ link' = [link EXCEPT !.server = FALSE]
      BY <1>8 DEF Ends
    <2>2. /\ session.status # "new" /\ Accepted(Head(up)).state = "ENDED"
          /\ Accepted(Head(up)) \in ReceiverState
      BY <1>2, <2>1
    <2>3. session'.status \in {"stopping", "completed", "closed"}
      BY <2>1, <2>2, StateTypes DEF SessionState
    <2>4. receiver'.pc = "stopped" /\ receiver'.state = "ENDED"
      BY <2>1, <2>2 DEF ReceiverState
    <2>5. ~link'.server
      BY <2>1, StateTypes
    <2> QED
      BY <2>3, <2>4, <2>5 DEF Serving
  <1>9. CASE ReceiverLeaves
    <2>1. /\ receiver'.pc = "stopped" /\ receiver'.state = receiver.state
          /\ receiver.pc = "accepting" /\ receiver.closed /\ UNCHANGED <<session, link>>
      BY <1>9, StateTypes DEF ReceiverLeaves, wire, ReceiverState
    <2> QED
      BY <2>1 DEF Serving
  <1> QED
    BY <1>1, <1>3, <1>4, <1>5, <1>6, <1>7, <1>8, <1>9

LEMMA ServingOutside ==
    ASSUME Types, Serving, OutsideNext
    PROVE  Serving'
  <1>1. /\ receiver'.pc = receiver.pc /\ receiver'.state = receiver.state
        /\ receiver'.next = receiver.next /\ receiver'.generation = receiver.generation
        /\ session'.generation = session.generation
        /\ link'.server => link.server
    BY OutsideTypes
  <1>2. CASE UNCHANGED <<session, receiver>>
    BY <1>1, <1>2 DEF Serving
  <1>3. CASE receiver'.closed = TRUE /\ session'.status = "closed"
    BY <1>1, <1>3 DEF Serving
  <1>4. CASE /\ UNCHANGED receiver /\ session.status # "closed"
             /\ \/ /\ session.status = "pausing" /\ session'.status = "paused"
                \/ session.status = "stopping" /\ session'.status = "completed"
                \/ session'.status = "stopping"
    BY <1>1, <1>4 DEF Serving
  <1> QED
    BY <1>2, <1>3, <1>4, OutsideTypes

-----------------------------------------------------------------------------
(* What the threads of the client hold *)

LEMMA SenderHoldsOn ==
    ASSUME Types, SenderHolds, sender' \in SenderState,
           sender'.generation = sender.generation,
           sender'.pc = sender.pc, sender'.out = sender.out,
           \/ sender'.queue = sender.queue
           \/ \E record \in Records : /\ IsNumbered(record)
                                      /\ sender'.queue = Append(sender.queue, record)
    PROVE  SenderHolds'
  <1>1. sender.queue \in Seq(Records) /\ Len(sender.queue) \in Nat
    BY QueueFacts
  <1>2. \A i \in DOMAIN sender'.queue : IsNumbered(sender'.queue[i])
    <2>1. CASE sender'.queue = sender.queue
      BY <2>1 DEF SenderHolds
    <2>2. ASSUME NEW record \in Records, IsNumbered(record),
                 sender'.queue = Append(sender.queue, record)
          PROVE  \A i \in DOMAIN sender'.queue : IsNumbered(sender'.queue[i])
      <3>1. \A i \in DOMAIN sender'.queue :
               \/ i \in DOMAIN sender.queue /\ sender'.queue[i] = sender.queue[i]
               \/ sender'.queue[i] = record
        BY <1>1, <2>2
      <3> QED
        BY <2>2, <3>1 DEF SenderHolds
    <2> QED
      BY <2>1, <2>2
  <1>3. \A record : IsNumbered(record) => IsNumbered(record)'
    BY DEF IsNumbered
  <1> QED
    BY <1>2, <1>3 DEF SenderHolds, IsNumbered

\* Only three steps put a record into the sender's queue.
LEMMA QueueOnly ==
    ASSUME Types
    PROVE  /\ CaptureNext => \/ sender'.queue = sender.queue
                             \/ capture.pc = "queueing" /\ sender' = Enqueued(capture.held)
           /\ PageNext => \/ sender'.queue = sender.queue
                          \/ /\ page.pc \in {"queueing", "controlQueueing"}
                             /\ sender' = Enqueued(page.held)
  <1>1. /\ sender \in SenderState /\ link \in [client : BOOLEAN, server : BOOLEAN]
    BY StateTypes
  <1>2. /\ "MICROPHONE_UNAVAILABLE" \in Reasons /\ "MICROPHONE_OPEN_FAILED" \in Reasons
        /\ "BUFFER_LIMIT" \in Reasons
    BY DEF Reasons
  <1>3. ASSUME NEW reason \in Reasons, FailAndClose(reason)
        PROVE  sender'.queue = sender.queue
    BY <1>1, <1>3, FailAndCloseFacts
  <1>4. sender' = [sender EXCEPT !.next = @ + 1] => sender'.queue = sender.queue
    BY <1>1 DEF SenderState
  <1>5. CASE OpenDevice \/ StartDevice \/ WorkerChecks
    BY <1>2, <1>3, <1>5 DEF OpenDevice, StartDevice, WorkerChecks
  <1>6. CASE \/ BeginAdmitting \/ CallbackEnters \/ CallbackGivesUp \/ WorkerGets
             \/ WorkerFills \/ WorkerSettles \/ WorkerSetsDrained
             \/ \E n \in BlockSizes : CallbackQueues(n)
    BY <1>6 DEF BeginAdmitting, CallbackEnters, CallbackGivesUp, WorkerGets,
       WorkerFills,
                WorkerSettles, WorkerSetsDrained, CallbackQueues
  <1>7. CASE WorkerNumbers \/ NumberRest \/ NumberControl
    BY <1>4, <1>7 DEF WorkerNumbers, NumberRest, NumberControl
  <1>8. CASE \/ OpenMicrophone \/ PressPause \/ PressEnd \/ PressResume \/ Drained \/ Flush
             \/ CloseCapture
    BY <1>8 DEF OpenMicrophone, PressPause, PressEnd, PressResume, Drained, Flush,
       CloseCapture
  <1>9. CASE StopStream \/ DrainTimesOut
    BY <1>2, <1>3, <1>9 DEF StopStream, DrainTimesOut
  <1>10. WorkerQueues => capture.pc = "queueing" /\ sender' = Enqueued(capture.held)
    BY DEF WorkerQueues
  <1>11. QueueRest \/ QueueControl => /\ page.pc \in {"queueing", "controlQueueing"}
                                      /\ sender' = Enqueued(page.held)
    BY DEF QueueRest, QueueControl
  <1> QED
    BY <1>5, <1>6, <1>7, <1>8, <1>9, <1>10, <1>11 DEF CaptureNext, PageNext

LEMMA HoldingCapture ==
    ASSUME Types, Holding, Aside, sender' \in SenderState, CaptureNext
    PROVE  Holding'
  <1>1. /\ capture \in CaptureState /\ sender'.pc = sender.pc /\ sender'.out = sender.out
        /\ sender'.generation = sender.generation /\ UNCHANGED page
    BY StateTypes DEF Aside, CaptureNext, OpenDevice, StartDevice, BeginAdmitting,
       CallbackEnters, CallbackQueues, CallbackGivesUp, WorkerChecks, WorkerGets, WorkerFills,
       WorkerNumbers, WorkerQueues, WorkerSettles, WorkerSetsDrained
  <1>2. PageHolds'
    BY <1>1 DEF Holding, PageHolds, IsNumbered
  <1>3. SenderHolds'
    <2>1. \/ sender'.queue = sender.queue
          \/ /\ capture.pc = "queueing" /\ sender' = Enqueued(capture.held)
             /\ capture.held \in Records /\ IsNumbered(capture.held)
      BY <1>1, QueueOnly, QueueFacts DEF Holding, CaptureHolds
    <2> QED
      BY <1>1, <2>1, QueueFacts, StateTypes, EnqueuedFacts, SenderHoldsOn DEF Holding
  <1>4. CaptureHolds'
    <2>1. /\ capture.pc \notin {"numbering", "queueing"} => capture.held = NoRecord
          /\ capture.pc = "numbering" => capture.held.units # <<>>
          /\ capture.pc = "queueing" => IsNumbered(capture.held) /\ capture.held.kind = "AUDIO"
      BY DEF Holding, CaptureHolds
    <2>2. ASSUME capture'.held = capture.held,
                 \/ capture'.pc = capture.pc
                 \/ /\ capture.pc \notin {"numbering", "queueing"}
                    /\ capture'.pc \notin {"numbering", "queueing"}
          PROVE  CaptureHolds'
      BY <1>1, <2>1, <2>2 DEF CaptureHolds, IsNumbered
    <2>3. ASSUME capture'.held = NoRecord, capture'.pc \notin {"numbering", "queueing"}
          PROVE  CaptureHolds'
      BY <2>3 DEF CaptureHolds
    <2>4. CASE \/ OpenDevice \/ StartDevice \/ BeginAdmitting \/ CallbackEnters
               \/ CallbackGivesUp \/ WorkerChecks \/ WorkerGets \/ WorkerSettles
               \/ WorkerSetsDrained \/ \E n \in BlockSizes : CallbackQueues(n)
      <3>1. /\ capture'.held = capture.held
            /\ \/ capture'.pc = capture.pc
               \/ /\ capture.pc \notin {"numbering", "queueing"}
                  /\ capture'.pc \notin {"numbering", "queueing"}
        BY <1>1, <2>4 DEF OpenDevice, StartDevice, BeginAdmitting, CallbackEnters,
           CallbackGivesUp, WorkerChecks, WorkerGets, WorkerSettles, WorkerSetsDrained,
           CallbackQueues, CaptureState
      <3> QED
        BY <2>2, <3>1
    <2>5. CASE WorkerFills
      <3>1. CASE Len(Hand) < ChunkUnits
        <4>1. capture'.held = capture.held /\ capture'.pc = "settling" /\ capture.pc = "filling"
          BY <1>1, <2>5, <3>1 DEF WorkerFills, Hand, CaptureState
        <4> QED
          BY <2>2, <4>1
      <3>2. CASE ~(Len(Hand) < ChunkUnits)
        <4>1. /\ capture'.held = Record("AUDIO", 0, 0, SubSeq(Hand, 1, ChunkUnits))
              /\ capture'.pc = "numbering"
          BY <1>1, <2>5, <3>2 DEF WorkerFills, Hand, CaptureState
        <4>2. SubSeq(Hand, 1, ChunkUnits) # <<>>
          <5>1. Len(Hand) >= ChunkUnits /\ ChunkUnits # 0
            BY <3>2, HandTypes, BlocksAreShort
          <5>2. Len(SubSeq(Hand, 1, ChunkUnits)) = ChunkUnits
            BY <5>1, HandTypes
          <5> QED
            BY <5>1, <5>2
        <4>3. capture'.held.units # <<>>
          <5>1. Record("AUDIO", 0, 0, SubSeq(Hand, 1, ChunkUnits)).units
                   = SubSeq(Hand, 1, ChunkUnits)
            BY DEF Record
          <5> QED
            BY <4>1, <4>2, <5>1
        <4> QED
          BY <4>1, <4>3 DEF CaptureHolds
      <3> QED
        BY <3>1, <3>2
    <2>6. CASE WorkerNumbers
      <3>1. \/ /\ capture'.pc = "queueing"
               /\ capture'.held = Record("AUDIO", sender.next, sender.generation,
                                         capture.held.units)
            \/ capture'.pc = "settling" /\ capture'.held = NoRecord
        BY <1>1, <2>6 DEF WorkerNumbers, Numbered, CaptureState
      <3>2. ASSUME capture'.pc = "queueing",
                   capture'.held = Record("AUDIO", sender.next, sender.generation,
                                          capture.held.units)
            PROVE  CaptureHolds'
        <4>1. capture'.held.kind = "AUDIO" /\ capture'.held.generation = sender.generation
          BY <3>2, RecordFacts
        <4>2. sender.generation \in Nat
          BY QueueFacts, BlocksAreShort
        <4> QED
          BY <1>1, <3>2, <4>1, <4>2 DEF CaptureHolds, IsNumbered
      <3> QED
        BY <2>3, <3>1, <3>2
    <2>7. CASE WorkerQueues
      <3>1. capture'.held = NoRecord /\ capture'.pc \in {"settling", "filling"}
        BY <1>1, <2>7 DEF WorkerQueues, CaptureState
      <3> QED
        BY <2>3, <3>1
    <2> QED
      BY <2>4, <2>5, <2>6, <2>7 DEF CaptureNext
  <1> QED
    BY <1>2, <1>3, <1>4 DEF Holding

LEMMA HoldingPage ==
    ASSUME Types, Holding, Aside, sender' \in SenderState, PageNext
    PROVE  Holding'
  <1>1. /\ page \in PageState /\ capture \in CaptureState
        /\ sender'.pc = sender.pc /\ sender'.out = sender.out
        /\ sender'.generation = sender.generation
    BY StateTypes DEF Aside
  <1>2. CaptureHolds'
    <2>1. /\ capture'.held = capture.held
          /\ \/ capture'.pc = capture.pc
             \/ capture.pc = "none" /\ capture'.pc = "opening"
      BY <1>1 DEF PageNext, OpenMicrophone, PressPause, PressEnd, PressResume,
         StopStream,
         Drained, DrainTimesOut, Flush, NumberRest, QueueRest, NumberControl, QueueControl,
         CloseCapture, CaptureState
    <2> QED
      BY <1>1, <2>1 DEF Holding, CaptureHolds, IsNumbered
  <1>3. SenderHolds'
    <2>1. \/ sender'.queue = sender.queue
          \/ /\ page.pc \in {"queueing", "controlQueueing"} /\ sender' = Enqueued(page.held)
             /\ page.held \in Records /\ IsNumbered(page.held)
      BY QueueOnly, QueueFacts DEF Holding, PageHolds
    <2> QED
      BY <1>1, <2>1, QueueFacts, StateTypes, EnqueuedFacts, SenderHoldsOn DEF Holding
  <1>4. PageHolds'
    <2>1. /\ page.pc \notin {"numbering", "queueing", "controlQueueing"}
                => page.held = NoRecord
          /\ page.pc \in {"stopping", "draining", "flushing", "numbering", "queueing"}
                => page.button \in {"PAUSE", "END"}
          /\ page.pc \in {"control", "controlQueueing"} => page.button \in Buttons
      BY DEF Holding, PageHolds
    <2>2. ASSUME page'.held = NoRecord,
                 \/ page'.pc = "idle"
                 \/ page'.pc \in {"stopping", "draining", "flushing"}
                    /\ page'.button \in {"PAUSE", "END"}
                 \/ page'.pc = "control" /\ page'.button \in Buttons
                 \/ page'.pc = "closing" /\ page'.button = "END"
          PROVE  PageHolds'
      BY <2>2 DEF PageHolds, Buttons
    <2>3. CASE OpenMicrophone
      BY <1>1, <2>3 DEF OpenMicrophone, Holding, PageHolds, IsNumbered
    <2>4. CASE PressPause \/ PressEnd \/ PressResume
      <3>1. /\ page'.held = page.held /\ page.pc = "idle"
            /\ \/ page'.pc = "control" /\ page'.button = "RESUME"
               \/ page'.pc = "stopping" /\ page'.button \in {"PAUSE", "END"}
        BY <1>1, <2>4 DEF PressPause, PressEnd, PressResume, Press, PageState
      <3> QED
        BY <2>1, <2>2, <3>1 DEF Buttons
    <2>5. CASE StopStream \/ Drained \/ DrainTimesOut
      <3>1. /\ page'.held = page.held /\ page.pc \in {"stopping", "draining"}
            /\ page'.button = page.button
            /\ page'.pc \in {"draining", "flushing", "idle"}
        BY <1>1, <2>5 DEF StopStream, Drained, DrainTimesOut, PageState
      <3> QED
        BY <2>1, <2>2, <3>1
    <2>6. CASE Flush
      <3>1. CASE capture.buffer = <<>>
        <4>1. /\ page'.held = page.held /\ page.pc = "flushing" /\ page'.button = page.button
              /\ page'.pc = "control"
          BY <1>1, <2>6, <3>1 DEF Flush, PageState
        <4> QED
          BY <2>1, <2>2, <4>1 DEF Buttons
      <3>2. CASE capture.buffer # <<>>
        <4>1. /\ page'.held = Record("AUDIO", 0, 0, capture.buffer) /\ page.pc = "flushing"
              /\ page'.button = page.button /\ page'.pc = "numbering"
          BY <1>1, <2>6, <3>2 DEF Flush, PageState
        <4>2. page'.held.units # <<>>
          BY <3>2, <4>1 DEF Record
        <4> QED
          BY <2>1, <4>1, <4>2 DEF PageHolds
      <3> QED
        BY <3>1, <3>2
    <2>7. CASE NumberRest
      <3>1. /\ page.pc = "numbering" /\ page'.button = page.button
            /\ \/ /\ page'.pc = "queueing"
                  /\ page'.held = Record("AUDIO", sender.next, sender.generation, page.held.units)
               \/ page'.pc = "idle" /\ page'.held = NoRecord
        BY <1>1, <2>7 DEF NumberRest, Numbered, PageState
      <3>2. CASE /\ page'.pc = "queueing"
                 /\ page'.held = Record("AUDIO", sender.next, sender.generation, page.held.units)
        <4>1. page'.held.kind = "AUDIO" /\ page'.held.generation = sender.generation
          BY <3>2, RecordFacts
        <4>2. sender.generation \in Nat
          BY QueueFacts, BlocksAreShort
        <4> QED
          BY <1>1, <2>1, <3>1, <3>2, <4>1, <4>2 DEF PageHolds, IsNumbered
      <3> QED
        BY <2>2, <3>1, <3>2
    <2>8. CASE QueueRest \/ QueueControl
      <3>1. /\ page'.held = NoRecord /\ page'.button = page.button
            /\ \/ page'.pc = "idle"
               \/ page'.pc = "closing" /\ page.button = "END"
               \/ page'.pc = "control" /\ page.pc = "queueing"
        BY <1>1, <2>8 DEF QueueRest, QueueControl, PageState
      <3> QED
        BY <2>1, <2>2, <3>1 DEF Buttons
    <2>9. CASE NumberControl
      <3>1. /\ page.pc = "control" /\ page'.button = page.button
            /\ \/ /\ page'.pc = "controlQueueing"
                  /\ page'.held = Numbered(page.button,
                        sender.generation + IF page.button = "RESUME" THEN 1 ELSE 0, <<>>)
               \/ page'.pc = "idle" /\ page'.held = page.held
        BY <1>1, <2>9 DEF NumberControl, PageState
      <3>2. CASE /\ page'.pc = "controlQueueing"
                 /\ page'.held = Numbered(page.button,
                        sender.generation + IF page.button = "RESUME" THEN 1 ELSE 0, <<>>)
        <4>1. /\ page'.held.kind = page.button /\ page'.held.units = <<>>
              /\ page.button # "RESUME" => page'.held.generation = sender.generation + 0
          BY <3>2 DEF Numbered, Record
        <4>2. sender.generation \in Nat
          BY QueueFacts, BlocksAreShort
        <4> QED
          BY <1>1, <2>1, <3>1, <3>2, <4>1, <4>2 DEF PageHolds, IsNumbered, Buttons
      <3> QED
        BY <2>1, <2>2, <3>1, <3>2
    <2>10. CASE CloseCapture
      <3>1. page'.pc = "idle" /\ page'.held = page.held /\ page.pc = "closing"
        BY <1>1, <2>10 DEF CloseCapture, PageState
      <3> QED
        BY <2>1, <2>2, <3>1
    <2> QED
      BY <2>3, <2>4, <2>5, <2>6, <2>7, <2>8, <2>9, <2>10 DEF PageNext
  <1> QED
    BY <1>2, <1>3, <1>4 DEF Holding

LEMMA HoldingSender ==
    ASSUME Types, Turns, Holding,
           Stopping \/ Connects \/ SenderSends \/ AckRead \/ DeviceResumes
    PROVE  Holding'
  <1>1. sender \in SenderState /\ capture \in CaptureState /\ page \in PageState
    BY StateTypes
  <1>2. sender.generation \in Nat
    BY QueueFacts, BlocksAreShort
  <1>3. /\ capture'.pc = capture.pc /\ capture'.held = capture.held
        /\ page'.pc = page.pc /\ page'.held = page.held /\ page'.button = page.button
    BY <1>1 DEF Stopping, Connects, SenderSends, AckRead, DeviceResumes,
       CaptureState, PageState
  <1>4. /\ sender'.generation \in Nat /\ sender'.generation >= sender.generation
    <2>1. CASE AckRead
      BY <1>2, <2>1, AfterAckFacts
    <2>2. CASE Stopping \/ Connects \/ SenderSends \/ DeviceResumes
      <3>1. sender'.generation = sender.generation
        BY <1>1, <2>2 DEF Stopping, MayFail, Connects, SenderSends, DeviceResumes,
           SenderState
      <3> QED
        BY <1>2, <3>1
    <2> QED
      BY <2>1, <2>2
  <1>5. \A record \in Records : IsNumbered(record) => IsNumbered(record)'
    BY <1>2, <1>4, FieldsOfRecords DEF IsNumbered
  <1>6. CaptureHolds' /\ PageHolds'
    BY <1>3, <1>5, QueueFacts DEF Holding, CaptureHolds, PageHolds
  <1>7. \A i \in DOMAIN sender.queue : sender.queue[i] \in Records /\ IsNumbered(sender.queue[i])
    BY QueueFacts, SeqFacts DEF Holding, SenderHolds
  <1>8. SenderHolds'
    <2>1. CASE Stopping
      <3>1. sender'.pc = "stopped" /\ sender'.queue = sender.queue
        BY <2>1 DEF Stopping
      <3> QED
        BY <1>5, <1>7, <3>1 DEF SenderHolds
    <2>2. CASE Connects \/ DeviceResumes
      <3>1. /\ sender'.queue = sender.queue
            /\ \/ sender'.pc = "waiting" /\ sender'.out = StartRecord
               \/ sender'.pc = "idle" /\ sender.pc = "resuming" /\ sender'.out = sender.out
        BY <1>1, <2>2 DEF Connects, DeviceResumes, SenderState
      <3> QED
        BY <1>5, <1>7, <3>1, QueueFacts DEF SenderHolds, Holding
    <2>3. CASE SenderSends
      <3>1. /\ sender.queue # <<>> /\ sender'.queue = Tail(sender.queue)
            /\ sender'.out = Head(sender.queue) /\ sender'.pc = "waiting"
        BY <1>1, <2>3 DEF SenderSends, SenderState
      <3>2. /\ 1 \in DOMAIN sender.queue /\ Head(sender.queue) = sender.queue[1]
            /\ \A i \in DOMAIN Tail(sender.queue) : /\ i + 1 \in DOMAIN sender.queue
                                                    /\ Tail(sender.queue)[i] = sender.queue[i + 1]
        BY <3>1, QueueFacts, SeqFacts, HeadTailProperties
      <3> QED
        BY <1>5, <1>7, <3>1, <3>2 DEF SenderHolds
    <2>4. CASE AckRead
      <3>1. /\ sender'.out = sender.out /\ sender'.queue = sender.queue
            /\ sender'.pc \in {"idle", "resuming", "stopped"}
            /\ sender'.pc = "resuming" <=> sender.out.kind = "RESUME"
            /\ sender.pc = "waiting"
        BY <2>4, AfterAckFacts DEF AckRead
      <3> QED
        BY <1>5, <1>7, <3>1, QueueFacts DEF SenderHolds, Holding
    <2> QED
      BY <2>1, <2>2, <2>3, <2>4
  <1> QED
    BY <1>6, <1>8 DEF Holding

-----------------------------------------------------------------------------
(* A resume finds a generation to number *)

LEMMA RoomCapture ==
    ASSUME Types, Holding, Room, Aside, CaptureNext
    PROVE  Room'
  <1>1. /\ sender'.pc = sender.pc /\ sender'.out = sender.out
        /\ sender'.generation = sender.generation /\ UNCHANGED page
        /\ sender'.status = sender.status \/ sender'.status = "FAILED"
    BY DEF Aside, CaptureNext, OpenDevice, StartDevice, BeginAdmitting,
       CallbackEnters, CallbackQueues, CallbackGivesUp, WorkerChecks, WorkerGets, WorkerFills,
       WorkerNumbers, WorkerQueues, WorkerSettles, WorkerSetsDrained
  <1>2. \A i \in DOMAIN sender'.queue :
           \/ i \in DOMAIN sender.queue /\ sender'.queue[i] = sender.queue[i]
           \/ sender'.queue[i].kind = "AUDIO"
    <2>1. CASE sender'.queue = sender.queue
      BY <2>1
    <2>2. CASE capture.pc = "queueing" /\ sender' = Enqueued(capture.held)
      <3>1. /\ \/ sender'.queue = Append(sender.queue, capture.held)
               \/ sender'.queue = sender.queue
            /\ capture.held.kind = "AUDIO"
        BY <2>2, QueueFacts, StateTypes, EnqueuedFacts DEF Holding, CaptureHolds
      <3>2. sender.queue \in Seq(Records) /\ Len(sender.queue) \in Nat
        BY QueueFacts
      <3> QED
        BY <3>1, <3>2
    <2> QED
      BY <2>1, <2>2, QueueOnly
  <1> QED
    BY <1>1, <1>2 DEF Room

LEMMA RoomPage ==
    ASSUME Types, Holding, Room, Aside, PageNext
    PROVE  Room'
  <1>1. page \in PageState /\ sender'.generation = sender.generation
    BY StateTypes DEF Aside
  <1>2. CASE OpenMicrophone
    BY <1>2 DEF OpenMicrophone, Room
  <1>3. CASE PressResume
    BY <1>1, <1>3 DEF PressResume, Room
  <1>4. CASE PressPause \/ PressEnd
    <2>1. page'.pc = "stopping"
      BY <1>1, <1>4 DEF PressPause, PressEnd, Press, PageState
    <2> QED
      BY <2>1 DEF Room
  <1>5. CASE Flush \/ QueueRest
    <2>1. page'.button = page.button /\ page.button \in {"PAUSE", "END"}
      BY <1>1, <1>5 DEF Flush, QueueRest, PageState, Holding, PageHolds
    <2> QED
      BY <2>1 DEF Room
  <1>6. CASE \/ StopStream \/ Drained \/ DrainTimesOut \/ NumberRest \/ NumberControl
             \/ QueueControl \/ CloseCapture
    <2>1. page'.pc # "control"
      BY <1>1, <1>6 DEF StopStream, Drained, DrainTimesOut, NumberRest, NumberControl,
         QueueControl, CloseCapture, PageState
    <2> QED
      BY <2>1 DEF Room
  <1> QED
    BY <1>2, <1>3, <1>4, <1>5, <1>6 DEF PageNext

LEMMA RoomSender ==
    ASSUME Types, Turns, Holding, Room,
           Stopping \/ Connects \/ SenderSends \/ AckRead \/ DeviceResumes
    PROVE  Room'
  <1>1. sender \in SenderState /\ page \in PageState
    BY StateTypes
  <1>2. page'.pc = page.pc /\ page'.button = page.button
    BY <1>1 DEF Stopping, Connects, SenderSends, AckRead, DeviceResumes, PageState
  <1>3. CASE Stopping
    BY <1>2, <1>3 DEF Stopping, MayFail, Room
  <1>4. CASE Connects
    <2>1. /\ sender'.out.kind = "START" /\ sender'.queue = sender.queue
          /\ sender'.status = sender.status /\ sender'.generation = sender.generation
      BY <1>1, <1>4, NoRecordFacts DEF Connects, SenderState
    <2> QED
      BY <1>2, <2>1 DEF Room
  <1>5. CASE SenderSends
    <2>1. /\ sender.queue # <<>> /\ sender'.queue = Tail(sender.queue)
          /\ sender'.out = Head(sender.queue)
          /\ sender'.status = sender.status /\ sender'.generation = sender.generation
      BY <1>1, <1>5 DEF SenderSends, SenderState
    <2>2. /\ 1 \in DOMAIN sender.queue /\ Head(sender.queue) = sender.queue[1]
          /\ \A i \in DOMAIN Tail(sender.queue) : /\ i + 1 \in DOMAIN sender.queue
                                                  /\ Tail(sender.queue)[i] = sender.queue[i + 1]
      BY <2>1, QueueFacts, SeqFacts, HeadTailProperties
    <2> QED
      BY <1>2, <2>1, <2>2 DEF Room
  <1>6. CASE AckRead
    <2>1. /\ Accepting /\ sender'.out = sender.out /\ sender'.queue = sender.queue
          /\ sender'.pc \in {"idle", "resuming", "stopped"} /\ sender.pc = "waiting"
          /\ sender'.generation = sender.generation
             \/ (sender.out.kind = "RESUME" /\ sender'.generation = sender.generation + 1)
          /\ sender'.generation = sender.out.generation
          /\ sender.out.kind # "AUDIO" => sender'.status = StateAfter(sender.out.kind)
          /\ sender.out.kind = "AUDIO" => sender'.status = sender.status
      BY <1>6, AfterAckFacts DEF AckRead
    <2>2. CASE sender'.generation = sender.generation
      <3>1. sender.out.kind \in {"START", "AUDIO", "PAUSE", "RESUME", "END"}
        BY <2>1 DEF Accepting, Buttons
      <3>2. sender'.status # "PAUSED" \/ sender'.status = sender.status
            \/ sender.out.kind = "PAUSE"
        BY <2>1, <3>1 DEF StateAfter
      <3>3. sender.out.kind = "PAUSE" => ~(sender.out.generation < sender.generation)
        BY <2>1, <2>2, QueueFacts, BlocksAreShort
      <3> QED
        BY <1>2, <2>1, <2>2, <3>2, <3>3 DEF Room
    <2>3. CASE sender.out.kind = "RESUME" /\ sender'.generation = sender.generation + 1
      <3>1. sender'.status # "PAUSED"
        BY <2>1, <2>3 DEF StateAfter
      <3>2. \A i \in DOMAIN sender.queue :
               /\ sender.queue[i].generation \in Nat
               /\ sender.queue[i].kind = "PAUSE" => sender.queue[i].generation <= sender.generation
        BY QueueFacts, SeqFacts, FieldsOfRecords DEF Holding, SenderHolds, IsNumbered
      <3>3. sender.generation \in Nat
        BY QueueFacts, BlocksAreShort
      <3>4. \A i \in DOMAIN sender'.queue : sender'.queue[i].kind = "PAUSE"
                                       => sender'.queue[i].generation < sender'.generation
        BY <2>1, <2>3, <3>2, <3>3
      <3> QED
        BY <2>1, <3>1, <3>4 DEF Room
    <2> QED
      BY <2>1, <2>2, <2>3
  <1>7. CASE DeviceResumes
    <2>1. /\ sender'.pc = "idle" /\ sender'.queue = sender.queue
          /\ sender'.status = sender.status /\ sender'.generation = sender.generation
      BY <1>1, <1>7 DEF DeviceResumes, SenderState
    <2> QED
      BY <1>2, <2>1 DEF Room
  <1> QED
    BY <1>3, <1>4, <1>5, <1>6, <1>7

-----------------------------------------------------------------------------
(* The page's thread, the worker and the device keep apart *)

\* A step of the worker or the device that moves no audio.
LEMMA WorkerIdles ==
    ASSUME Types, Apart, UNCHANGED page,
           \/ OpenDevice \/ StartDevice \/ BeginAdmitting \/ CallbackEnters
           \/ CallbackGivesUp \/ WorkerChecks \/ WorkerSettles \/ WorkerSetsDrained
    PROVE  /\ capture'.buffer = capture.buffer /\ capture'.rest = capture.rest
           /\ capture'.queue = capture.queue /\ capture'.held = capture.held
           /\ \/ capture'.pc = capture.pc
              \/ /\ capture.pc \notin {"filling", "numbering", "queueing"}
                 /\ capture'.pc \notin {"filling", "numbering", "queueing"}
           /\ ~page.early => Silent'
  <1>1. capture \in CaptureState
    BY StateTypes
  <1>2. /\ capture'.buffer = capture.buffer /\ capture'.rest = capture.rest
        /\ capture'.queue = capture.queue /\ capture'.held = capture.held
        /\ \/ capture'.pc = capture.pc
           \/ /\ capture.pc \notin {"filling", "numbering", "queueing"}
              /\ capture'.pc \notin {"filling", "numbering", "queueing"}
    BY <1>1 DEF OpenDevice, StartDevice, BeginAdmitting, CallbackEnters,
       CallbackGivesUp,
       WorkerChecks, WorkerSettles, WorkerSetsDrained, CaptureState
  <1>3. ASSUME ~page.early
        PROVE  Silent'
    <2>1. Silent
      BY <1>3 DEF Apart
    <2>2. CASE OpenDevice
      BY <1>1, <2>1, <2>2 DEF OpenDevice, Silent, Resting, CaptureState
    <2>3. CASE StartDevice
      BY <1>1, <2>1, <2>3 DEF StartDevice, Silent, Resting, CaptureState
    <2>4. CASE BeginAdmitting
      BY <1>1, <2>1, <2>4 DEF BeginAdmitting, Silent, Resting, CaptureState
    <2>5. CASE CallbackEnters \/ CallbackGivesUp
      BY <1>1, <2>1, <2>5 DEF CallbackEnters, CallbackGivesUp, Silent, Resting,
         CaptureState
    <2>6. CASE WorkerChecks \/ WorkerSettles \/ WorkerSetsDrained
      BY ZenonT(60), <1>1, <2>1, <2>6 DEF WorkerChecks, WorkerSettles, WorkerSetsDrained,
         Silent, Resting,
         CaptureState
    <2> QED
      BY <2>2, <2>3, <2>4, <2>5, <2>6
  <1> QED
    BY <1>2, <1>3

LEMMA ApartCapture ==
    ASSUME Types, Apart, CaptureNext
    PROVE  Apart'
  <1>1. capture \in CaptureState /\ UNCHANGED page
    BY StateTypes DEF CaptureNext, OpenDevice, StartDevice, BeginAdmitting,
       CallbackEnters, CallbackQueues, CallbackGivesUp, WorkerChecks, WorkerGets, WorkerFills,
       WorkerNumbers, WorkerQueues, WorkerSettles, WorkerSetsDrained
  <1>2. Pieces /\ (~page.early => Silent /\ Leftover)
    BY DEF Apart
  <1>3. Longest \in Nat /\ ChunkUnits \in Nat
    BY BlocksAreShort
  <1>4. CASE \/ OpenDevice \/ StartDevice \/ BeginAdmitting \/ CallbackEnters
             \/ CallbackGivesUp \/ WorkerChecks \/ WorkerSettles \/ WorkerSetsDrained
    <2>1. /\ capture'.buffer = capture.buffer /\ capture'.rest = capture.rest
          /\ capture'.queue = capture.queue
          /\ \/ capture'.pc = capture.pc
             \/ /\ capture.pc \notin {"filling", "numbering", "queueing"}
                /\ capture'.pc \notin {"filling", "numbering", "queueing"}
          /\ ~page.early => Silent'
      BY <1>1, <1>4, WorkerIdles
    <2>2. Pieces'
      BY <1>2, <2>1 DEF Pieces
    <2>3. ~page.early => Leftover'
      BY <1>1, <1>2, <2>1 DEF Leftover
    <2> QED
      BY <1>1, <2>1, <2>2, <2>3 DEF Apart
  <1>5. ASSUME NEW n \in BlockSizes, CallbackQueues(n)
        PROVE  Apart'
    <2> DEFINE block == Units(audio.captured + 1, n)
    <2>1. /\ capture.callback = "queueing" /\ audio.captured + n <= MaxUnits
          /\ \/ capture' = [capture EXCEPT !.callback = "out", !.queue = Append(@, block)]
             \/ capture' = [capture EXCEPT !.callback = "full", !.overflow = TRUE]
      BY <1>5 DEF CallbackQueues
    <2>2. block \in AudioUnits /\ Len(block) = n /\ n <= Longest
      BY <2>1, BlockTypes, BlocksAreShort
    <2> HIDE DEF block
    <2>3. /\ capture'.pc = capture.pc /\ capture'.buffer = capture.buffer
          /\ capture'.rest = capture.rest /\ capture'.stream = capture.stream
          /\ capture'.stop = capture.stop
          /\ capture'.queue = Append(capture.queue, block) \/ capture'.queue = capture.queue
      BY <1>1, <2>1 DEF CaptureState
    <2>4. \A i \in DOMAIN capture'.queue :
             \/ i \in DOMAIN capture.queue /\ capture'.queue[i] = capture.queue[i]
             \/ capture'.queue[i] = block
      <3>1. capture.queue \in Seq(AudioUnits) /\ Len(capture.queue) \in Nat
        BY QueueFacts
      <3> QED
        BY <2>3, <3>1
    <2>5. \A i \in DOMAIN capture'.queue : Len(capture'.queue[i]) <= Longest
      BY <1>2, <2>2, <2>4 DEF Pieces
    <2>6. Pieces'
      BY <1>2, <2>3, <2>5 DEF Pieces
    <2>7. ~page.early => Silent' /\ Leftover'
      BY <1>1, <1>2, <2>1, <2>3 DEF Silent, Leftover, Resting
    <2> QED
      BY <1>1, <2>6, <2>7 DEF Apart
  <1>6. CASE WorkerGets
    <2>1. \/ capture' = [capture EXCEPT !.pc = "checking"]
          \/ /\ capture.queue # <<>>
             /\ capture' = [capture EXCEPT !.pc = "filling", !.rest = Head(capture.queue),
                                           !.queue = Tail(@)]
      BY <1>6 DEF WorkerGets
    <2>2. capture.pc = "getting" /\ capture.rest = <<>>
      BY <1>2, <1>6 DEF WorkerGets, Pieces
    <2>3. /\ capture'.buffer = capture.buffer /\ capture'.stream = capture.stream
          /\ capture'.stop = capture.stop /\ capture'.callback = capture.callback
      BY <1>1, <2>1 DEF CaptureState
    <2>4. ~page.early => Silent'
      <3>1. capture'.pc \in {"checking", "filling"}
        BY <1>1, <2>1 DEF CaptureState
      <3> QED
        BY <1>1, <1>2, <2>3, <3>1 DEF Silent, Resting
    <2>5. CASE capture' = [capture EXCEPT !.pc = "checking"]
      <3>1. /\ capture'.pc = "checking" /\ capture'.rest = capture.rest
            /\ capture'.queue = capture.queue
        BY <1>1, <2>5 DEF CaptureState
      <3>2. Pieces' /\ (~page.early => Leftover')
        BY <1>1, <1>2, <2>2, <2>3, <3>1 DEF Pieces, Leftover
      <3> QED
        BY <1>1, <2>4, <3>2 DEF Apart
    <2>6. CASE /\ capture.queue # <<>>
               /\ capture' = [capture EXCEPT !.pc = "filling", !.rest = Head(capture.queue),
                                             !.queue = Tail(@)]
      <3>1. /\ capture'.pc = "filling" /\ capture'.rest = Head(capture.queue)
            /\ capture'.queue = Tail(capture.queue)
        BY <1>1, <2>6 DEF CaptureState
      <3>2. /\ 1 \in DOMAIN capture.queue /\ Head(capture.queue) = capture.queue[1]
            /\ \A i \in DOMAIN Tail(capture.queue) :
                  /\ i + 1 \in DOMAIN capture.queue
                  /\ Tail(capture.queue)[i] = capture.queue[i + 1]
            /\ Len(Tail(capture.queue)) = Len(capture.queue) - 1
            /\ Len(capture.queue) \in Nat \ {0}
        BY <2>6, QueueFacts, SeqFacts, HeadTailProperties
      <3>3. Len(Head(capture.queue)) <= Longest
        BY <1>2, <3>2 DEF Pieces
      <3>4. Pieces'
        BY <1>2, <2>3, <3>1, <3>2, <3>3 DEF Pieces
      <3>5. ASSUME ~page.early, page.pc \in {"numbering", "queueing"}
            PROVE  Len(capture'.buffer) + Len(capture'.rest) + Len(capture'.queue) * Longest
                      < ChunkUnits
        <4>1. Len(capture.buffer) + 0 + Len(capture.queue) * Longest < ChunkUnits
          BY <1>2, <2>2, <3>5 DEF Leftover
        <4>2. (Len(capture.queue) - 1) * Longest + Longest = Len(capture.queue) * Longest
          BY <3>2, BlocksAreShort
        <4>3. Len(Head(capture.queue)) \in Nat
          BY <2>6, QueueFacts, SeqFacts, HeadTailProperties DEF AudioUnits
        <4>4. Len(capture.buffer) \in Nat /\ (Len(capture.queue) - 1) * Longest \in Nat
          <5>1. Len(capture.queue) - 1 \in 0 .. CaptureDepth
            BY SMTT(40), <3>2, QueueFacts, BlocksAreShort
          <5> QED
            BY <5>1, QueueFacts, BlocksAreShort
        <4>5. Len(capture.buffer) + Len(Head(capture.queue)) + (Len(capture.queue) - 1) * Longest
                 < ChunkUnits
          <5>1. ASSUME NEW a \in Nat, NEW h \in Nat, NEW m \in Nat, h <= Longest,
                       a + 0 + (m + Longest) < ChunkUnits
                PROVE  a + h + m < ChunkUnits
            BY <1>3, <5>1
          <5>2. Len(capture.buffer) + 0 + ((Len(capture.queue) - 1) * Longest + Longest)
                   < ChunkUnits
            BY <4>1, <4>2
          <5> QED
            BY <3>3, <4>3, <4>4, <5>1, <5>2
        <4> QED
          BY <2>3, <3>1, <3>2, <4>5
      <3>6. ~page.early => Leftover'
        BY <1>1, <3>1, <3>5 DEF Leftover
      <3> QED
        BY <1>1, <2>4, <3>4, <3>6 DEF Apart
    <2> QED
      BY <2>1, <2>5, <2>6
  <1>7. CASE WorkerFills
    <2>1. capture.pc = "filling" /\ Len(Hand) \in Nat
      BY <1>7, HandTypes DEF WorkerFills
    <2>6. /\ Len(capture.buffer) \in Nat /\ Len(capture.rest) \in Nat
          /\ Len(Hand) = Len(capture.buffer) + Len(capture.rest)
      BY HandTypes, QueueFacts
    <2>2. /\ capture'.stream = capture.stream /\ capture'.stop = capture.stop
          /\ capture'.callback = capture.callback /\ capture'.queue = capture.queue
          /\ capture'.pc \in {"settling", "numbering"}
      BY <1>1, <1>7 DEF WorkerFills, CaptureState
    <2>3. ~page.early => Silent'
      BY <1>1, <1>2, <2>2 DEF Silent, Resting
    <2>4. CASE Len(Hand) < ChunkUnits
      <3>1. capture'.buffer = Hand /\ capture'.rest = <<>> /\ capture'.pc = "settling"
        BY <1>1, <1>7, <2>4 DEF WorkerFills, Hand, CaptureState
      <3>2. Pieces'
        BY <1>2, <1>3, <2>2, <3>1 DEF Pieces
      <3>3. Len(capture'.buffer) + Len(capture'.rest) = Len(capture.buffer) + Len(capture.rest)
        <4>1. Len(capture'.buffer) = Len(Hand) /\ Len(capture'.rest) = 0
          BY <3>1
        <4> QED
          BY <2>6, <4>1
      <3>4. ~page.early => Leftover'
        BY <1>1, <1>2, <2>2, <3>1, <3>3 DEF Leftover
      <3> QED
        BY <1>1, <2>3, <3>2, <3>4 DEF Apart
    <2>5. CASE ~(Len(Hand) < ChunkUnits)
      <3>1. /\ capture'.buffer = <<>> /\ capture'.pc = "numbering"
            /\ capture'.rest = SubSeq(Hand, ChunkUnits + 1, Len(Hand))
        BY <1>1, <1>7, <2>5 DEF WorkerFills, Hand, CaptureState
      <3>2. /\ Len(SubSeq(Hand, ChunkUnits + 1, Len(Hand))) = Len(Hand) - ChunkUnits
            /\ Len(Hand) - ChunkUnits <= Len(capture.rest)
        <4>1. Len(Hand) >= ChunkUnits
          BY <1>3, <2>1, <2>5
        <4> QED
          BY <4>1, HandTypes
      <3>3. Len(capture'.rest) <= Longest
        <4>1. Len(capture'.rest) = Len(Hand) - ChunkUnits /\ Len(capture.rest) <= Longest
          BY <1>2, <3>1, <3>2 DEF Pieces
        <4>2. Len(capture.rest) \in Nat
          BY <2>6
        <4>3. ASSUME NEW h \in Nat, NEW r \in Nat, h - ChunkUnits <= r, r <= Longest
              PROVE  h - ChunkUnits <= Longest
          BY <1>3, <4>3
        <4>4. Len(Hand) - ChunkUnits <= Longest
          BY <2>1, <3>2, <4>1, <4>2, <4>3
        <4> QED
          BY <4>1, <4>4
      <3>4. Pieces'
        BY <1>2, <2>2, <3>1, <3>3 DEF Pieces
      <3>5. ~page.early => page.pc \notin {"numbering", "queueing"}
        <4>1. Len(capture.queue) * Longest \in Nat
          BY QueueFacts, BlocksAreShort
        <4>2. ASSUME NEW a \in Nat, NEW b \in Nat, NEW m \in Nat,
                     ~(a + b < ChunkUnits), a + b + m < ChunkUnits
              PROVE  FALSE
          BY <1>3, <4>2
        <4>3. ~(Len(capture.buffer) + Len(capture.rest) < ChunkUnits)
          BY <2>5, <2>6
        <4> QED
          BY ZenonT(60), <1>2, <2>6, <4>1, <4>2, <4>3 DEF Leftover
      <3> QED
        BY <1>1, <2>3, <3>4, <3>5 DEF Apart, Leftover
    <2> QED
      BY <2>4, <2>5
  <1>8. CASE WorkerNumbers \/ WorkerQueues
    <2>1. /\ capture.pc \in {"numbering", "queueing"} /\ capture'.buffer = capture.buffer
          /\ capture'.queue = capture.queue /\ capture'.stream = capture.stream
          /\ capture'.callback = capture.callback
          /\ \/ capture'.rest = capture.rest /\ capture'.pc \in {"queueing", "filling"}
             \/ capture'.rest = <<>> /\ capture'.pc = "settling"
      BY <1>1, <1>8 DEF WorkerNumbers, WorkerQueues, CaptureState
    <2>2. Pieces'
      BY <1>2, <1>3, <2>1 DEF Pieces
    <2>3. ~page.early => Silent' /\ Leftover'
      BY <1>1, <1>2, <2>1 DEF Silent, Leftover, Resting
    <2> QED
      BY <1>1, <2>2, <2>3 DEF Apart
  <1> QED
    BY <1>4, <1>5, <1>6, <1>7, <1>8 DEF CaptureNext

LEMMA ApartPage ==
    ASSUME Types, Holding, Apart, PageNext
    PROVE  Apart'
  <1>1. capture \in CaptureState /\ page \in PageState
    BY StateTypes
  <1>2. Pieces /\ (~page.early => Silent /\ Leftover)
    BY DEF Apart
  <1>3. CASE OpenMicrophone
    <2>1. /\ capture'.pc = "opening" /\ capture.pc = "none" /\ UNCHANGED page
          /\ capture'.buffer = capture.buffer /\ capture'.rest = capture.rest
          /\ capture'.queue = capture.queue /\ capture'.stream = capture.stream
          /\ capture'.stop = capture.stop /\ capture'.callback = capture.callback
          /\ page.pc = "idle"
      BY <1>1, <1>3 DEF OpenMicrophone, CaptureState
    <2>2. Pieces' /\ (~page.early => Silent' /\ Leftover')
      BY <1>2, <2>1 DEF Pieces, Silent, Leftover, Resting
    <2> QED
      BY <2>1, <2>2 DEF Apart
  <1>4. CASE PressPause \/ PressEnd \/ PressResume
    <2>1. /\ page.pc = "idle"
          /\ \/ page'.pc = "control" /\ page'.button = "RESUME"
             \/ page'.pc = "stopping"
          /\ page'.early = (page.early \/ capture.pc \in {"opening", "starting", "admitting"})
          /\ capture'.pc = capture.pc
          /\ capture'.buffer = capture.buffer /\ capture'.rest = capture.rest
          /\ capture'.queue = capture.queue /\ capture'.stream = capture.stream
          /\ capture'.stop = capture.stop /\ capture'.callback = capture.callback
      BY <1>1, <1>4 DEF PressPause, PressEnd, PressResume, Press, CaptureState,
         PageState
    <2>2. Pieces' /\ (~page'.early => Silent' /\ Leftover')
      BY <1>2, <2>1 DEF Pieces, Silent, Leftover, Resting
    <2> QED
      BY <2>2 DEF Apart
  \* The page's thread goes on with its button, and what it relies on stays.
  <1>5. ASSUME page'.early = page.early, page'.button = page.button, page.pc # "idle",
               capture'.pc = capture.pc, capture'.rest = capture.rest,
               capture'.queue = capture.queue, capture'.callback = capture.callback,
               capture'.buffer = capture.buffer \/ capture'.buffer = <<>>,
               \/ capture'.stop = capture.stop
               \/ capture'.stop = TRUE /\ page'.pc = "idle",
               \/ capture'.stream = capture.stream
               \/ capture'.stream = "stopped" /\ capture.stream # "none"
                  /\ capture.callback = "out"
               \/ capture'.stream = "none" /\ Resting,
               page'.pc # "idle" /\ ~Resting => capture'.stream # "running",
               page'.pc \in {"numbering", "queueing"} =>
                  \/ /\ page.pc \in {"numbering", "queueing"}
                     /\ capture'.buffer = capture.buffer
                  \/ capture.buffer # <<>> /\ capture'.buffer = <<>>
        PROVE  Apart'
    <2>1. Pieces'
      BY <1>2, <1>5 DEF Pieces
    <2>2. ASSUME ~page.early
          PROVE  Silent'
      BY <1>2, <1>5, <2>2 DEF Silent, Resting
    <2>3. ASSUME ~page.early, page.pc \in {"numbering", "queueing"},
                 capture'.buffer = capture.buffer
          PROVE  Leftover'
      BY <1>2, <1>5, <2>3 DEF Leftover
    <2>4. ASSUME capture.buffer # <<>>, capture'.buffer = <<>>
          PROVE  Leftover'
      <3>1. /\ capture.pc \notin {"numbering", "queueing"} /\ Len(capture.rest) <= Longest
            /\ Len(capture.rest) \in Nat /\ Len(capture.queue) \in 0 .. CaptureDepth
        BY SMTT(40), <1>2, <2>4, QueueFacts, BlocksAreShort DEF Pieces
      <3>2. /\ Len(capture.queue) * Longest \in Nat
            /\ Longest + Len(capture.queue) * Longest < ChunkUnits
        BY <3>1, BlocksAreShort
      <3>3. ASSUME NEW r \in Nat, NEW m \in Nat, r <= Longest, Longest + m < ChunkUnits
            PROVE  0 + r + m < ChunkUnits
        BY <3>3, BlocksAreShort
      <3>4. 0 + Len(capture.rest) + Len(capture.queue) * Longest < ChunkUnits
        BY <3>1, <3>2, <3>3
      <3>5. Len(capture'.buffer) = 0
        BY <2>4
      <3> QED
        BY <1>5, <3>1, <3>4, <3>5 DEF Leftover
    <2>5. page'.pc \notin {"numbering", "queueing"} => Leftover'
      BY DEF Leftover
    <2> QED
      BY <1>5, <2>1, <2>2, <2>3, <2>4, <2>5 DEF Apart
  <1>6. CASE StopStream \/ Drained \/ DrainTimesOut
    <2>1. /\ page'.early = page.early /\ page'.button = page.button /\ page.pc # "idle"
          /\ capture'.pc = capture.pc /\ capture'.rest = capture.rest
          /\ capture'.queue = capture.queue /\ capture'.callback = capture.callback
          /\ capture'.buffer = capture.buffer /\ capture'.stop = capture.stop
          /\ page'.pc \notin {"numbering", "queueing"}
      BY <1>1, <1>6 DEF StopStream, Drained, DrainTimesOut, CaptureState, PageState
    <2>2. /\ \/ capture'.stream = capture.stream
             \/ capture'.stream = "stopped" /\ capture.stream # "none"
                /\ capture.callback = "out"
          /\ page'.pc # "idle" /\ ~Resting => capture'.stream # "running"
      BY <1>1, <1>6 DEF StopStream, Drained, DrainTimesOut, CaptureState, PageState,
         Resting
    <2> QED
      BY <1>5, <2>1, <2>2
  <1>7. CASE Flush
    <2>1. /\ page'.early = page.early /\ page'.button = page.button /\ page.pc = "flushing"
          /\ capture'.pc = capture.pc /\ capture'.rest = capture.rest
          /\ capture'.queue = capture.queue /\ capture'.callback = capture.callback
          /\ capture'.buffer = <<>> /\ capture'.stop = capture.stop
          /\ capture'.stream = capture.stream
          /\ page'.pc \in {"numbering", "queueing"} => capture.buffer # <<>>
      BY <1>1, <1>7 DEF Flush, CaptureState, PageState
    <2> QED
      BY <1>5, <2>1 DEF Resting
  <1>8. CASE NumberRest \/ QueueRest
    <2>1. /\ page'.early = page.early /\ page'.button = page.button
          /\ page.pc \in {"numbering", "queueing"} /\ UNCHANGED capture
      BY <1>1, <1>8 DEF NumberRest, QueueRest, PageState
    <2> QED
      BY <1>5, <2>1 DEF Resting
  <1>9. CASE NumberControl \/ QueueControl
    <2>1. /\ page'.early = page.early /\ page'.button = page.button
          /\ \/ page'.pc = "idle"
             \/ page.pc = "control" /\ page'.pc = "controlQueueing"
             \/ page.pc = "controlQueueing" /\ page'.pc = "closing" /\ page.button = "END"
          /\ page.pc \in {"control", "controlQueueing"} /\ UNCHANGED capture
      BY <1>1, <1>9 DEF NumberControl, QueueControl, PageState
    <2>2. Pieces' /\ (~page.early => Silent' /\ Leftover')
      BY <1>2, <2>1 DEF Pieces, Silent, Leftover, Resting
    <2> QED
      BY <2>1, <2>2 DEF Apart
  <1>10. CASE CloseCapture
    <2>1. /\ page'.early = page.early /\ page'.button = page.button /\ page.pc = "closing"
          /\ capture'.pc = capture.pc /\ capture'.rest = capture.rest
          /\ capture'.queue = capture.queue /\ capture'.callback = capture.callback
          /\ capture'.buffer = capture.buffer /\ capture'.stop = TRUE
          /\ capture'.stream = "none" /\ page'.pc = "idle"
      BY <1>1, <1>10 DEF CloseCapture, CaptureState, PageState
    <2> QED
      BY <1>5, <2>1 DEF Resting
  <1> QED
    BY <1>3, <1>4, <1>6, <1>7, <1>8, <1>9, <1>10 DEF PageNext

LEMMA ApartSender ==
    ASSUME Types, Apart,
           Stopping \/ Connects \/ SenderSends \/ AckRead \/ DeviceResumes
    PROVE  Apart'
  <1>1. CASE UNCHANGED <<capture, page>>
    BY <1>1 DEF Apart, Pieces, Silent, Leftover, Resting
  <1>2. CASE DeviceResumes
    <2>1. /\ page'.pc = page.pc /\ page'.early = (page.early \/ page.pc # "idle")
          /\ capture'.stream = "running" /\ capture.stream # "none"
          /\ capture'.pc = capture.pc /\ capture'.rest = capture.rest
          /\ capture'.queue = capture.queue /\ capture'.callback = capture.callback
          /\ capture'.buffer = capture.buffer /\ capture'.stop = capture.stop
      BY <1>2, StateTypes DEF DeviceResumes, CaptureState, PageState
    <2>2. Pieces' /\ (~page'.early => Silent' /\ Leftover')
      BY <2>1 DEF Apart, Pieces, Silent, Leftover, Resting
    <2> QED
      BY <2>2 DEF Apart
  <1> QED
    BY <1>1, <1>2 DEF Stopping, Connects, SenderSends, AckRead

-----------------------------------------------------------------------------
(* The way of the audio: a unit stays, moves on by one station, or is dropped *)

LEMMA StationsNext ==
    /\ Stations'[1] = Range(audio'.admitted)
    /\ Stations'[2] = Range(OnWire')
    /\ Stations'[3] = All(UnitsOf(sender'.queue))
    /\ Stations'[4] = Range(page'.held.units) \cup Range(capture'.held.units)
    /\ Stations'[5] = Range(Hand')
    /\ Stations'[6] = All(capture'.queue)
  BY DEF Stations

LEMMA EarlyIsBoolean ==
    ASSUME Types
    PROVE  page.early \in BOOLEAN
  BY StateTypes DEF PageState

LEMMA EarlyWillBeBoolean ==
    ASSUME Types'
    PROVE  page'.early \in BOOLEAN
  BY DEF Types, ClientTypes, PageState

\* Some units have gone from one station to the one before it.
LEMMA OrderMoves ==
    ASSUME Types, Types', InOrder, page.early => page'.early,
           audio'.captured >= audio.captured,
           NEW n \in 2 .. 6, NEW M, M \subseteq Stations[n],
           \A k \in 1 .. 6 : k # n - 1 => Stations'[k] \subseteq Stations[k],
           Stations'[n-1] \subseteq Stations[n-1] \cup M,
           Ahead(page.early, M, Stations'[n])
    PROVE  InOrder'
  <1>1. Ordered(page'.early, Stations')
    BY ZenonT(60), EarlyIsBoolean, EarlyWillBeBoolean, MovesOn DEF InOrder
  <1>2. audio.captured \in Nat /\ audio'.captured \in Nat
    BY StateTypes, BlocksAreShort DEF Types, AudioState
  <1>3. \A k \in 1 .. 6 : Stations[k] \subseteq 1 .. audio'.captured
    BY <1>2 DEF InOrder
  <1>4. \A k \in 1 .. 6 : Stations'[k] \subseteq 1 .. audio'.captured
    BY <1>3
  <1> QED
    BY <1>1, <1>4 DEF InOrder

\* Units have been dropped, if anything.
LEMMA OrderDrops ==
    ASSUME Types, Types', InOrder, page.early => page'.early,
           audio'.captured >= audio.captured,
           \A k \in 1 .. 6 : Stations'[k] \subseteq Stations[k]
    PROVE  InOrder'
  <1>1. Ordered(page'.early, Stations')
    BY EarlyIsBoolean, EarlyWillBeBoolean, OnlyDrops DEF InOrder
  <1>2. audio.captured \in Nat /\ audio'.captured \in Nat
    BY StateTypes, BlocksAreShort DEF Types, AudioState
  <1>3. \A k \in 1 .. 6 : Stations[k] \subseteq 1 .. audio'.captured
    BY <1>2 DEF InOrder
  <1>4. \A k \in 1 .. 6 : Stations'[k] \subseteq 1 .. audio'.captured
    BY <1>3
  <1> QED
    BY <1>1, <1>4 DEF InOrder

\* A button that comes early makes the order loose; a tight one is loose too.
LEMMA SortedLoosens ==
    ASSUME Types, Types', Sorted, page.early => page'.early
    PROVE  /\ Rising(page'.early, audio.admitted) /\ Rising(page'.early, OnWire)
           /\ InLine(page'.early, UnitsOf(sender.queue))
           /\ Rising(page'.early, page.held.units) /\ Rising(page'.early, capture.held.units)
           /\ Rising(page'.early, Hand) /\ InLine(page'.early, capture.queue)
           /\ Rising(page'.early, <<>>)
           /\ \A S, T : Ahead(page.early, S, T) => Ahead(page'.early, S, T)
  BY EarlyIsBoolean, EarlyWillBeBoolean, Loosens, RisingEmpty DEF Sorted

\* Two stations of one state.
LEMMA StationsApart ==
    ASSUME Types, InOrder, NEW k \in 1 .. 6, NEW l \in 1 .. 6, k < l
    PROVE  /\ Ahead(page.early, Stations[k], Stations[l])
           /\ \A u \in Stations[k], v \in Stations[l] : u # v
  BY DEF InOrder, Ordered, Ahead, Precedes

\* No unit moves.
LEMMA OrderKept ==
    ASSUME Types, Types', InOrder, Sorted, page.early => page'.early,
           audio'.captured >= audio.captured, audio'.admitted = audio.admitted,
           OnWire' = OnWire \/ OnWire' = <<>>,
           \/ sender'.queue = sender.queue
           \/ \E record \in Records : /\ sender'.queue = Append(sender.queue, record)
                                      /\ record.units = <<>>,
           page'.held.units = page.held.units \/ page'.held.units = <<>>,
           capture'.held.units = capture.held.units \/ capture'.held.units = <<>>,
           Hand' = Hand \/ Hand' = <<>>,
           capture'.queue = capture.queue
    PROVE  InOrder' /\ Sorted'
  <1>1. /\ All(UnitsOf(sender'.queue)) = All(UnitsOf(sender.queue))
        /\ InLine(page'.early, UnitsOf(sender'.queue))
    <2>1. InLine(page'.early, UnitsOf(sender.queue))
      BY SortedLoosens
    <2>2. ASSUME NEW record \in Records, sender'.queue = Append(sender.queue, record),
                 record.units = <<>>
          PROVE  /\ All(UnitsOf(sender'.queue)) = All(UnitsOf(sender.queue))
                 /\ InLine(page'.early, UnitsOf(sender'.queue))
      <3>1. /\ UnitsOf(sender'.queue) = Append(UnitsOf(sender.queue), <<>>)
            /\ UnitsOf(sender.queue) \in Seq(AudioUnits) /\ <<>> \in AudioUnits
        BY ZenonT(60), <2>2, UnitsOfQueue, QueueFacts, NoRecordFacts
      <3>2. /\ Range(<<>>) = {} /\ Rising(page'.early, <<>>)
            /\ Ahead(page'.early, All(UnitsOf(sender.queue)), Range(<<>>))
        BY RangeOfEmpty, RisingEmpty DEF Ahead
      <3>3. \A line \in Seq(AudioUnits) :
               /\ All(Append(line, <<>>)) = All(line) \cup Range(<<>>)
               /\ /\ InLine(page'.early, line) /\ Rising(page'.early, <<>>)
                  /\ Ahead(page'.early, All(line), Range(<<>>))
                  => InLine(page'.early, Append(line, <<>>))
        BY <3>1, LineAppends
      <3> QED
        BY <2>1, <3>1, <3>2, <3>3
    <2> QED
      BY <2>1, <2>2
  <1>2. \A k \in 1 .. 6 : Stations'[k] \subseteq Stations[k]
    <2>1. /\ Stations'[1] \subseteq Stations[1] /\ Stations'[2] \subseteq Stations[2]
          /\ Stations'[3] \subseteq Stations[3] /\ Stations'[4] \subseteq Stations[4]
          /\ Stations'[5] \subseteq Stations[5] /\ Stations'[6] \subseteq Stations[6]
      BY <1>1, StationsAre, StationsNext, RangeOfEmpty
    <2> QED
      BY <2>1
  <1>3. InOrder'
    BY <1>2, OrderDrops
  <1>4. \A u \in Range(page'.held.units), v \in Range(capture'.held.units) : u # v
    BY RangeOfEmpty DEF Sorted
  <1>5. Sorted'
    BY <1>1, <1>4, SortedLoosens DEF Sorted
  <1> QED
    BY <1>3, <1>5

-----------------------------------------------------------------------------
(* The six moves of a unit *)

\* From the wire to the session.
LEMMA OrderAdmits ==
    ASSUME Types, Types', InOrder, Sorted, UNCHANGED client,
           audio'.captured = audio.captured, OnWire' = <<>>,
           audio'.admitted = audio.admitted \o OnWire, OnWire \in AudioUnits
    PROVE  InOrder' /\ Sorted'
  <1>1. audio.admitted \in Seq(1 .. MaxUnits) /\ OnWire \in Seq(1 .. MaxUnits)
    BY QueueFacts DEF AudioUnits
  <1>2. /\ Ahead(page.early, Range(audio.admitted), Range(OnWire))
        /\ Rising(page.early, audio.admitted) /\ Rising(page.early, OnWire)
    <2>1. Ahead(page.early, Stations[1], Stations[2])
      BY StationsApart
    <2> QED
      BY <2>1, StationsAre DEF Sorted
  <1>3. /\ Rising(page.early, audio.admitted \o OnWire)
        /\ Range(audio.admitted \o OnWire) = Range(audio.admitted) \cup Range(OnWire)
    <2>1. Rising(page.early, audio.admitted \o OnWire)
      BY <1>1, <1>2, RisingConcat
    <2> QED
      BY <1>1, <2>1, RangeConcatenation
  <1>4. InOrder'
    <2> DEFINE M == Stations[2]
    <2>1. /\ Stations'[1] = Stations[1] \cup M /\ Stations'[2] = {}
          /\ Stations'[3] = Stations[3] /\ Stations'[4] = Stations[4]
          /\ Stations'[5] = Stations[5] /\ Stations'[6] = Stations[6]
      BY <1>3, StationsAre, StationsNext, RangeOfEmpty DEF client, Hand
    <2>2. Ahead(page.early, M, Stations'[2])
      BY <2>1 DEF Ahead
    <2> HIDE DEF M
    <2>3. /\ \A k \in 1 .. 6 : k # 2 - 1 => Stations'[k] \subseteq Stations[k]
          /\ Stations'[2-1] \subseteq Stations[2-1] \cup M
      BY <2>1
    <2>4. M \subseteq Stations[2]
      BY DEF M
    <2>5. audio'.captured >= audio.captured /\ (page.early => page'.early)
      BY QueueFacts, BlocksAreShort DEF client
    <2> QED
      BY <2>2, <2>3, <2>4, <2>5, OrderMoves
  <1>5. Sorted'
    BY <1>3, RisingEmpty DEF Sorted, client, Hand
  <1> QED
    BY <1>4, <1>5

\* From the sender's queue to the wire, or lost on a connection that is gone.
LEMMA OrderSends ==
    ASSUME Types, Types', InOrder, Sorted, UNCHANGED <<capture, page, audio>>,
           OnWire = <<>>, sender.queue # <<>>, sender'.queue = Tail(sender.queue),
           OnWire' = Head(sender.queue).units \/ OnWire' = <<>>
    PROVE  InOrder' /\ Sorted'
  <1> DEFINE line == UnitsOf(sender.queue)
  <1>1. /\ line \in Seq(AudioUnits) /\ line # <<>> /\ Head(line) = Head(sender.queue).units
        /\ UnitsOf(sender'.queue) = Tail(line)
    BY UnitsOfQueue, QueueFacts
  <1>2. InLine(page.early, line) /\ All(line) = Stations[3]
    BY StationsAre DEF Sorted
  <1> HIDE DEF line
  <1>3. /\ All(line) = Range(Head(line)) \cup All(Tail(line))
        /\ InLine(page.early, Tail(line)) /\ Rising(page.early, Head(line))
        /\ Ahead(page.early, Range(Head(line)), All(Tail(line)))
    BY <1>1, <1>2, LineMovesOn
  <1>4. InOrder'
    <2> DEFINE M == Range(Head(line))
    <2>1. /\ Stations'[1] = Stations[1] /\ Stations'[2] \subseteq M
          /\ Stations'[3] = All(Tail(line)) /\ Stations'[4] = Stations[4]
          /\ Stations'[5] = Stations[5] /\ Stations'[6] = Stations[6]
      BY <1>1, StationsAre, StationsNext, RangeOfEmpty DEF Hand
    <2>2. /\ Stations'[3] \subseteq Stations[3] /\ M \subseteq Stations[3]
          /\ Ahead(page.early, M, Stations'[3])
      BY <1>2, <1>3, <2>1
    <2> HIDE DEF M
    <2>3. /\ \A k \in 1 .. 6 : k # 3 - 1 => Stations'[k] \subseteq Stations[k]
          /\ Stations'[3-1] \subseteq Stations[3-1] \cup M
      BY <2>1, <2>2
    <2>4. audio'.captured >= audio.captured /\ (page.early => page'.early)
      BY QueueFacts, BlocksAreShort
    <2> QED
      BY <2>2, <2>3, <2>4, OrderMoves
  <1>5. Sorted'
    BY <1>1, <1>3, RisingEmpty DEF Sorted, Hand
  <1> QED
    BY <1>4, <1>5

\* From the hand of the worker or of the page's thread to the sender's queue.
LEMMA OrderQueues ==
    ASSUME Types, Types', InOrder, Sorted, page'.early = page.early, UNCHANGED audio,
           OnWire' = OnWire, Hand' = Hand \/ Hand' = <<>>, capture'.queue = capture.queue,
           NEW record \in Records, sender'.queue = Append(sender.queue, record),
           NEW other \in AudioUnits,
           \/ /\ record.units = capture.held.units /\ other = page.held.units
              /\ capture'.held.units = <<>> /\ page'.held.units = other
           \/ /\ record.units = page.held.units /\ other = capture.held.units
              /\ page'.held.units = <<>> /\ capture'.held.units = other,
           Ahead(page.early, Range(record.units), Range(other))
    PROVE  InOrder' /\ Sorted'
  <1> DEFINE line == UnitsOf(sender.queue)
  <1>1. /\ line \in Seq(AudioUnits) /\ record.units \in AudioUnits
        /\ UnitsOf(sender'.queue) = Append(line, record.units)
    BY SMTT(40), UnitsOfQueue, QueueFacts, FieldsOfRecords
  <1>2. InLine(page.early, line) /\ All(line) = Stations[3]
    BY StationsAre DEF Sorted
  <1> HIDE DEF line
  <1>3. /\ Range(record.units) \subseteq Stations[4] /\ Rising(page.early, record.units)
        /\ Stations'[4] = Range(other) /\ Range(other) \subseteq Stations[4]
        /\ Rising(page.early, other)
    BY StationsAre, StationsNext, RangeOfEmpty DEF Sorted
  <1>4. Ahead(page.early, All(line), Range(record.units))
    <2>1. Ahead(page.early, Stations[3], Stations[4])
      BY StationsApart
    <2> QED
      BY <1>2, <1>3, <2>1 DEF Ahead
  <1>5. /\ All(UnitsOf(sender'.queue)) = All(line) \cup Range(record.units)
        /\ InLine(page.early, UnitsOf(sender'.queue))
    BY <1>1, <1>2, <1>3, <1>4, LineAppends
  <1>6. InOrder'
    <2> DEFINE M == Range(record.units)
    <2>1. /\ Stations'[1] = Stations[1] /\ Stations'[2] = Stations[2]
          /\ Stations'[3] = Stations[3] \cup M /\ Stations'[4] \subseteq Stations[4]
          /\ Stations'[5] \subseteq Stations[5] /\ Stations'[6] = Stations[6]
      BY <1>2, <1>3, <1>5, StationsAre, StationsNext, RangeOfEmpty
    <2>2. M \subseteq Stations[4] /\ Ahead(page.early, M, Stations'[4])
      BY <1>3
    <2> HIDE DEF M
    <2>3. /\ \A k \in 1 .. 6 : k # 4 - 1 => Stations'[k] \subseteq Stations[k]
          /\ Stations'[4-1] \subseteq Stations[4-1] \cup M
      BY <2>1
    <2>4. audio'.captured >= audio.captured
      <3>1. audio.captured \in 0 .. MaxUnits /\ MaxUnits \in Nat
        BY QueueFacts, BlocksAreShort
      <3>2. audio'.captured = audio.captured
        OBVIOUS
      <3> QED
        BY <3>1, <3>2
    <2>5. page.early => page'.early
      OBVIOUS
    <2> QED
      BY <2>2, <2>3, <2>4, <2>5, OrderMoves
  <1>7. \A u \in Range(page'.held.units), v \in Range(capture'.held.units) : u # v
    BY RangeOfEmpty
  <1>8. /\ Rising(page.early, page'.held.units) /\ Rising(page.early, capture'.held.units)
        /\ Rising(page.early, Hand')
    BY <1>3, RisingEmpty DEF Sorted
  <1>9. Sorted'
    BY <1>5, <1>7, <1>8 DEF Sorted
  <1> QED
    BY <1>6, <1>9

\* From the buffer to the hand of the worker or of the page's thread.
LEMMA OrderTakes ==
    ASSUME Types, Types', InOrder, Sorted, page'.early = page.early, UNCHANGED <<sender, audio>>,
           OnWire' = OnWire, capture'.queue = capture.queue,
           NEW chunk \in AudioUnits, Hand = chunk \o Hand',
           \/ /\ capture.held.units = <<>> /\ capture'.held.units = chunk
              /\ page'.held.units = page.held.units
           \/ /\ page.held.units = <<>> /\ page'.held.units = chunk
              /\ capture'.held.units = capture.held.units
    PROVE  InOrder' /\ Sorted'
  <1>1. chunk \in Seq(1 .. MaxUnits) /\ Hand' \in Seq(1 .. MaxUnits)
    <2>1. capture'.buffer \in Seq(1 .. MaxUnits) /\ capture'.rest \in Seq(1 .. MaxUnits)
      BY DEF Types, ClientTypes, CaptureState, AudioUnits
    <2> QED
      BY <2>1, ConcatProperties DEF AudioUnits, Hand
  <1>2. /\ Rising(page.early, chunk) /\ Rising(page.early, Hand')
        /\ Ahead(page.early, Range(chunk), Range(Hand'))
    <2>1. Rising(page.early, chunk \o Hand')
      BY DEF Sorted
    <2> HIDE DEF Hand
    <2> QED
      BY <1>1, <2>1, RisingConcat
  <1>3. Range(Hand) = Range(chunk) \cup Range(Hand')
    BY <1>1, RangeConcatenation
  <1>4. InOrder'
    <2> DEFINE M == Range(chunk)
    <2>1. /\ Stations'[1] = Stations[1] /\ Stations'[2] = Stations[2]
          /\ Stations'[3] = Stations[3] /\ Stations'[4] = Stations[4] \cup M
          /\ Stations'[5] = Range(Hand') /\ Stations'[6] = Stations[6]
      BY StationsAre, StationsNext, RangeOfEmpty
    <2>2. /\ M \subseteq Stations[5] /\ Stations'[5] \subseteq Stations[5]
          /\ Ahead(page.early, M, Stations'[5])
      BY <1>2, <1>3, <2>1, StationsAre
    <2> HIDE DEF M
    <2>3. /\ \A k \in 1 .. 6 : k # 5 - 1 => Stations'[k] \subseteq Stations[k]
          /\ Stations'[5-1] \subseteq Stations[5-1] \cup M
      BY <2>1, <2>2
    <2>4. audio'.captured >= audio.captured /\ (page.early => page'.early)
      BY QueueFacts, BlocksAreShort
    <2> QED
      BY <2>2, <2>3, <2>4, OrderMoves
  <1>5. \A u \in Range(page'.held.units), v \in Range(capture'.held.units) : u # v
    <2>1. \A u \in Stations[4], v \in Stations[5] : u # v
      BY StationsApart
    <2>2. /\ Range(page.held.units) \subseteq Stations[4]
          /\ Range(capture.held.units) \subseteq Stations[4] /\ Range(chunk) \subseteq Stations[5]
      BY <1>3, StationsAre
    <2> QED
      BY <2>1, <2>2
  <1>6. Sorted'
    BY <1>2, <1>5 DEF Sorted
  <1> QED
    BY <1>4, <1>6

\* From the block queue to the worker's hand.
LEMMA OrderGets ==
    ASSUME Types, Types', InOrder, Sorted, UNCHANGED <<sender, page, up, audio>>,
           capture'.held = capture.held, capture.queue # <<>>,
           capture'.queue = Tail(capture.queue), Hand' = Hand \o Head(capture.queue)
    PROVE  InOrder' /\ Sorted'
  <1> DEFINE line == capture.queue
  <1>1. line \in Seq(AudioUnits) /\ line # <<>> /\ Head(line) \in Seq(1 .. MaxUnits)
    BY QueueFacts, HeadTailProperties DEF AudioUnits
  <1>2. InLine(page.early, line) /\ All(line) = Stations[6]
    BY StationsAre DEF Sorted
  <1>3. Hand \in Seq(1 .. MaxUnits)
    BY HandTypes DEF AudioUnits
  <1>4. /\ capture'.queue = Tail(line) /\ Hand' = Hand \o Head(line)
        /\ UnitsOf(sender'.queue) = UnitsOf(sender.queue) /\ OnWire' = OnWire
    BY DEF OnWire
  <1> HIDE DEF line
  <1>5. /\ All(line) = Range(Head(line)) \cup All(Tail(line))
        /\ InLine(page.early, Tail(line)) /\ Rising(page.early, Head(line))
        /\ Ahead(page.early, Range(Head(line)), All(Tail(line)))
    BY <1>1, <1>2, LineMovesOn
  <1>6. Range(Hand \o Head(line)) = Range(Hand) \cup Range(Head(line))
    BY <1>1, <1>3, RangeConcatenation
  <1>7. Rising(page.early, Hand \o Head(line))
    <2>1. Ahead(page.early, Stations[5], Stations[6])
      BY StationsApart
    <2>2. Ahead(page.early, Range(Hand), Range(Head(line))) /\ Rising(page.early, Hand)
      BY <1>2, <1>5, <2>1, StationsAre DEF Ahead, Sorted
    <2> QED
      BY <1>1, <1>3, <1>5, <2>2, RisingConcat
  <1>8. InOrder'
    <2> DEFINE M == Range(Head(line))
    <2>1. /\ Stations'[1] = Stations[1] /\ Stations'[2] = Stations[2]
          /\ Stations'[3] = Stations[3] /\ Stations'[4] = Stations[4]
          /\ Stations'[5] = Stations[5] \cup M /\ Stations'[6] = All(Tail(line))
      BY <1>4, <1>6, StationsAre, StationsNext
    <2>2. /\ M \subseteq Stations[6] /\ Stations'[6] \subseteq Stations[6]
          /\ Ahead(page.early, M, Stations'[6])
      BY <1>2, <1>5, <2>1
    <2> HIDE DEF M
    <2>3. /\ \A k \in 1 .. 6 : k # 6 - 1 => Stations'[k] \subseteq Stations[k]
          /\ Stations'[6-1] \subseteq Stations[6-1] \cup M
      BY <2>1, <2>2
    <2>4. audio'.captured >= audio.captured /\ (page.early => page'.early)
      BY QueueFacts, BlocksAreShort
    <2> QED
      BY <2>2, <2>3, <2>4, OrderMoves
  <1>9. Sorted'
    BY <1>4, <1>5, <1>7 DEF Sorted
  <1> QED
    BY <1>8, <1>9

\* From the device to the block queue.
LEMMA OrderEnters ==
    ASSUME Types, Types', InOrder, Sorted, UNCHANGED <<sender, page, up>>,
           NEW n \in BlockSizes, audio.captured + n <= MaxUnits,
           audio'.captured = audio.captured + n, audio'.admitted = audio.admitted,
           capture'.held = capture.held, Hand' = Hand,
           capture'.queue = Append(capture.queue, Units(audio.captured + 1, n))
    PROVE  InOrder' /\ Sorted'
  <1> DEFINE block == Units(audio.captured + 1, n)
  <1>1. /\ n \in Nat /\ audio.captured \in Nat /\ block \in AudioUnits /\ Len(block) = n
        /\ \A i \in 1 .. n : block[i] = audio.captured + i
    BY BlockTypes
  <1>2. capture'.queue = Append(capture.queue, block)
    OBVIOUS
  <1> HIDE DEF block
  <1>3. DOMAIN block = 1 .. n
    BY <1>1, SeqFacts DEF AudioUnits
  <1>4. Rising(page.early, block)
    BY <1>1, <1>3 DEF Rising, Precedes
  <1>5. Range(block) \subseteq (audio.captured + 1) .. audio'.captured
    BY <1>1, <1>3 DEF Range
  <1>6. \A k \in 1 .. 6 : Stations[k] \subseteq 1 .. audio.captured
    BY DEF InOrder
  <1>7. \A k \in 1 .. 6 : Ahead(page.early, Stations[k], Range(block))
    BY <1>1, <1>5, <1>6 DEF Ahead, Precedes
  <1>8. /\ All(capture'.queue) = All(capture.queue) \cup Range(block)
        /\ InLine(page.early, capture'.queue)
    <2>1. Ahead(page.early, All(capture.queue), Range(block))
      BY <1>7, StationsAre
    <2>2. InLine(page.early, capture.queue) /\ capture.queue \in Seq(AudioUnits)
      BY QueueFacts DEF Sorted
    <2> QED
      BY <1>1, <1>2, <1>4, <2>1, <2>2, LineAppends
  <1>9. /\ Stations'[1] = Stations[1] /\ Stations'[2] = Stations[2]
        /\ Stations'[3] = Stations[3] /\ Stations'[4] = Stations[4]
        /\ Stations'[5] = Stations[5] /\ Stations'[6] = Stations[6] \cup Range(block)
    BY <1>8, StationsAre, StationsNext DEF OnWire
  <1>10. InOrder'
    <2>1. \A k \in 1 .. 5 : Stations'[k] = Stations[k]
      BY <1>9
    <2>2. \A k \in 1 .. 5, l \in 1 .. 5 : k < l => Ahead(page.early, Stations'[k], Stations'[l])
      BY <2>1, StationsApart
    <2>3. ASSUME NEW k \in 1 .. 5
          PROVE  Ahead(page.early, Stations'[k], Stations'[6])
      <3>1. /\ Ahead(page.early, Stations[k], Stations[6])
            /\ Ahead(page.early, Stations[k], Range(block))
        BY <1>7, StationsApart
      <3> QED
        BY <1>9, <2>1, <3>1 DEF Ahead
    <2>4. Ordered(page.early, Stations')
      <3>1. \A k, l \in 1 .. 6 : k < l => k \in 1 .. 5 /\ (l \in 1 .. 5 \/ l = 6)
        OBVIOUS
      <3> QED
        BY <2>2, <2>3, <3>1 DEF Ordered
    <2>5. \A k \in 1 .. 6 : Stations'[k] \subseteq 1 .. audio'.captured
      <3>1. \A k \in 1 .. 6 : Stations[k] \subseteq 1 .. audio'.captured
        BY <1>1, <1>6
      <3>2. Range(block) \subseteq 1 .. audio'.captured
        BY <1>1, <1>5
      <3>3. \A k \in 1 .. 6 : k \in 1 .. 5 \/ k = 6
        OBVIOUS
      <3> QED
        BY <1>9, <2>1, <3>1, <3>2, <3>3
    <2> QED
      BY <2>4, <2>5 DEF InOrder
  <1>11. Sorted'
    BY <1>8 DEF Sorted, OnWire
  <1> QED
    BY <1>10, <1>11

-----------------------------------------------------------------------------
(* Every step keeps the order *)

LEMMA OrderSender ==
    ASSUME Types, Types', Turns, InOrder, Sorted,
           Stopping \/ Connects \/ SenderSends \/ AckRead \/ DeviceResumes
    PROVE  InOrder' /\ Sorted'
  <1>1. sender \in SenderState /\ capture \in CaptureState /\ page \in PageState
        /\ audio \in AudioState
    BY StateTypes
  <1>2. audio.captured >= audio.captured
    BY QueueFacts, BlocksAreShort
  <1>3. CASE Stopping
    <2>1. sender'.queue = sender.queue /\ UNCHANGED <<capture, page, up, audio>>
      BY <1>3 DEF Stopping
    <2> QED
      BY <1>2, <2>1, OrderKept DEF OnWire, Hand
  <1>4. CASE Connects
    <2>1. /\ sender'.queue = sender.queue /\ up' = <<StartRecord>>
          /\ UNCHANGED <<capture, page, audio>>
      BY <1>1, <1>4 DEF Connects, SenderState
    <2>2. OnWire' = <<>>
      BY <2>1, NoRecordFacts DEF OnWire
    <2> QED
      BY <1>2, <2>1, <2>2, OrderKept DEF Hand
  <1>5. CASE SenderSends
    <2>1. /\ sender.pc = "idle" /\ sender.queue # <<>> /\ sender'.queue = Tail(sender.queue)
          /\ up' = up \/ up' = Append(up, Head(sender.queue))
          /\ UNCHANGED <<capture, page, audio>>
      BY <1>1, <1>5 DEF SenderSends, Send, SenderState
    <2>2. up = <<>>
      BY <2>1 DEF Turns, Answered
    <2>3. OnWire = <<>> /\ (OnWire' = Head(sender.queue).units \/ OnWire' = <<>>)
      <3>1. CASE up' = up
        BY <2>2, <3>1 DEF OnWire
      <3>2. ASSUME NEW record, up' = Append(up, record)
            PROVE  OnWire' = record.units
        <4>1. up' = <<record>>
          BY <2>2, <3>2
        <4> QED
          BY <4>1 DEF OnWire
      <3> QED
        BY <2>1, <2>2, <3>1, <3>2 DEF OnWire
    <2> QED
      BY <2>1, <2>3, OrderSends
  <1>6. CASE AckRead
    <2>1. /\ sender'.queue = sender.queue /\ UNCHANGED <<capture, page, up>>
          /\ audio'.captured = audio.captured /\ audio'.admitted = audio.admitted
      BY <1>1, <1>6, AfterAckFacts DEF AckRead, AudioState
    <2> QED
      BY <1>2, <2>1, OrderKept DEF OnWire, Hand
  <1>7. CASE DeviceResumes
    <2>1. /\ sender'.queue = sender.queue /\ UNCHANGED <<up, audio>>
          /\ capture'.queue = capture.queue /\ capture'.buffer = capture.buffer
          /\ capture'.rest = capture.rest /\ capture'.held = capture.held
          /\ page'.held = page.held /\ page'.early = (page.early \/ page.pc # "idle")
      BY <1>1, <1>7 DEF DeviceResumes, SenderState, CaptureState, PageState
    <2> QED
      BY <1>2, <2>1, OrderKept DEF OnWire, Hand
  <1> QED
    BY <1>3, <1>4, <1>5, <1>6, <1>7

LEMMA OrderReceiver ==
    ASSUME Types, Types', Turns, InOrder, Sorted,
           \/ Cut \/ Starts \/ Admits \/ Pauses \/ Settles \/ Resumes \/ Ends
           \/ ReceiverLeaves
    PROVE  InOrder' /\ Sorted'
  <1>1. audio.captured >= audio.captured
    BY QueueFacts, BlocksAreShort
  <1>2. CASE Admits
    <2>1. /\ Takes("AUDIO") /\ audio' = [audio EXCEPT !.admitted = @ \o Head(up).units]
      BY <1>2 DEF Admits
    <2>2. up # <<>> /\ up' = <<>> /\ UNCHANGED client /\ Head(up).units \in AudioUnits
      BY <2>1, TakesFacts, OneAtATime, FieldsOfRecords
    <2>3. OnWire = Head(up).units /\ OnWire' = <<>>
      BY <2>2 DEF OnWire
    <2>4. /\ audio'.captured = audio.captured
          /\ audio'.admitted = audio.admitted \o Head(up).units
      BY <2>1, StateTypes DEF AudioState
    <2> QED
      BY <2>2, <2>3, <2>4, OrderAdmits
  <1>3. CASE Cut \/ Starts \/ Pauses \/ Settles \/ Resumes \/ Ends \/ ReceiverLeaves
    <2>1. /\ UNCHANGED client /\ UNCHANGED audio
          /\ up' = up \/ (up # <<>> /\ up' = Tail(up))
      BY <1>3 DEF Cut, Starts, Pauses, Settles, Resumes, Ends, ReceiverLeaves,
         Takes, wire
    <2>2. OnWire' = OnWire \/ OnWire' = <<>>
      BY <2>1, OneAtATime DEF OnWire
    <2> QED
      BY <1>1, <2>1, <2>2, OrderKept DEF client, Hand
  <1> QED
    BY <1>2, <1>3

LEMMA OrderOutside ==
    ASSUME Types, Types', InOrder, Sorted, OutsideNext
    PROVE  InOrder' /\ Sorted'
  <1>1. audio.captured >= audio.captured
    BY QueueFacts, BlocksAreShort
  <1>2. /\ UNCHANGED client /\ UNCHANGED audio
        /\ up' = up \/ up' = <<>>
    BY OutsideTypes
  <1> QED
    BY <1>1, <1>2, OrderKept DEF client, Hand, OnWire

LEMMA OrderPage ==
    ASSUME Types, Types', Holding, Apart, InOrder, Sorted, PageNext
    PROVE  InOrder' /\ Sorted'
  <1>1. sender \in SenderState /\ capture \in CaptureState /\ page \in PageState
    BY StateTypes
  <1>2. audio.captured >= audio.captured
    BY QueueFacts, BlocksAreShort
  <1>3. UNCHANGED <<up, audio>> /\ OnWire' = OnWire
    BY DEF PageNext, OpenMicrophone, PressPause, PressEnd, PressResume, StopStream,
         Drained, DrainTimesOut, Flush, NumberRest, QueueRest, NumberControl, QueueControl,
         CloseCapture, wire, OnWire
  <1>4. CASE \/ OpenMicrophone \/ PressPause \/ PressEnd \/ PressResume \/ StopStream
             \/ Drained \/ DrainTimesOut \/ CloseCapture
    <2>1. /\ capture'.queue = capture.queue /\ capture'.buffer = capture.buffer
          /\ capture'.rest = capture.rest /\ capture'.held = capture.held
          /\ page'.held = page.held /\ (page.early => page'.early)
      BY ZenonT(60), <1>1, <1>4 DEF OpenMicrophone, PressPause, PressEnd, PressResume, Press,
         StopStream,
         Drained, DrainTimesOut, CloseCapture, CaptureState, PageState
    <2>2. sender'.queue = sender.queue
      <3>1. page.pc \notin {"queueing", "controlQueueing"}
        BY <1>4 DEF OpenMicrophone, PressPause, PressEnd, PressResume, Press,
           StopStream,
           Drained, DrainTimesOut, CloseCapture
      <3> QED
        BY <3>1, QueueOnly
    <2> QED
      BY <1>2, <1>3, <2>1, <2>2, OrderKept DEF Hand
  <1>5. CASE Flush
    <2>1. /\ page.pc = "flushing" /\ UNCHANGED sender /\ page'.early = page.early
          /\ capture'.queue = capture.queue /\ capture'.buffer = <<>>
          /\ capture'.rest = capture.rest /\ capture'.held = capture.held
          /\ IF capture.buffer = <<>> THEN page'.held = page.held
             ELSE page'.held = Record("AUDIO", 0, 0, capture.buffer)
      BY <1>1, <1>5 DEF Flush, CaptureState, PageState
    <2>2. capture.rest \in Seq(1 .. MaxUnits) /\ capture.buffer \in AudioUnits
      BY QueueFacts DEF AudioUnits
    <2>3. Hand' = capture.rest
      BY <2>1, <2>2, ConcatEmptySeq DEF Hand
    <2>4. CASE capture.buffer = <<>>
      <3>1. Hand = capture.rest
        BY <2>2, <2>4, ConcatEmptySeq DEF Hand
      <3> QED
        BY <1>2, <1>3, <2>1, <2>3, <2>4, <3>1, OrderKept
    <2>5. CASE capture.buffer # <<>>
      <3>1. page.held.units = <<>>
        BY <2>1, NoRecordFacts DEF Holding, PageHolds
      <3>2. page'.held.units = capture.buffer
        BY <2>1, <2>5 DEF Record
      <3>3. Hand = capture.buffer \o Hand'
        BY <2>3 DEF Hand
      <3>4. capture'.held.units = capture.held.units
        BY <2>1
      <3> QED
        BY <1>3, <2>1, <2>2, <3>1, <3>2, <3>3, <3>4, OrderTakes
    <2> QED
      BY <2>4, <2>5
  <1>6. CASE NumberRest \/ NumberControl
    <2>1. /\ UNCHANGED capture /\ page'.early = page.early
          /\ page.pc \in {"numbering", "control"}
      BY <1>1, <1>6 DEF NumberRest, NumberControl, PageState
    <2>2. sender'.queue = sender.queue
      BY <2>1, QueueOnly
    <2>3. page'.held.units = page.held.units \/ page'.held.units = <<>>
      <3>1. CASE NumberRest
        <4>1. \/ page'.held = Record("AUDIO", sender.next, sender.generation, page.held.units)
              \/ page'.held = NoRecord
          BY <1>1, <3>1 DEF NumberRest, Numbered, PageState
        <4> QED
          BY <4>1, RecordFacts, NoRecordFacts
      <3>2. CASE NumberControl
        <4>1. \/ page'.held = Record(page.button, sender.next,
                    sender.generation + IF page.button = "RESUME" THEN 1 ELSE 0, <<>>)
              \/ page'.held = page.held
          BY <1>1, <3>2 DEF NumberControl, Numbered, PageState
        <4> QED
          BY <4>1, RecordFacts
      <3> QED
        BY <1>6, <3>1, <3>2
    <2> QED
      BY <1>2, <1>3, <2>1, <2>2, <2>3, OrderKept DEF Hand
  <1>7. CASE QueueRest \/ QueueControl
    <2>1. /\ UNCHANGED capture /\ page'.early = page.early
          /\ page'.held = NoRecord /\ sender' = Enqueued(page.held)
          /\ page.pc \in {"queueing", "controlQueueing"} /\ page.held \in Records
      BY <1>1, <1>7, QueueFacts DEF QueueRest, QueueControl, PageState
    <2>2. \/ sender'.queue = Append(sender.queue, page.held)
          \/ sender'.queue = sender.queue
      BY <1>1, <2>1, QueueFacts, EnqueuedFacts
    <2>3. page'.held.units = <<>>
      BY <2>1, NoRecordFacts
    <2>4. CASE page.held.units = <<>> \/ sender'.queue = sender.queue
      <3>1. \/ sender'.queue = sender.queue
            \/ \E record \in Records : /\ sender'.queue = Append(sender.queue, record)
                                       /\ record.units = <<>>
        BY <2>1, <2>2, <2>4
      <3> QED
        BY <1>2, <1>3, <2>1, <2>3, <3>1, OrderKept DEF Hand
    <2>5. CASE page.held.units # <<>> /\ sender'.queue # sender.queue
      <3>1. page.pc = "queueing"
        <4>1. page.button # "AUDIO"
          BY <1>1 DEF PageState, Buttons
        <4>2. page.pc = "controlQueueing" => page.held.units = <<>>
          BY <4>1 DEF Holding, PageHolds, IsNumbered
        <4> QED
          BY <2>1, <2>5, <4>2
      <3>2. Ahead(page.early, Range(page.held.units), Range(capture.held.units))
        <4>1. CASE page.early
          BY <4>1 DEF Sorted, Ahead, Precedes
        <4>2. CASE ~page.early
          <5>1. capture.held.units = <<>>
            BY <3>1, <4>2, NoRecordFacts DEF Apart, Leftover, Holding, CaptureHolds
          <5> QED
            BY <5>1, RangeOfEmpty DEF Ahead
        <4> QED
          BY <4>1, <4>2
      <3>3. capture.held.units \in AudioUnits /\ capture'.held.units = capture.held.units
        BY <2>1, QueueFacts, FieldsOfRecords
      <3>4. Hand' = Hand /\ capture'.queue = capture.queue
        BY <2>1 DEF Hand
      <3> QED
        BY <1>3, <2>1, <2>2, <2>3, <2>5, <3>2, <3>3, <3>4, OrderQueues
    <2> QED
      BY <2>4, <2>5
  <1> QED
    BY <1>4, <1>5, <1>6, <1>7 DEF PageNext

\* Only the worker's queueing step puts a record into the sender's queue.
LEMMA IdlingQueuesNothing ==
    ASSUME Types,
           \/ OpenDevice \/ StartDevice \/ BeginAdmitting \/ CallbackEnters
           \/ CallbackGivesUp \/ WorkerChecks \/ WorkerSettles \/ WorkerSetsDrained
    PROVE  /\ sender'.queue = sender.queue /\ sender'.next = sender.next
           /\ UNCHANGED <<page, up, audio>>
  <1>1. sender \in SenderState /\ link \in [client : BOOLEAN, server : BOOLEAN]
    BY StateTypes
  <1>2. /\ "MICROPHONE_UNAVAILABLE" \in Reasons /\ "MICROPHONE_OPEN_FAILED" \in Reasons
        /\ "BUFFER_LIMIT" \in Reasons
    BY DEF Reasons
  <1>3. ASSUME NEW reason \in Reasons, FailAndClose(reason)
        PROVE  sender'.queue = sender.queue /\ sender'.next = sender.next
    BY <1>1, <1>3, FailAndCloseFacts DEF MayFail
  <1>4. CASE OpenDevice \/ StartDevice \/ WorkerChecks
    BY <1>2, <1>3, <1>4 DEF OpenDevice, StartDevice, WorkerChecks
  <1>5. CASE \/ BeginAdmitting \/ CallbackEnters \/ CallbackGivesUp \/ WorkerSettles
             \/ WorkerSetsDrained
    BY <1>5 DEF BeginAdmitting, CallbackEnters, CallbackGivesUp, WorkerSettles,
       WorkerSetsDrained, wire
  <1> QED
    BY <1>4, <1>5

LEMMA OrderCapture ==
    ASSUME Types, Types', Holding, Apart, InOrder, Sorted, CaptureNext
    PROVE  InOrder' /\ Sorted'
  <1>1. sender \in SenderState /\ capture \in CaptureState /\ page \in PageState
    BY StateTypes
  <1>2. audio.captured >= audio.captured
    BY QueueFacts, BlocksAreShort
  <1>3. UNCHANGED <<page, up>> /\ OnWire' = OnWire /\ audio'.admitted = audio.admitted
    <2>1. UNCHANGED <<page, up>>
      BY DEF CaptureNext, OpenDevice, StartDevice, BeginAdmitting,
       CallbackEnters, CallbackQueues, CallbackGivesUp, WorkerChecks, WorkerGets, WorkerFills,
       WorkerNumbers, WorkerQueues, WorkerSettles, WorkerSetsDrained, wire
    <2>2. audio'.admitted = audio.admitted
      BY StateTypes DEF AudioState, CaptureNext, OpenDevice, StartDevice,
         BeginAdmitting,
       CallbackEnters, CallbackQueues, CallbackGivesUp, WorkerChecks, WorkerGets, WorkerFills,
       WorkerNumbers, WorkerQueues, WorkerSettles, WorkerSetsDrained
    <2> QED
      BY <2>1, <2>2 DEF OnWire
  <1>4. CASE \/ OpenDevice \/ StartDevice \/ BeginAdmitting \/ CallbackEnters
             \/ CallbackGivesUp \/ WorkerChecks \/ WorkerSettles \/ WorkerSetsDrained
    <2>1. /\ capture'.buffer = capture.buffer /\ capture'.rest = capture.rest
          /\ capture'.queue = capture.queue /\ capture'.held = capture.held
          /\ sender'.queue = sender.queue /\ UNCHANGED audio
      BY <1>3, <1>4, WorkerIdles, IdlingQueuesNothing
    <2> QED
      BY <1>2, <1>3, <2>1, OrderKept DEF Hand
  <1>5. ASSUME NEW n \in BlockSizes, CallbackQueues(n)
        PROVE  InOrder' /\ Sorted'
    <2>1. /\ audio.captured + n <= MaxUnits /\ audio' = [audio EXCEPT !.captured = @ + n]
          /\ UNCHANGED sender
      BY <1>5 DEF CallbackQueues
    <2>2. audio'.captured = audio.captured + n
      BY <2>1, StateTypes DEF AudioState
    <2>3. audio'.captured >= audio.captured
      <3>1. n \in Nat /\ audio.captured \in Nat
        BY <2>1, BlockTypes
      <3> QED
        BY <2>2, <3>1
    <2>4. CASE Len(capture.queue) < CaptureDepth
      <3>1. capture' = [capture EXCEPT !.callback = "out",
                               !.queue = Append(@, Units(audio.captured + 1, n))]
        BY <1>5, <2>4 DEF CallbackQueues
      <3>2. /\ capture'.buffer = capture.buffer /\ capture'.rest = capture.rest
            /\ capture'.queue = Append(capture.queue, Units(audio.captured + 1, n))
            /\ capture'.held = capture.held
        BY <1>1, <3>1 DEF CaptureState
      <3>3. Hand' = Hand
        BY <3>2 DEF Hand
      <3> QED
        BY <1>3, <2>1, <2>2, <3>2, <3>3, OrderEnters
    <2>5. CASE ~(Len(capture.queue) < CaptureDepth)
      <3>1. /\ capture'.buffer = capture.buffer /\ capture'.rest = capture.rest
            /\ capture'.queue = capture.queue /\ capture'.held = capture.held
        BY <1>1, <1>5, <2>5 DEF CallbackQueues, CaptureState
      <3> QED
        BY <1>3, <2>1, <2>3, <3>1, OrderKept DEF Hand
    <2> QED
      BY <2>4, <2>5
  <1>6. CASE WorkerGets
    <2>1. /\ capture.pc = "getting" /\ UNCHANGED <<sender, page, up, audio>>
          /\ \/ capture' = [capture EXCEPT !.pc = "checking"]
             \/ /\ capture.queue # <<>>
                /\ capture' = [capture EXCEPT !.pc = "filling", !.rest = Head(capture.queue),
                                              !.queue = Tail(@)]
      BY <1>6 DEF WorkerGets, wire
    <2>2. CASE capture' = [capture EXCEPT !.pc = "checking"]
      <3>1. /\ capture'.buffer = capture.buffer /\ capture'.rest = capture.rest
            /\ capture'.queue = capture.queue /\ capture'.held = capture.held
        BY <1>1, <2>2 DEF CaptureState
      <3> QED
        BY <1>2, <1>3, <2>1, <3>1, OrderKept DEF Hand
    <2>3. CASE /\ capture.queue # <<>>
               /\ capture' = [capture EXCEPT !.pc = "filling", !.rest = Head(capture.queue),
                                             !.queue = Tail(@)]
      <3>1. /\ capture'.buffer = capture.buffer /\ capture'.rest = Head(capture.queue)
            /\ capture'.queue = Tail(capture.queue) /\ capture'.held = capture.held
        BY <1>1, <2>3 DEF CaptureState
      <3>2. capture.rest = <<>> /\ capture.buffer \in Seq(1 .. MaxUnits)
        BY <2>1, QueueFacts DEF Apart, Pieces, AudioUnits
      <3>3. Hand = capture.buffer
        BY <3>2, ConcatEmptySeq DEF Hand
      <3>4. Hand' = Hand \o Head(capture.queue)
        BY <3>1, <3>3 DEF Hand
      <3> QED
        BY <2>1, <2>3, <3>1, <3>4, OrderGets
    <2> QED
      BY <2>1, <2>2, <2>3
  <1>7. CASE WorkerFills
    <2>1. UNCHANGED <<sender, audio>> /\ capture.pc = "filling"
      BY <1>7 DEF WorkerFills
    <2>2. CASE Len(Hand) < ChunkUnits
      <3>1. /\ capture'.buffer = Hand /\ capture'.rest = <<>>
            /\ capture'.queue = capture.queue /\ capture'.held = capture.held
        BY <1>1, <1>7, <2>2 DEF WorkerFills, Hand, CaptureState
      <3>2. Hand \in Seq(1 .. MaxUnits)
        BY HandTypes DEF AudioUnits
      <3>3. Hand' = Hand \o <<>>
        BY <3>1 DEF Hand
      <3>4. Hand' = Hand
        <4> HIDE DEF Hand
        <4> QED
          BY <3>2, <3>3, ConcatEmptySeq
      <3> QED
        BY <1>2, <1>3, <2>1, <3>1, <3>4, OrderKept
    <2>3. CASE ~(Len(Hand) < ChunkUnits)
      <3>1. /\ capture'.buffer = <<>>
            /\ capture'.rest = SubSeq(Hand, ChunkUnits + 1, Len(Hand))
            /\ capture'.queue = capture.queue
            /\ capture'.held = Record("AUDIO", 0, 0, SubSeq(Hand, 1, ChunkUnits))
        BY <1>1, <1>7, <2>3 DEF WorkerFills, Hand, CaptureState
      <3>2. Len(Hand) >= ChunkUnits
        <4>1. Len(Hand) \in Nat /\ ChunkUnits \in Nat
          BY HandTypes, BlocksAreShort
        <4> QED
          BY <2>3, <4>1
      <3>3. /\ SubSeq(Hand, 1, ChunkUnits) \in AudioUnits
            /\ SubSeq(Hand, ChunkUnits + 1, Len(Hand)) \in AudioUnits
            /\ SubSeq(Hand, 1, ChunkUnits) \o SubSeq(Hand, ChunkUnits + 1, Len(Hand)) = Hand
        BY <3>2, HandTypes
      <3>4. Hand' = SubSeq(Hand, ChunkUnits + 1, Len(Hand))
        <4>1. ASSUME NEW rest \in Seq(1 .. MaxUnits), capture'.buffer = <<>>, capture'.rest = rest
              PROVE  Hand' = rest
          BY <4>1, ConcatEmptySeq DEF Hand
        <4> QED
          BY <3>1, <3>3, <4>1 DEF AudioUnits
      <3>5. /\ capture'.held.units = SubSeq(Hand, 1, ChunkUnits)
            /\ capture.held.units = <<>>
        <4>1. capture.held.units = <<>>
          BY <2>1, NoRecordFacts DEF Holding, CaptureHolds
        <4>2. Record("AUDIO", 0, 0, SubSeq(Hand, 1, ChunkUnits)).units
                 = SubSeq(Hand, 1, ChunkUnits)
          BY DEF Record
        <4> QED
          BY <3>1, <4>1, <4>2
      <3>6. page'.held.units = page.held.units /\ page'.early = page.early
        BY <1>3
      <3>7. Hand = SubSeq(Hand, 1, ChunkUnits) \o Hand'
        BY <3>3, <3>4
      <3> QED
        BY <1>3, <2>1, <3>1, <3>3, <3>5, <3>6, <3>7, OrderTakes
    <2> QED
      BY <2>2, <2>3
  \* What the worker puts down leaves it nothing in hand, or what it had.
  <1>8. ASSUME capture.pc \in {"numbering", "queueing"}, capture'.buffer = capture.buffer,
               capture'.rest = capture.rest \/ capture'.rest = <<>>
        PROVE  Hand' = Hand \/ Hand' = <<>>
    <2>1. capture.buffer = <<>> /\ capture'.buffer = <<>>
      BY <1>8 DEF Apart, Pieces
    <2>2. <<>> \o <<>> = <<>>
      BY ConcatEmptySeq
    <2>3. capture'.rest = capture.rest => Hand' = Hand
      BY <1>8 DEF Hand
    <2>4. capture'.rest = <<>> => Hand' = <<>> \o <<>>
      BY <2>1 DEF Hand
    <2> QED
      BY <1>8, <2>2, <2>3, <2>4
  <1>9. CASE WorkerNumbers
    <2>1. /\ capture.pc = "numbering" /\ UNCHANGED audio /\ capture'.buffer = capture.buffer
          /\ capture'.queue = capture.queue
          /\ capture'.rest = capture.rest \/ capture'.rest = <<>>
          /\ \/ capture'.held = Record("AUDIO", sender.next, sender.generation,
                                       capture.held.units)
             \/ capture'.held = NoRecord
      BY <1>1, <1>9 DEF WorkerNumbers, Numbered, CaptureState
    <2>2. sender'.queue = sender.queue
      BY <1>9, <2>1, QueueOnly DEF CaptureNext
    <2>3. capture'.held.units = capture.held.units \/ capture'.held.units = <<>>
      BY <2>1, RecordFacts, NoRecordFacts
    <2>4. Hand' = Hand \/ Hand' = <<>>
      BY <1>8, <2>1
    <2> QED
      BY <1>2, <1>3, <2>1, <2>2, <2>3, <2>4, OrderKept
  <1>10. CASE WorkerQueues
    <2>1. /\ capture.pc = "queueing" /\ UNCHANGED audio /\ capture'.buffer = capture.buffer
          /\ capture'.queue = capture.queue
          /\ capture'.rest = capture.rest \/ capture'.rest = <<>>
          /\ capture'.held = NoRecord /\ sender' = Enqueued(capture.held)
      BY <1>1, <1>10 DEF WorkerQueues, CaptureState
    <2>2. /\ sender'.queue = Append(sender.queue, capture.held) \/ sender'.queue = sender.queue
          /\ capture.held \in Records
      BY <1>1, <2>1, QueueFacts, EnqueuedFacts
    <2>3. capture'.held.units = <<>>
      BY <2>1, NoRecordFacts
    <2>4. Hand' = Hand \/ Hand' = <<>>
      BY <1>8, <2>1
    <2>5. CASE sender'.queue = sender.queue
      BY <1>2, <1>3, <2>1, <2>3, <2>4, <2>5, OrderKept
    <2>6. CASE sender'.queue = Append(sender.queue, capture.held)
      <3>1. Ahead(page.early, Range(capture.held.units), Range(page.held.units))
        <4>1. CASE page.early
          BY <4>1 DEF Sorted, Ahead, Precedes
        <4>2. CASE ~page.early
          <5>1. page.pc \notin {"numbering", "queueing"}
            BY <2>1, <4>2 DEF Apart, Leftover
          <5>2. page.button # "AUDIO"
            BY <1>1 DEF PageState, Buttons
          <5>3. page.held.units = <<>>
            BY <5>1, <5>2, NoRecordFacts DEF Holding, PageHolds, IsNumbered
          <5> QED
            BY <5>3, RangeOfEmpty DEF Ahead
        <4> QED
          BY <4>1, <4>2
      <3>2. page.held.units \in AudioUnits /\ page'.held.units = page.held.units
        BY <1>3, QueueFacts, FieldsOfRecords
      <3> QED
        BY <1>3, <2>1, <2>2, <2>3, <2>4, <2>6, <3>1, <3>2, OrderQueues
    <2> QED
      BY <2>2, <2>5, <2>6
  <1> QED
    BY <1>4, <1>5, <1>6, <1>7, <1>9, <1>10 DEF CaptureNext

-----------------------------------------------------------------------------
(* Every number is paid for *)

LEMMA BudgetTypes ==
    ASSUME Types
    PROVE  /\ sender.next \in Nat /\ audio.captured \in Nat /\ page.presses \in Nat
           /\ Owing \in {0, 1}
  BY SMTT(40), QueueFacts, BlocksAreShort DEF Owing

LEMMA OwingNext == Owing' \in {0, 1}
  BY DEF Owing

\* A step that gives out no number.
LEMMA BudgetKept ==
    ASSUME Types, Types', InOrder, Budget, Unnumbered' \subseteq Unnumbered,
           sender'.next = sender.next, audio'.captured >= audio.captured,
           \/ page'.presses = page.presses /\ Owing' <= Owing
           \/ page'.presses = page.presses + 1
    PROVE  Budget'
  <1>1. /\ Cardinality(Unnumbered) \in Nat /\ Cardinality(Unnumbered') \in Nat
        /\ Cardinality(Unnumbered') <= Cardinality(Unnumbered)
    BY UnnumberedFacts
  <1>2. audio'.captured \in Nat /\ page'.presses \in Nat
    BY BlocksAreShort DEF Types, ClientTypes, AudioState, PageState
  <1>3. sender.next + Cardinality(Unnumbered) + Owing <= audio.captured + page.presses + 1
    BY DEF Budget
  <1>4. CASE page'.presses = page.presses /\ Owing' <= Owing
    <2>1. sender.next + Cardinality(Unnumbered') + Owing' <= audio'.captured + page.presses + 1
      BY <1>1, <1>2, <1>3, <1>4, BudgetTypes, OwingNext
    <2> QED
      BY <1>4, <2>1 DEF Budget
  <1>5. CASE page'.presses = page.presses + 1
    <2>1. sender.next + Cardinality(Unnumbered') + Owing'
             <= audio'.captured + (page.presses + 1) + 1
      BY <1>1, <1>2, <1>3, BudgetTypes, OwingNext
    <2> QED
      BY <1>5, <2>1 DEF Budget
  <1> QED
    BY <1>4, <1>5

\* A number is given out: a unit has one, or the button has.
LEMMA BudgetNumbers ==
    ASSUME Types, InOrder, Budget, Unnumbered' \subseteq Unnumbered,
           sender'.next = sender.next + 1, audio'.captured = audio.captured,
           page'.presses = page.presses,
           \/ Unnumbered' # Unnumbered /\ Owing' <= Owing
           \/ Owing = 1 /\ Owing' = 0
    PROVE  Budget'
  <1>1. /\ Cardinality(Unnumbered) \in Nat /\ Cardinality(Unnumbered') \in Nat
        /\ Cardinality(Unnumbered') <= Cardinality(Unnumbered)
        /\ Unnumbered' # Unnumbered
              => Cardinality(Unnumbered') + 1 <= Cardinality(Unnumbered)
    BY UnnumberedFacts
  <1>2. sender.next + Cardinality(Unnumbered) + Owing <= audio.captured + page.presses + 1
    BY DEF Budget
  <1>3. (sender.next + 1) + Cardinality(Unnumbered') + Owing'
           <= audio.captured + page.presses + 1
    BY <1>1, <1>2, BudgetTypes, OwingNext
  <1> QED
    BY <1>3 DEF Budget

LEMMA BudgetEnters ==
    ASSUME Types, InOrder, Budget, NEW n \in BlockSizes, audio.captured + n <= MaxUnits,
           Unnumbered' \subseteq Unnumbered \cup Range(Units(audio.captured + 1, n)),
           sender'.next = sender.next, audio'.captured = audio.captured + n,
           page'.presses = page.presses, Owing' = Owing
    PROVE  Budget'
  <1> DEFINE block == Units(audio.captured + 1, n)
  <1>1. /\ n \in Nat /\ audio.captured \in Nat /\ block \in AudioUnits /\ Len(block) = n
        /\ \A i \in 1 .. n : block[i] = audio.captured + i
    BY BlockTypes
  <1>2. Unnumbered' \subseteq Unnumbered \cup Range(block)
    OBVIOUS
  <1> HIDE DEF block
  <1>3. Range(block) \subseteq (audio.captured + 1) .. (audio.captured + n)
    BY <1>1, SeqFacts DEF Range, AudioUnits
  <1> DEFINE new == (audio.captured + 1) .. (audio.captured + n)
  <1>4. IsFiniteSet(new) /\ Cardinality(new) = n
    <2>1. ASSUME NEW a \in Int, NEW b \in Int, b - a + 1 \in Nat
          PROVE  IsFiniteSet(a .. b) /\ Cardinality(a .. b) = b - a + 1
      <3>1. a > b => b - a + 1 = 0
        BY <2>1
      <3> QED
        BY <3>1, FS_Interval
    <2>2. /\ audio.captured + 1 \in Int /\ audio.captured + n \in Int
          /\ (audio.captured + n) - (audio.captured + 1) + 1 = n
      BY <1>1
    <2> QED
      BY <1>1, <2>1, <2>2
  <1> HIDE DEF new
  <1>5. IsFiniteSet(Unnumbered) /\ Cardinality(Unnumbered) \in Nat
    BY UnnumberedFacts
  <1>6. /\ IsFiniteSet(Unnumbered \cup new)
        /\ Cardinality(Unnumbered \cup new) <= Cardinality(Unnumbered) + n
        /\ Cardinality(Unnumbered \cup new) \in Nat
    <2>1. /\ IsFiniteSet(Unnumbered \cup new) /\ IsFiniteSet(Unnumbered \cap new)
          /\ Cardinality(Unnumbered \cup new)
                = Cardinality(Unnumbered) + n - Cardinality(Unnumbered \cap new)
      BY <1>4, <1>5, FS_Union, FS_Intersection
    <2>2. Cardinality(Unnumbered \cap new) \in Nat /\ Cardinality(Unnumbered \cup new) \in Nat
      BY <2>1, FS_CardinalityType
    <2> QED
      BY <1>1, <1>5, <2>1, <2>2
  <1>7. /\ Cardinality(Unnumbered') \in Nat
        /\ Cardinality(Unnumbered') <= Cardinality(Unnumbered \cup new)
    <2>1. Unnumbered' \subseteq Unnumbered \cup new
      BY <1>2, <1>3 DEF new
    <2> QED
      BY <1>6, <2>1, FS_Subset, FS_CardinalityType
  <1>8. sender.next + Cardinality(Unnumbered) + Owing <= audio.captured + page.presses + 1
    BY DEF Budget
  <1>9. sender.next + Cardinality(Unnumbered') + Owing
           <= (audio.captured + n) + page.presses + 1
    <2>1. ASSUME NEW x \in Nat, NEW u \in Nat, NEW o \in Nat, NEW c \in Nat, NEW p \in Nat,
                 NEW v \in Nat, x + u + o <= c + p + 1, v <= u + n
          PROVE  x + v + o <= (c + n) + p + 1
      BY <1>1, <2>1
    <2>2. Cardinality(Unnumbered') <= Cardinality(Unnumbered) + n
      BY <1>1, <1>5, <1>6, <1>7
    <2>3. Owing \in Nat
      BY BudgetTypes
    <2> QED
      BY <1>1, <1>5, <1>7, <1>8, <2>1, <2>2, <2>3, BudgetTypes
  <1> QED
    BY <1>9 DEF Budget

LEMMA BudgetSender ==
    ASSUME Types, Types', Turns, InOrder, Budget,
           Stopping \/ Connects \/ SenderSends \/ AckRead \/ DeviceResumes
    PROVE  Budget'
  <1>1. sender \in SenderState /\ capture \in CaptureState /\ page \in PageState
        /\ audio \in AudioState
    BY StateTypes
  <1>2. /\ capture'.pc = capture.pc /\ capture'.held = capture.held
        /\ capture'.buffer = capture.buffer /\ capture'.rest = capture.rest
        /\ capture'.queue = capture.queue
        /\ page'.pc = page.pc /\ page'.held = page.held /\ page'.presses = page.presses
        /\ audio'.captured = audio.captured
    BY <1>1 DEF Stopping, Connects, SenderSends, AckRead, DeviceResumes, CaptureState,
       PageState, AudioState
  <1>3. sender'.next = sender.next
    <2>1. CASE AckRead
      BY <2>1, AckTypes DEF AckRead
    <2>2. CASE Stopping \/ Connects \/ SenderSends \/ DeviceResumes
      BY <1>1, <2>2 DEF Stopping, MayFail, Connects, SenderSends, DeviceResumes,
         SenderState
    <2> QED
      BY <2>1, <2>2
  <1>4. Unnumbered' = Unnumbered
    BY <1>2 DEF Unnumbered, Hand
  <1>5. Owing' <= Owing
    BY <1>2 DEF Owing
  <1>6. audio'.captured >= audio.captured
    BY <1>2, BudgetTypes
  <1> QED
    BY <1>2, <1>3, <1>4, <1>5, <1>6, BudgetKept

LEMMA BudgetElsewhere ==
    ASSUME Types, Types', InOrder, Budget, UNCHANGED client,
           audio'.captured = audio.captured
    PROVE  Budget'
  <1>1. Unnumbered' = Unnumbered /\ sender'.next = sender.next /\ page'.presses = page.presses
    BY DEF Unnumbered, Hand, client
  <1>2. Owing' <= Owing
    BY DEF Owing, client
  <1>3. audio'.captured >= audio.captured
    BY BudgetTypes
  <1> QED
    BY <1>1, <1>2, <1>3, BudgetKept

LEMMA BudgetPage ==
    ASSUME Types, Types', Holding, InOrder, Sorted, Budget, PageNext
    PROVE  Budget'
  <1>1. /\ sender \in SenderState /\ capture \in CaptureState /\ page \in PageState
        /\ link \in [client : BOOLEAN, server : BOOLEAN]
    BY StateTypes
  <1>2. audio' = audio /\ audio'.captured >= audio.captured
    <2>1. audio' = audio
      BY DEF PageNext, OpenMicrophone, PressPause, PressEnd, PressResume, StopStream,
         Drained, DrainTimesOut, Flush, NumberRest, QueueRest, NumberControl, QueueControl,
         CloseCapture
    <2> QED
      BY <2>1, BudgetTypes
  <1>3. "MICROPHONE_OPEN_FAILED" \in Reasons /\ "BUFFER_LIMIT" \in Reasons
    BY DEF Reasons
  <1>4. ASSUME NEW reason \in Reasons, FailAndClose(reason)
        PROVE  sender'.next = sender.next
    BY <1>1, <1>4, FailAndCloseFacts DEF MayFail
  \* The audio stays where it is, and the page's thread numbers nothing.
  <1>5. ASSUME capture'.buffer = capture.buffer, capture'.rest = capture.rest,
               capture'.queue = capture.queue, capture'.held = capture.held,
               capture.pc = "numbering" <=> capture'.pc = "numbering",
               page'.pc # "numbering"
        PROVE  Unnumbered' \subseteq Unnumbered
    BY <1>5 DEF Unnumbered, Hand
  <1>6. CASE OpenMicrophone \/ CloseCapture
    <2>1. /\ capture'.buffer = capture.buffer /\ capture'.rest = capture.rest
          /\ capture'.queue = capture.queue /\ capture'.held = capture.held
          /\ capture.pc = "numbering" <=> capture'.pc = "numbering"
          /\ page'.pc = "idle" /\ page.pc \in {"idle", "closing"}
          /\ page'.presses = page.presses /\ UNCHANGED sender
      BY <1>1, <1>6 DEF OpenMicrophone, CloseCapture, CaptureState, PageState
    <2>2. Unnumbered' \subseteq Unnumbered /\ Owing' <= Owing
      BY <1>5, <2>1 DEF Owing
    <2> QED
      BY <1>2, <2>1, <2>2, BudgetKept
  <1>7. CASE PressPause \/ PressEnd \/ PressResume
    <2>1. /\ capture'.buffer = capture.buffer /\ capture'.rest = capture.rest
          /\ capture'.queue = capture.queue /\ capture'.held = capture.held
          /\ capture.pc = "numbering" <=> capture'.pc = "numbering"
          /\ page'.pc \in {"stopping", "control"}
          /\ page'.presses = page.presses + 1 /\ UNCHANGED sender
      BY <1>1, <1>7 DEF PressPause, PressEnd, PressResume, Press, CaptureState,
         PageState
    <2>2. Unnumbered' \subseteq Unnumbered
      BY <1>5, <2>1
    <2> QED
      BY <1>2, <2>1, <2>2, BudgetKept
  <1>8. CASE StopStream \/ Drained \/ DrainTimesOut
    <2>1. /\ capture'.buffer = capture.buffer /\ capture'.rest = capture.rest
          /\ capture'.queue = capture.queue /\ capture'.held = capture.held
          /\ capture.pc = "numbering" <=> capture'.pc = "numbering"
          /\ page.pc \in {"stopping", "draining"}
          /\ page'.pc \in {"idle", "draining", "flushing"}
          /\ page'.presses = page.presses
      BY <1>1, <1>8 DEF StopStream, Drained, DrainTimesOut, CaptureState, PageState
    <2>2. sender'.next = sender.next
      BY <1>3, <1>4, <1>8 DEF StopStream, Drained, DrainTimesOut
    <2>3. Unnumbered' \subseteq Unnumbered
      BY <1>5, <2>1
    <2>4. Owing' <= Owing
      BY <2>1 DEF Owing
    <2> QED
      BY <1>2, <2>1, <2>2, <2>3, <2>4, BudgetKept
  <1>9. CASE Flush
    <2>1. /\ page.pc = "flushing" /\ UNCHANGED sender /\ page'.presses = page.presses
          /\ capture'.queue = capture.queue /\ capture'.buffer = <<>>
          /\ capture'.rest = capture.rest /\ capture'.held = capture.held
          /\ capture'.pc = capture.pc
          /\ IF capture.buffer = <<>> THEN page'.pc = "control"
             ELSE page'.held = Record("AUDIO", 0, 0, capture.buffer)
      BY <1>1, <1>9 DEF Flush, CaptureState, PageState
    <2>2. /\ capture.rest \in Seq(1 .. MaxUnits) /\ capture.buffer \in Seq(1 .. MaxUnits)
          /\ Range(capture.buffer \o capture.rest) = Range(capture.buffer) \cup Range(capture.rest)
      BY QueueFacts, RangeConcatenation DEF AudioUnits
    <2>3. Hand' = capture.rest
      BY <2>1, <2>2, ConcatEmptySeq DEF Hand
    <2>4. page'.pc = "numbering" => page'.held.units = capture.buffer
      BY <2>1 DEF Record
    <2>5. /\ Range(Hand') \subseteq Range(Hand)
          /\ page'.pc = "numbering" => Range(page'.held.units) \subseteq Range(Hand)
      BY <2>2, <2>3, <2>4 DEF Hand
    <2>6. Unnumbered' \subseteq Unnumbered
      BY <2>1, <2>5 DEF Unnumbered
    <2>7. Owing' <= Owing
      BY <2>1, OwingNext DEF Owing
    <2> QED
      BY <1>2, <2>1, <2>6, <2>7, BudgetKept
  <1>10. CASE NumberRest
    <2>1. /\ page.pc = "numbering" /\ page'.pc \in {"queueing", "idle"} /\ UNCHANGED capture
          /\ page'.presses = page.presses
          /\ \/ page'.pc = "idle" /\ UNCHANGED sender
             \/ page'.pc = "queueing" /\ sender'.next = sender.next + 1
      BY <1>1, <1>10 DEF NumberRest, SenderState, PageState
    <2>2. Unnumbered' \subseteq Unnumbered
      BY <1>5, <2>1
    <2>3. Owing' <= Owing
      BY <2>1 DEF Owing
    <2>4. Unnumbered' # Unnumbered
      <3>1. page.held.units # <<>> /\ page.held.units \in AudioUnits
        BY <2>1, QueueFacts, FieldsOfRecords DEF Holding, PageHolds
      <3>2. PICK u : u \in Range(page.held.units)
        BY <3>1, RangeNotEmpty
      <3>3. u \notin Range(capture.held.units)
        BY <3>2 DEF Sorted
      <3>4. u \notin Range(Hand) /\ u \notin All(capture.queue)
        <4>1. /\ \A w \in Stations[4], v \in Stations[5] : w # v
              /\ \A w \in Stations[4], v \in Stations[6] : w # v
          BY StationsApart
        <4> QED
          BY <3>2, <4>1, StationsAre
      <3>5. u \in Unnumbered
        BY <2>1, <3>2 DEF Unnumbered
      <3>6. u \notin Unnumbered'
        BY <2>1, <3>3, <3>4 DEF Unnumbered, Hand
      <3> QED
        BY <3>5, <3>6
    <2> QED
      BY <1>2, <2>1, <2>2, <2>3, <2>4, BudgetKept, BudgetNumbers
  <1>11. CASE QueueRest \/ QueueControl
    <2>1. /\ UNCHANGED capture /\ page'.presses = page.presses
          /\ sender' = Enqueued(page.held) /\ page.held \in Records
          /\ \/ page.pc = "queueing" /\ page'.pc \in {"control", "idle"}
             \/ page.pc = "controlQueueing" /\ page'.pc \in {"closing", "idle"}
      BY <1>1, <1>11, QueueFacts DEF QueueRest, QueueControl, PageState
    <2>2. sender'.next = sender.next
      BY <1>1, <2>1, QueueFacts, EnqueuedFacts DEF MayFail
    <2>3. Unnumbered' \subseteq Unnumbered
      BY <1>5, <2>1
    <2>4. Owing' <= Owing
      BY <2>1 DEF Owing
    <2> QED
      BY <1>2, <2>1, <2>2, <2>3, <2>4, BudgetKept
  <1>12. CASE NumberControl
    <2>1. /\ page.pc = "control" /\ UNCHANGED capture /\ page'.presses = page.presses
          /\ \/ page'.pc = "idle" /\ UNCHANGED sender
             \/ page'.pc = "controlQueueing" /\ sender'.next = sender.next + 1
      BY <1>1, <1>12 DEF NumberControl, SenderState, PageState
    <2>2. Unnumbered' \subseteq Unnumbered
      BY <1>5, <2>1
    <2>3. Owing = 1 /\ Owing' = 0
      BY <2>1 DEF Owing
    <2>4. Owing' <= Owing
      BY <2>3
    <2> QED
      BY <1>2, <2>1, <2>2, <2>3, <2>4, BudgetKept, BudgetNumbers
  <1> QED
    BY <1>6, <1>7, <1>8, <1>9, <1>10, <1>11, <1>12 DEF PageNext

LEMMA BudgetCapture ==
    ASSUME Types, Types', Holding, Apart, InOrder, Sorted, Budget, CaptureNext
    PROVE  Budget'
  <1>1. sender \in SenderState /\ capture \in CaptureState
    BY StateTypes
  <1>2. UNCHANGED page /\ page'.presses = page.presses /\ Owing' = Owing /\ Owing' <= Owing
    <2>1. UNCHANGED page
      BY DEF CaptureNext, OpenDevice, StartDevice, BeginAdmitting,
       CallbackEnters, CallbackQueues, CallbackGivesUp, WorkerChecks, WorkerGets, WorkerFills,
       WorkerNumbers, WorkerQueues, WorkerSettles, WorkerSetsDrained
    <2> QED
      BY <2>1 DEF Owing
  <1>3. audio.captured >= audio.captured
    BY BudgetTypes
  <1>4. ASSUME Range(Hand') \subseteq Range(Hand), capture'.queue = capture.queue,
               \/ capture'.pc # "numbering"
               \/ capture'.pc = capture.pc /\ capture'.held = capture.held
        PROVE  Unnumbered' \subseteq Unnumbered
    BY <1>2, <1>4 DEF Unnumbered
  <1>5. CASE \/ OpenDevice \/ StartDevice \/ BeginAdmitting \/ CallbackEnters
             \/ CallbackGivesUp \/ WorkerChecks \/ WorkerSettles \/ WorkerSetsDrained
    <2>1. /\ capture'.buffer = capture.buffer /\ capture'.rest = capture.rest
          /\ capture'.queue = capture.queue /\ capture'.held = capture.held
          /\ \/ capture'.pc = capture.pc
             \/ capture'.pc \notin {"filling", "numbering", "queueing"}
          /\ sender'.next = sender.next /\ UNCHANGED audio
      BY <1>2, <1>5, WorkerIdles, IdlingQueuesNothing
    <2>2. Unnumbered' \subseteq Unnumbered
      BY <1>4, <2>1 DEF Hand
    <2> QED
      BY <1>2, <1>3, <2>1, <2>2, BudgetKept
  <1>6. ASSUME NEW n \in BlockSizes, CallbackQueues(n)
        PROVE  Budget'
    <2>1. /\ audio.captured + n <= MaxUnits /\ audio'.captured = audio.captured + n
          /\ UNCHANGED sender
      BY <1>6, StateTypes DEF CallbackQueues, AudioState
    <2>2. audio'.captured >= audio.captured /\ Units(audio.captured + 1, n) \in AudioUnits
      <3>1. n \in Nat /\ audio.captured \in Nat /\ Units(audio.captured + 1, n) \in AudioUnits
        BY <2>1, BlockTypes
      <3> QED
        BY <2>1, <3>1
    <2>3. CASE Len(capture.queue) < CaptureDepth
      <3>1. capture' = [capture EXCEPT !.callback = "out",
                               !.queue = Append(@, Units(audio.captured + 1, n))]
        BY <1>6, <2>3 DEF CallbackQueues
      <3>2. /\ capture'.buffer = capture.buffer /\ capture'.rest = capture.rest
            /\ capture'.queue = Append(capture.queue, Units(audio.captured + 1, n))
            /\ capture'.held = capture.held /\ capture'.pc = capture.pc
        BY <1>1, <3>1 DEF CaptureState
      <3>3. All(capture'.queue) = All(capture.queue) \cup Range(Units(audio.captured + 1, n))
        <4>1. \A line \in Seq(AudioUnits), s \in AudioUnits :
                 /\ All(Append(line, s)) = All(line) \cup Range(s)
                 /\ InLine(TRUE, line) /\ Rising(TRUE, s) /\ Ahead(TRUE, All(line), Range(s))
                       => InLine(TRUE, Append(line, s))
          BY LineAppends
        <4> QED
          BY <2>2, <3>2, <4>1, QueueFacts
      <3>4. Unnumbered' \subseteq Unnumbered \cup Range(Units(audio.captured + 1, n))
        BY <1>2, <3>2, <3>3 DEF Unnumbered, Hand
      <3> QED
        BY <1>2, <2>1, <3>4, BudgetEnters
    <2>4. CASE ~(Len(capture.queue) < CaptureDepth)
      <3>1. /\ capture'.buffer = capture.buffer /\ capture'.rest = capture.rest
            /\ capture'.queue = capture.queue /\ capture'.held = capture.held
            /\ capture'.pc = capture.pc
        BY <1>1, <1>6, <2>4 DEF CallbackQueues, CaptureState
      <3>2. Unnumbered' \subseteq Unnumbered
        BY <1>4, <3>1 DEF Hand
      <3> QED
        BY <1>2, <2>1, <2>2, <3>2, BudgetKept
    <2> QED
      BY <2>3, <2>4
  <1>7. CASE WorkerGets
    <2>1. /\ UNCHANGED <<sender, audio>> /\ capture.pc = "getting"
          /\ \/ capture' = [capture EXCEPT !.pc = "checking"]
             \/ /\ capture.queue # <<>>
                /\ capture' = [capture EXCEPT !.pc = "filling", !.rest = Head(capture.queue),
                                              !.queue = Tail(@)]
      BY <1>7 DEF WorkerGets
    <2>2. CASE capture' = [capture EXCEPT !.pc = "checking"]
      <3>1. /\ capture'.buffer = capture.buffer /\ capture'.rest = capture.rest
            /\ capture'.queue = capture.queue /\ capture'.pc = "checking"
        BY <1>1, <2>2 DEF CaptureState
      <3>2. Unnumbered' \subseteq Unnumbered
        BY <1>4, <3>1 DEF Hand
      <3> QED
        BY <1>2, <1>3, <2>1, <3>2, BudgetKept
    <2>3. CASE /\ capture.queue # <<>>
               /\ capture' = [capture EXCEPT !.pc = "filling", !.rest = Head(capture.queue),
                                             !.queue = Tail(@)]
      <3>1. /\ capture'.buffer = capture.buffer /\ capture'.rest = Head(capture.queue)
            /\ capture'.queue = Tail(capture.queue) /\ capture'.pc = "filling"
        BY <1>1, <2>3 DEF CaptureState
      <3>2. /\ capture.buffer \in Seq(1 .. MaxUnits) /\ Head(capture.queue) \in Seq(1 .. MaxUnits)
            /\ capture.rest \in Seq(1 .. MaxUnits)
        BY <2>3, QueueFacts, HeadTailProperties DEF AudioUnits
      <3>3. /\ Range(capture.buffer \o Head(capture.queue))
                  = Range(capture.buffer) \cup Range(Head(capture.queue))
            /\ Range(capture.buffer \o capture.rest)
                  = Range(capture.buffer) \cup Range(capture.rest)
        BY <3>2, RangeConcatenation
      <3>4. All(capture.queue) = Range(Head(capture.queue)) \cup All(Tail(capture.queue))
        <4>1. \A line \in Seq(AudioUnits) : line # <<>> =>
                 /\ All(line) = Range(Head(line)) \cup All(Tail(line))
                 /\ InLine(TRUE, line) => InLine(TRUE, Tail(line))
          BY LineMovesOn
        <4> QED
          BY <2>3, <4>1, QueueFacts
      <3>5. /\ Range(Hand') = Range(capture.buffer) \cup Range(Head(capture.queue))
            /\ Range(Hand) = Range(capture.buffer) \cup Range(capture.rest)
        BY <3>1, <3>3 DEF Hand
      <3>6. Unnumbered' \subseteq Unnumbered
        BY <1>2, <3>1, <3>4, <3>5 DEF Unnumbered
      <3> QED
        BY <1>2, <1>3, <2>1, <3>6, BudgetKept
    <2> QED
      BY <2>1, <2>2, <2>3
  <1>8. CASE WorkerFills
    <2>1. UNCHANGED <<sender, audio>> /\ capture.pc = "filling"
      BY <1>8 DEF WorkerFills
    <2>2. CASE Len(Hand) < ChunkUnits
      <3>1. /\ capture'.buffer = Hand /\ capture'.rest = <<>>
            /\ capture'.queue = capture.queue /\ capture'.pc = "settling"
        BY <1>1, <1>8, <2>2 DEF WorkerFills, Hand, CaptureState
      <3>2. Hand' = Hand
        <4>1. Hand \in Seq(1 .. MaxUnits)
          BY HandTypes DEF AudioUnits
        <4>2. Hand' = Hand \o <<>>
          BY <3>1 DEF Hand
        <4> HIDE DEF Hand
        <4> QED
          BY <4>1, <4>2, ConcatEmptySeq
      <3>3. Unnumbered' \subseteq Unnumbered
        BY <1>4, <3>1, <3>2
      <3> QED
        BY <1>2, <1>3, <2>1, <3>3, BudgetKept
    <2>3. CASE ~(Len(Hand) < ChunkUnits)
      <3>1. /\ capture'.buffer = <<>>
            /\ capture'.rest = SubSeq(Hand, ChunkUnits + 1, Len(Hand))
            /\ capture'.queue = capture.queue
            /\ capture'.held = Record("AUDIO", 0, 0, SubSeq(Hand, 1, ChunkUnits))
        BY <1>1, <1>8, <2>3 DEF WorkerFills, Hand, CaptureState
      <3>2. Len(Hand) >= ChunkUnits
        <4>1. Len(Hand) \in Nat /\ ChunkUnits \in Nat
          BY HandTypes, BlocksAreShort
        <4> QED
          BY <2>3, <4>1
      <3>3. /\ SubSeq(Hand, 1, ChunkUnits) \in Seq(1 .. MaxUnits)
            /\ SubSeq(Hand, ChunkUnits + 1, Len(Hand)) \in Seq(1 .. MaxUnits)
            /\ SubSeq(Hand, 1, ChunkUnits) \o SubSeq(Hand, ChunkUnits + 1, Len(Hand)) = Hand
        BY <3>2, HandTypes DEF AudioUnits
      <3>4. Range(SubSeq(Hand, 1, ChunkUnits))
               \cup Range(SubSeq(Hand, ChunkUnits + 1, Len(Hand))) = Range(Hand)
        <4>1. ASSUME NEW s \in Seq(1 .. MaxUnits), NEW t \in Seq(1 .. MaxUnits), s \o t = Hand
              PROVE  Range(s) \cup Range(t) = Range(Hand)
          BY ZenonT(60), <4>1, RangeConcatenation
        <4> HIDE DEF Hand
        <4> QED
          BY <3>3, <4>1
      <3>5. Hand' = SubSeq(Hand, ChunkUnits + 1, Len(Hand))
        <4>1. ASSUME NEW rest \in Seq(1 .. MaxUnits), capture'.buffer = <<>>, capture'.rest = rest
              PROVE  Hand' = rest
          BY <4>1, ConcatEmptySeq DEF Hand
        <4> QED
          BY <3>1, <3>3, <4>1
      <3>6. capture'.held.units = SubSeq(Hand, 1, ChunkUnits)
        <4>1. Record("AUDIO", 0, 0, SubSeq(Hand, 1, ChunkUnits)).units
                 = SubSeq(Hand, 1, ChunkUnits)
          BY DEF Record
        <4> QED
          BY <3>1, <4>1
      <3>7. Range(capture'.held.units) \subseteq Range(Hand) /\ Range(Hand') \subseteq Range(Hand)
        BY <3>4, <3>5, <3>6
      <3>8. Unnumbered' \subseteq Unnumbered
        BY <1>2, <3>1, <3>7 DEF Unnumbered
      <3> QED
        BY <1>2, <1>3, <2>1, <3>8, BudgetKept
    <2> QED
      BY <2>2, <2>3
  \* What the worker puts down leaves it nothing in hand, or what it had.
  <1>9. ASSUME capture.pc \in {"numbering", "queueing"}, capture'.buffer = capture.buffer,
               capture'.rest = capture.rest \/ capture'.rest = <<>>
        PROVE  Range(Hand') \subseteq Range(Hand)
    <2>1. capture.buffer = <<>> /\ capture'.buffer = <<>>
      BY <1>9 DEF Apart, Pieces
    <2>2. <<>> \o <<>> = <<>>
      BY ConcatEmptySeq
    <2>3. capture'.rest = capture.rest => Hand' = Hand
      BY <1>9 DEF Hand
    <2>4. capture'.rest = <<>> => Hand' = <<>> \o <<>>
      BY <2>1 DEF Hand
    <2> QED
      BY <1>9, <2>2, <2>3, <2>4, RangeOfEmpty
  <1>10. CASE WorkerNumbers
    <2>1. /\ capture.pc = "numbering" /\ UNCHANGED audio /\ capture'.buffer = capture.buffer
          /\ capture'.queue = capture.queue
          /\ capture'.rest = capture.rest \/ capture'.rest = <<>>
          /\ capture'.pc \in {"queueing", "settling"}
          /\ sender'.next = sender.next + 1 \/ sender'.next = sender.next
      BY <1>1, <1>10 DEF WorkerNumbers, Numbered, CaptureState, SenderState
    <2>2. Range(Hand') \subseteq Range(Hand)
      BY <1>9, <2>1
    <2>3. Unnumbered' \subseteq Unnumbered
      BY <1>4, <2>1, <2>2
    <2>4. Unnumbered' # Unnumbered
      <3>1. capture.held.units # <<>> /\ capture.held.units \in AudioUnits
        BY <2>1, QueueFacts, FieldsOfRecords DEF Holding, CaptureHolds
      <3>2. PICK u : u \in Range(capture.held.units)
        BY <3>1, RangeNotEmpty
      <3>3. u \notin Range(page.held.units)
        BY <3>2 DEF Sorted
      <3>4. u \notin Range(Hand) /\ u \notin All(capture.queue)
        <4>1. /\ \A w \in Stations[4], v \in Stations[5] : w # v
              /\ \A w \in Stations[4], v \in Stations[6] : w # v
          BY StationsApart
        <4> QED
          BY <3>2, <4>1, StationsAre
      <3>5. u \in Unnumbered
        BY <2>1, <3>2 DEF Unnumbered
      <3>6. u \notin Unnumbered'
        BY <1>2, <2>1, <2>2, <3>3, <3>4 DEF Unnumbered
      <3> QED
        BY <3>5, <3>6
    <2>5. audio'.captured = audio.captured /\ audio'.captured >= audio.captured
      BY <1>3, <2>1
    <2>6. CASE sender'.next = sender.next
      BY <1>2, <2>3, <2>5, <2>6, BudgetKept
    <2>7. CASE sender'.next = sender.next + 1
      BY <1>2, <2>3, <2>4, <2>5, <2>7, BudgetNumbers
    <2> QED
      BY <2>1, <2>6, <2>7
  <1>11. CASE WorkerQueues
    <2>1. /\ capture.pc = "queueing" /\ UNCHANGED audio /\ capture'.buffer = capture.buffer
          /\ capture'.queue = capture.queue
          /\ capture'.rest = capture.rest \/ capture'.rest = <<>>
          /\ capture'.pc \in {"settling", "filling"}
          /\ sender' = Enqueued(capture.held) /\ capture.held \in Records
      BY <1>1, <1>11, QueueFacts DEF WorkerQueues, CaptureState
    <2>2. sender'.next = sender.next
      BY <1>1, <2>1, QueueFacts, EnqueuedFacts DEF MayFail
    <2>3. Range(Hand') \subseteq Range(Hand)
      BY <1>9, <2>1
    <2>4. Unnumbered' \subseteq Unnumbered
      BY <1>4, <2>1, <2>3
    <2>5. audio'.captured >= audio.captured
      BY <1>3, <2>1
    <2> QED
      BY <1>2, <2>2, <2>4, <2>5, BudgetKept
  <1> QED
    BY <1>5, <1>6, <1>7, <1>8, <1>10, <1>11 DEF CaptureNext

-----------------------------------------------------------------------------
(* The invariant is inductive *)

LEMMA InitTypes ==
    ASSUME Init
    PROVE  Types
  <1>1. NoRecord \in Records /\ <<>> \in AudioUnits /\ 1 \in 1 .. MaxGeneration
        /\ 0 \in 0 .. MaxPresses /\ 0 \in 0 .. MaxUnits /\ "none" \in Reasons
    BY NoRecordFacts, BlocksAreShort DEF Reasons
  <1>2. /\ <<>> \in Seq(Records) /\ <<>> \in Seq(AudioUnits) /\ <<>> \in Seq(AnswerRecord)
        /\ \A S : Len(<<>>) = 0
    OBVIOUS
  <1>3. sender \in SenderState /\ Len(sender.queue) <= SenderDepth
    BY <1>1, <1>2, BlocksAreShort DEF Init, SenderState
  <1>4. capture \in CaptureState /\ Len(capture.queue) <= CaptureDepth
        /\ Len(capture.buffer) < ChunkUnits
    BY <1>1, <1>2, BlocksAreShort DEF Init, CaptureState
  <1>5. page \in PageState
    BY <1>1 DEF Init, PageState
  <1>6. WireTypes
    BY <1>2 DEF Init, WireTypes
  <1>7. ServerTypes
    BY <1>1 DEF Init, ServerTypes, ReceiverState, SessionState
  <1>8. audio \in AudioState
    BY <1>1 DEF Init, AudioState
  <1> QED
    BY <1>3, <1>4, <1>5, <1>6, <1>7, <1>8 DEF Types, ClientTypes

LEMMA InitHolds ==
    ASSUME Init
    PROVE  IInv
  <1>1. Types
    BY InitTypes
  <1>2. Holding /\ Room
    BY DEF Init, Holding, SenderHolds, CaptureHolds, PageHolds, Room
  <1>3. Turns /\ Serving
    <2>1. <<>> \o <<>> = <<>>
      BY ConcatEmptySeq
    <2> QED
      BY <2>1 DEF Init, Turns, Unconnected, Answered, UnderWay, Replied, PauseWaits,
         Serving
  <1>4. Apart
    <2>1. Longest \in Nat /\ Len(<<>>) = 0 /\ DOMAIN <<>> = {}
      BY BlocksAreShort
    <2>2. Pieces
      BY <2>1 DEF Init, Pieces
    <2>3. Silent /\ Leftover
      BY DEF Init, Silent, Leftover, Resting
    <2> QED
      BY <2>2, <2>3 DEF Apart
  <1>5. /\ OnWire = <<>> /\ Hand = <<>> /\ UnitsOf(sender.queue) = <<>>
        /\ page.held.units = <<>> /\ capture.held.units = <<>> /\ capture.queue = <<>>
        /\ audio.admitted = <<>> /\ audio.captured = 0
    <2>1. <<>> \o <<>> = <<>>
      BY ConcatEmptySeq
    <2>2. Hand = <<>>
      BY <2>1 DEF Init, Hand
    <2>3. sender.queue \in Seq(Records) /\ sender.queue = <<>>
      BY <1>1, QueueFacts DEF Init
    <2>4. UnitsOf(sender.queue) = <<>>
      BY <2>3, UnitsOfQueue
    <2> QED
      BY <2>2, <2>4, NoRecordFacts DEF Init, OnWire
  <1>6. \A k \in 1 .. 6 : Stations[k] = {}
    BY <1>5, StationsAre, AllOfEmpty, RangeOfEmpty
  <1>7. InOrder
    BY <1>6 DEF InOrder, Ordered, Ahead
  <1>8. Sorted
    BY <1>5, AllOfEmpty, RisingEmpty, RangeOfEmpty DEF Sorted
  <1>9. Budget
    <2>1. Unnumbered = {}
      BY <1>5, AllOfEmpty, RangeOfEmpty DEF Init, Unnumbered
    <2>2. Cardinality(Unnumbered) = 0
      BY <2>1, FS_EmptySet
    <2>3. sender.next = 1 /\ Owing = 0 /\ page.presses = 0
      BY DEF Init, Owing
    <2> QED
      BY <1>5, <2>2, <2>3 DEF Budget
  <1> QED
    BY <1>1, <1>2, <1>3, <1>4, <1>7, <1>8, <1>9 DEF IInv

LEMMA SenderKeeps ==
    ASSUME IInv, SenderNext
    PROVE  IInv'
  <1> USE DEF IInv
  <1>1. Stopping \/ Connects \/ SenderSends \/ AckRead \/ DeviceResumes
    BY SenderSplits
  <1>2. Types'
    BY SenderTypes
  <1>3. Holding' /\ Room' /\ Apart'
    BY <1>1, HoldingSender, RoomSender, ApartSender
  <1>4. Turns'
    BY <1>1, TurnsStopping, TurnsConnects, TurnsSends, TurnsAckRead,
       TurnsDeviceResumes
  <1>5. Serving'
    <2>1. CASE Connects
      BY <2>1, ServingConnects
    <2>2. CASE Stopping \/ SenderSends \/ AckRead \/ DeviceResumes
      <3>1. UNCHANGED <<receiver, session>> /\ link'.server = link.server
        BY <2>2 DEF Stopping, SenderSends, AckRead, DeviceResumes, server
      <3> QED
        BY <3>1, ServingKept
    <2> QED
      BY <1>1, <2>1, <2>2
  <1>6. InOrder' /\ Sorted'
    BY <1>1, <1>2, OrderSender
  <1>7. Budget'
    BY <1>1, <1>2, BudgetSender
  <1> QED
    BY <1>2, <1>3, <1>4, <1>5, <1>6, <1>7

LEMMA CaptureKeeps ==
    ASSUME IInv, CaptureNext
    PROVE  IInv'
  <1> USE DEF IInv
  <1>1. Types' /\ Aside
    BY CaptureTypes
  <1>2. sender' \in SenderState
    BY <1>1 DEF Types, ClientTypes
  <1>3. Turns' /\ Serving'
    BY <1>1, TurnsAside, ServingKept DEF Aside
  <1>4. Holding' /\ Room' /\ Apart'
    BY <1>1, <1>2, HoldingCapture, RoomCapture, ApartCapture
  <1>5. InOrder' /\ Sorted' /\ Budget'
    BY <1>1, OrderCapture, BudgetCapture
  <1> QED
    BY <1>1, <1>3, <1>4, <1>5

LEMMA PageKeeps ==
    ASSUME IInv, PageNext
    PROVE  IInv'
  <1> USE DEF IInv
  <1>1. Types' /\ Aside
    BY PageTypes
  <1>2. sender' \in SenderState
    BY <1>1 DEF Types, ClientTypes
  <1>3. Turns' /\ Serving'
    BY <1>1, TurnsAside, ServingKept DEF Aside
  <1>4. Holding' /\ Room' /\ Apart'
    BY <1>1, <1>2, HoldingPage, RoomPage, ApartPage
  <1>5. InOrder' /\ Sorted' /\ Budget'
    BY <1>1, OrderPage, BudgetPage
  <1> QED
    BY <1>1, <1>3, <1>4, <1>5

\* What the client holds is its own.
LEMMA ClientKept ==
    ASSUME Holding, Room, Apart, UNCHANGED client
    PROVE  Holding' /\ Room' /\ Apart'
  <1>1. UNCHANGED <<sender, capture, page>>
    BY DEF client
  <1>2. \A record : IsNumbered(record) => IsNumbered(record)'
    BY <1>1 DEF IsNumbered
  <1>3. SenderHolds'
    BY <1>1, <1>2 DEF Holding, SenderHolds
  <1>4. CaptureHolds' /\ PageHolds'
    BY <1>1, <1>2 DEF Holding, CaptureHolds, PageHolds
  <1>5. Room'
    BY <1>1 DEF Room
  <1>6. Apart'
    BY <1>1 DEF Apart, Pieces, Silent, Leftover, Resting
  <1> QED
    BY <1>3, <1>4, <1>5, <1>6 DEF Holding

LEMMA ReceiverKeeps ==
    ASSUME IInv, ReceiverNext
    PROVE  IInv'
  <1> USE DEF IInv
  <1>1. Types'
    BY ReceiverTypes
  <1>2. \/ Cut \/ Starts \/ Admits \/ Pauses \/ Settles \/ Resumes \/ Ends
        \/ ReceiverLeaves
    BY ReceiverTypes
  <1>3. UNCHANGED client /\ audio'.captured = audio.captured
    <2>1. \A kind : Takes(kind) => UNCHANGED client
      BY DEF Takes
    <2>2. UNCHANGED client
      BY <1>2, <2>1 DEF Cut, Starts, Admits, Pauses, Settles, Resumes, Ends,
         ReceiverLeaves
    <2>3. \/ UNCHANGED audio
          \/ audio' = [audio EXCEPT !.admitted = @ \o Head(up).units]
      BY <1>2 DEF Cut, Starts, Admits, Pauses, Settles, Resumes, Ends, ReceiverLeaves
    <2> QED
      BY <2>2, <2>3, StateTypes DEF AudioState
  <1>4. Holding' /\ Room' /\ Apart'
    BY <1>3, ClientKept
  <1>5. Turns' /\ Serving'
    BY <1>2, TurnsReceiver, ServingReceiver
  <1>6. InOrder' /\ Sorted'
    BY <1>1, <1>2, OrderReceiver
  <1>7. Budget'
    BY <1>1, <1>3, BudgetElsewhere
  <1> QED
    BY <1>1, <1>4, <1>5, <1>6, <1>7

LEMMA OutsideKeeps ==
    ASSUME IInv, OutsideNext
    PROVE  IInv'
  <1> USE DEF IInv
  <1>1. Types' /\ UNCHANGED <<client, audio>>
    BY OutsideTypes
  <1>2. Holding' /\ Room' /\ Apart'
    BY <1>1, ClientKept
  <1>3. Turns' /\ Serving'
    BY TurnsOutside, ServingOutside
  <1>4. InOrder' /\ Sorted'
    BY <1>1, OrderOutside
  <1>5. Budget'
    BY <1>1, BudgetElsewhere
  <1> QED
    BY <1>1, <1>2, <1>3, <1>4, <1>5

LEMMA StutterKeeps ==
    ASSUME IInv, UNCHANGED vars
    PROVE  IInv'
  <1> USE DEF IInv
  <1>1. /\ UNCHANGED <<sender, capture, page, up, down, link, receiver, session, dashboard, audio>>
        /\ UNCHANGED client
    BY DEF vars, client, wire, server
  <1>2. Types'
    BY <1>1 DEF Types, ClientTypes, WireTypes, ServerTypes
  <1>3. Holding' /\ Room' /\ Apart'
    BY <1>1, ClientKept
  <1>4. Turns'
    BY <1>1, TurnsAside DEF Aside
  <1>5. Serving'
    BY <1>1, ServingKept
  <1>6. InOrder' /\ Sorted'
    <2>1. OnWire' = OnWire /\ Hand' = Hand
      BY <1>1 DEF OnWire, Hand
    <2>2. audio'.captured >= audio.captured
      BY <1>1, BudgetTypes
    <2> QED
      BY <1>1, <1>2, <2>1, <2>2, OrderKept
  <1>7. Budget'
    BY <1>1, <1>2, BudgetElsewhere
  <1> QED
    BY <1>2, <1>3, <1>4, <1>5, <1>6, <1>7

LEMMA StepKeeps == IInv /\ [Next]_vars => IInv'
  BY SenderKeeps, CaptureKeeps, PageKeeps, ReceiverKeeps, OutsideKeeps,
     StutterKeeps DEF Next

-----------------------------------------------------------------------------
(* What follows from it *)

LEMMA NumbersAreBounded ==
    ASSUME IInv
    PROVE  sender.next \in 1 .. MaxUnits + MaxPresses + 1
  <1>1. Cardinality(Unnumbered) \in Nat
    BY UnnumberedFacts DEF IInv
  <1>2. /\ sender.next \in Nat \ {0} /\ Owing \in {0, 1} /\ MaxUnits \in Nat /\ MaxPresses \in Nat
        /\ audio.captured \in 0 .. MaxUnits /\ page.presses \in 0 .. MaxPresses
    BY QueueFacts, BudgetTypes, BlocksAreShort DEF IInv
  <1> QED
    BY <1>1, <1>2 DEF IInv, Budget

LEMMA OnTheWire ==
    ASSUME IInv
    PROVE  Len(up) <= 1 /\ Len(down) <= 1
  <1>1. up = <<>> \/ up = <<sender.out>>
    BY DEF IInv, Turns, UnderWay
  <1>2. down = <<>> \/ \E kind : down = <<[kind |-> kind, seq |-> sender.out.seq]>>
    BY DEF IInv, Turns, Replied
  <1>3. Len(up) <= 1
    <2>1. CASE up = <<>>
      BY <2>1
    <2>2. CASE up = <<sender.out>>
      <3>1. Len(<<sender.out>>) = 1
        OBVIOUS
      <3> QED
        BY <2>2, <3>1
    <2> QED
      BY <1>1, <2>1, <2>2
  <1>4. Len(down) <= 1
    <2>1. CASE down = <<>>
      BY <2>1
    <2>2. ASSUME NEW kind, down = <<[kind |-> kind, seq |-> sender.out.seq]>>
          PROVE  Len(down) <= 1
      <3>1. Len(<<[kind |-> kind, seq |-> sender.out.seq]>>) = 1
        OBVIOUS
      <3> QED
        BY <2>2, <3>1
    <2> QED
      BY <1>2, <2>1, <2>2
  <1> QED
    BY <1>3, <1>4

LEMMA EndsAgreeFollows == IInv => EndsAgree
  <1> SUFFICES ASSUME IInv
               PROVE  EndsAgree
    OBVIOUS
  <1>1. TypeOK
    BY NumbersAreBounded, OnTheWire, StateTypes, QueueFacts
       DEF IInv, Types, ClientTypes, WireTypes, SenderState, CaptureState, PageState,
           ReceiverState, SessionState, TypeOK
  <1>2. Settled => /\ sender.status = receiver.state
                   /\ sender.generation = receiver.generation
                   /\ receiver.next = sender.out.seq + 1
                   /\ audio.acknowledged = audio.admitted
    BY DEF IInv, Turns, Answered, Settled
  <1>3. /\ receiver.pc = "waiting" /\ receiver.state # "AWAIT_START"
              => receiver.generation = session.generation
        /\ receiver.pc = "stopped"
              => /\ session.status \in {"stopping", "completed", "closed"}
                 /\ receiver.state = "FAILED" => session.status = "closed"
                 /\ ~link.server
    BY DEF IInv, Serving
  <1>4. audio.admitted \in {audio.acknowledged, audio.acknowledged \o sender.out.units}
    BY DEF IInv, Turns
  <1> QED
    BY <1>1, <1>2, <1>3, <1>4 DEF EndsAgree

LEMMA OrderFollows == IInv => AudioKeepsItsOrder
  <1> SUFFICES ASSUME IInv
               PROVE  AudioKeepsItsOrder
    OBVIOUS
  <1>1. DOMAIN audio.admitted = 1 .. Len(audio.admitted)
    BY QueueFacts DEF IInv, AudioUnits
  <1>2. Rising(page.early, audio.admitted)
    BY DEF IInv, Sorted
  <1> QED
    BY <1>1, <1>2 DEF AudioKeepsItsOrder, Rising, Precedes

\* At every moment, whatever fails, times out or is pressed: between two records
\* the client and the receiver are of one mind about status, generation, number
\* and what was admitted (_send_messages and the state machine's accept), and a
\* relay that has ended leaves no call and no connection open (_run, _fail).
THEOREM BothEndsAgree == Spec => []EndsAgree
  <1>1. Init => IInv
    BY InitHolds
  <1>2. IInv /\ [Next]_vars => IInv'
    BY StepKeeps
  <1>3. IInv => EndsAgree
    BY EndsAgreeFollows
  <1> QED
    BY <1>1, <1>2, <1>3, PTL DEF Spec

\* Through the block queue, the chunk buffer, the flush of a pause and the
\* sender's queue, no unit of audio is admitted twice, and as long as no button
\* comes early none is admitted before one that was spoken earlier.
THEOREM AudioStaysInOrder == Spec => []AudioKeepsItsOrder
  <1>1. Init => IInv
    BY InitHolds
  <1>2. IInv /\ [Next]_vars => IInv'
    BY StepKeeps
  <1>3. IInv => AudioKeepsItsOrder
    BY OrderFollows
  <1> QED
    BY <1>1, <1>2, <1>3, PTL DEF Spec

=============================================================================
