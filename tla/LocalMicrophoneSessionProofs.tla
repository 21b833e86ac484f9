--------------------- MODULE LocalMicrophoneSessionProofs ---------------------
(***************************************************************************)
(* Proofs about LocalMicrophoneSession: the counters of session and        *)
(* boundary agree, audio is conserved, the status is truthful, and the     *)
(* call is delivered as CallAudioDelivery promises.                        *)
(*                                                                         *)
(* The methods of the session are functions on its record, composed as in  *)
(* the code, so most of the work is about records: what each method keeps  *)
(* of Core, and how it moves the timeline (Onward).  An action then only   *)
(* names the method it runs.                                               *)
(***************************************************************************)
EXTENDS LocalMicrophoneSession, TLAPS

\* The boundary the session owns is a LiveAudioIngress with one scope.  Only
\* the lemmas about the record of one stream are cited from its proofs.
MicrophoneKey == <<"call", "microphone">>

Stream == INSTANCE LiveAudioIngressProofs
    WITH Payloads <- Batches, Duration <- PcmDuration, Formats <- {PcmFormat},
         Calls <- {"call"}, Streams <- {"microphone"}, SequenceNumbers <- Nat,
         MaxActive <- 32, CompletedLimit <- 128, MaxRefused <- 0,
         active <- [k \in IF mic.phase = "active" THEN {MicrophoneKey} ELSE {}
                       |-> mic.stream],
         completed <- IF mic.phase \in {"ended", "cancelled"}
                      THEN <<MicrophoneKey>> ELSE <<>>,
         reply <- "none",
         timeline <- [k \in {MicrophoneKey} |-> mic.timeline],
         delivered <- [k \in {MicrophoneKey} |-> mic.delivered]

-----------------------------------------------------------------------------
(* The inductive invariant *)

Mic == [status         : Statuses,
        readiness      : Readinesses,
        live           : BOOLEAN,
        generation     : 1..MaxGeneration,
        seq            : Nat,
        buffer         : [first : 0..MaxUnits, count : 0..ChunkUnits],
        pausePending   : BOOLEAN,
        stopStatus     : {"none", "PAUSED", "FAILED"},
        inFlight       : 0..1,
        endReason      : {"none", "completed", "cancelled"},
        terminalStatus : {"none", "COMPLETED"},
        endEmitted     : BOOLEAN,
        closed         : BOOLEAN,
        phase          : {"none", "active", "ended", "cancelled"},
        stream         : StreamState,
        captured       : 0..MaxUnits,
        timeline       : Seq(Chunk),
        delivered      : Nat]

\* The last unit in an admitted chunk.
UpTo(t) == IF t = <<>> THEN 0
           ELSE t[Len(t)].payload.first + t[Len(t)].payload.count - 1

\* Every chunk takes up the units where the last one stopped.
Consecutive(t) ==
    /\ t # <<>> => t[1].payload.first = 1
    /\ \A i \in 1 .. Len(t) - 1 :
          t[i+1].payload.first = t[i].payload.first + t[i].payload.count

\* What the phase of the stream says of the session: before START nothing has
\* been taken in; while it is open both count the same numbers and the
\* boundary's record is a faithful account of the timeline; afterwards END has
\* been emitted and the capture is revoked.
Phased(m) ==
    /\ m.phase = "none" => /\ m.seq = 0 /\ m.captured = 0
                           /\ m.timeline = <<>> /\ m.delivered = 0
    /\ m.phase = "active" => /\ m.seq = m.stream.nextSeq
                             /\ ~m.endEmitted
                             /\ Stream!Faithful(m.stream, m.timeline, m.delivered)
    /\ m.phase \in {"ended", "cancelled"} => m.endEmitted
    /\ m.endEmitted => ~m.live /\ m.endReason # "none"
    /\ m.delivered <= Len(m.timeline)
    /\ Consecutive(m.timeline) /\ Contiguous(m.timeline)

\* A call that ended as completed handed everything to the worker.
Finished(m) ==
    m.phase = "ended" => /\ m.delivered = Len(m.timeline)
                         /\ m.captured = UpTo(m.timeline)

\* No unit of an open session is in neither or in both of chunks and buffer,
\* and an END that was asked for leaves nothing to be captured.
Conserved(m) ==
    ~m.closed =>
        /\ m.captured = UpTo(m.timeline) + m.buffer.count
        /\ m.buffer.count > 0 => m.live /\ m.buffer.first = UpTo(m.timeline) + 1
        /\ m.endReason # "none" => /\ ~m.live /\ ~m.pausePending
                                   /\ m.endReason = "completed"
                                   /\ m.terminalStatus = "COMPLETED"
                                   /\ m.status \in {"STOP_REQUESTED", "COMPLETED"}

Core(m) == /\ m \in Mic
           /\ Phased(m)
           /\ m.closed => m.phase # "active" /\ m.endEmitted
           /\ Finished(m)
           /\ Conserved(m)

\* StatusIsTruthful, of any record; while a pause waits for the worker its
\* capture is revoked already.
Truthful(m) ==
    ~m.closed =>
        /\ m.status = "PAUSED" => Retained(m) = 0 /\ m.inFlight = 0 /\ ~m.live
        /\ m.status \in {"READY", "STREAMING", "RECONNECTING"} =>
              m.live /\ m.phase = "active"
        /\ m.status = "PAUSING" <=> m.pausePending
        /\ m.pausePending => ~m.live

\* Between two methods the buffer is never full.
Sound(m) == Core(m) /\ m.buffer.count < ChunkUnits /\ Truthful(m)

\* The worker holds a chunk exactly while it transcribes one, and it does not
\* take another after it has left the loop.
WorkerHolds ==
    /\ worker \in {"loading", "warming", "starting", "waiting"} => mic.inFlight = 0
    /\ worker = "processing" => mic.inFlight = 1

IInv == /\ Sound(mic)
        /\ WorkerHolds
        /\ worker \in WorkerSteps /\ outcome \in Outcomes
        /\ cancelled \in BOOLEAN /\ resetting \in BOOLEAN
-----------------------------------------------------------------------------
(* The lemmas about one stream, in the vocabulary of the session *)

\* What the boundary's constructor requires holds of the one owned here.
LEMMA Limits ==
    /\ PcmDuration \in [Batches -> Nat \ {0}]
    /\ \A b \in Batches : PcmDuration[b] = b.count
    /\ ChunkUnits \in Nat \ {0} /\ MaxUnits \in Nat /\ MaxGeneration \in Nat \ {0}
    /\ MaxQueue \in Nat \ {0} /\ HistoryLimit \in Nat \ {0}
  BY SessionAssumption DEF PcmDuration, Batches

\* Both instances of IngressStream define the same operators.
LEMMA SameStream ==
    /\ Stream!StreamState = StreamState
    /\ Stream!Chunk = Chunk
    /\ \A f, q : Stream!NewStream(f, q) = NewStream(f, q)
    /\ \A s, p : Stream!Admit(s, p) = Admit(s, p)
    /\ \A s, p : Stream!NextChunk(s, p) = NextChunk(s, p)
    /\ \A s, n : Stream!AfterDrain(s, n) = AfterDrain(s, n)
    /\ \A s : Stream!CountRejected(s) = CountRejected(s)
    /\ \A t : Stream!Contiguous(t) = Contiguous(t)
  BY DEF Stream!StreamState, StreamState, Stream!Chunk, Chunk,
         Stream!Fingerprint, Fingerprint, Stream!NewStream, NewStream,
         Stream!Admit, Admit, Stream!NextChunk, NextChunk,
         Stream!TrimOldest, TrimOldest, Stream!AfterDrain, AfterDrain,
         Stream!CountRejected, CountRejected, Stream!Contiguous, Contiguous

\* A START installs an empty record that waits for the next number.
LEMMA StreamStarts ==
    ASSUME NEW seq \in Nat
    PROVE  LET s == NewStream(PcmFormat, seq)
           IN  /\ s \in StreamState
               /\ s.nextSeq = seq + 1
               /\ Len(s.queue) = 0
               /\ Stream!Faithful(s, <<>>, 0)
  <1>1. NewStream(PcmFormat, seq) \in StreamState
    BY DEF NewStream, StreamState
  <1>2. Stream!Faithful(Stream!NewStream(PcmFormat, seq), <<>>, 0)
    BY Limits, Stream!NewStreamIsFaithful
  <1>. QED  BY <1>1, <1>2, SameStream DEF NewStream

\* Admitting a chunk keeps record and timeline in step.
LEMMA StreamAdmits ==
    ASSUME NEW s \in StreamState, NEW b \in Batches,
           NEW t \in Seq(Chunk), NEW n \in Nat, Stream!Faithful(s, t, n)
    PROVE  /\ NextChunk(s, b) \in Chunk
           /\ NextChunk(s, b).payload = b
           /\ Admit(s, b) \in StreamState
           /\ Admit(s, b).nextSeq = s.nextSeq + 1
           /\ Len(Admit(s, b).queue) = Len(s.queue) + 1
           /\ Stream!Faithful(Admit(s, b), Append(t, NextChunk(s, b)), n)
           /\ Contiguous(Append(t, NextChunk(s, b)))
  <1>1. s \in Stream!StreamState /\ t \in Seq(Stream!Chunk)
    BY SameStream
  <1>2. /\ Stream!NextChunk(s, b) \in Stream!Chunk
        /\ Stream!Admit(s, b) \in Stream!StreamState
        /\ Stream!Admit(s, b).queue = Append(s.queue, Stream!NextChunk(s, b))
        /\ Stream!Admit(s, b).nextSeq = s.nextSeq + 1
    <2>1. /\ Nat \subseteq Nat /\ 32 \in Nat \ {0} /\ 128 \in Nat \ {0} /\ 0 \in Nat
          /\ MaxQueue \in Nat \ {0} /\ HistoryLimit \in Nat \ {0}
          /\ PcmDuration \in [Batches -> Nat \ {0}]
      BY Limits
    <2>. QED  BY <1>1, <2>1, Stream!AdmitType, Zenon
  <1>3. Stream!Faithful(Stream!Admit(s, b), Append(t, Stream!NextChunk(s, b)), n)
    BY <1>1, Limits, Stream!AdmitIsFaithful
  <1>4. Stream!Contiguous(Append(t, Stream!NextChunk(s, b)))
    BY <1>3 DEF Stream!Faithful
  <1>5. s.queue \in Seq(Chunk)
    BY DEF StreamState
  <1>6. Len(Append(s.queue, NextChunk(s, b))) = Len(s.queue) + 1
    BY <1>2, <1>5, SameStream
  <1>. QED  BY <1>2, <1>3, <1>4, <1>6, SameStream DEF NextChunk

\* A refusal and a drain do not touch the timeline.
LEMMA StreamRefuses ==
    ASSUME NEW s \in StreamState, NEW t, NEW n, Stream!Faithful(s, t, n)
    PROVE  /\ CountRejected(s) \in StreamState
           /\ CountRejected(s).nextSeq = s.nextSeq
           /\ Stream!Faithful(CountRejected(s), t, n)
  <1>1. s \in Stream!StreamState
    BY SameStream
  <1>2. /\ Stream!CountRejected(s) \in Stream!StreamState
        /\ Stream!CountRejected(s).nextSeq = s.nextSeq
        /\ Stream!CountRejected(s).nextStart = s.nextStart
        /\ Stream!CountRejected(s).queue = s.queue
        /\ Stream!CountRejected(s).fingerprints = s.fingerprints
    BY <1>1, Limits, Stream!CountersOnly
  <1>3. Stream!Faithful(Stream!CountRejected(s), t, n)
    BY <1>1, <1>2, Limits, Stream!FaithfulCongruence
  <1>. QED  BY <1>2, <1>3, SameStream

LEMMA StreamDrains ==
    ASSUME NEW s \in StreamState, NEW t \in Seq(Chunk), NEW n \in Nat,
           Len(s.queue) > 0, Stream!Faithful(s, t, n)
    PROVE  /\ AfterDrain(s, 1) \in StreamState
           /\ AfterDrain(s, 1).nextSeq = s.nextSeq
           /\ Stream!Faithful(AfterDrain(s, 1), t, n + 1)
           /\ n + 1 <= Len(t)
  <1>1. s \in Stream!StreamState /\ t \in Seq(Stream!Chunk)
    BY SameStream
  <1>2. Len(s.queue) \in Nat /\ 1 \in 0 .. Len(s.queue)
    BY DEF StreamState
  <1>3. /\ Stream!AfterDrain(s, 1) \in Stream!StreamState
        /\ Stream!AfterDrain(s, 1).nextSeq = s.nextSeq
    BY <1>1, <1>2, Limits, Stream!AfterDrainType
  <1>4. Stream!Faithful(Stream!AfterDrain(s, 1), t, n + 1)
    BY <1>1, <1>2, Limits, Stream!AfterDrainIsFaithful
  <1>5. Len(s.queue) + n = Len(t)
    BY DEF Stream!Faithful, Stream!QueueIsRest
  <1>. QED  BY <1>2, <1>3, <1>4, <1>5, SameStream

\* What is not delivered is queued.
LEMMA StreamQueue ==
    ASSUME NEW s \in StreamState, NEW t, NEW n \in Nat, Stream!Faithful(s, t, n)
    PROVE  /\ Len(s.queue) \in Nat
           /\ Len(s.queue) + n = Len(t)
           /\ Contiguous(t)
  BY SameStream DEF Stream!Faithful, Stream!QueueIsRest, StreamState

-----------------------------------------------------------------------------
(* The units of a timeline *)

LEMMA UpToType ==
    ASSUME NEW t \in Seq(Chunk)
    PROVE  UpTo(t) \in Nat
  <1>1. CASE t = <<>>
    BY <1>1 DEF UpTo
  <1>2. CASE t # <<>>
    <2>1. t[Len(t)] \in Chunk
      BY <1>2
    <2>2. /\ t[Len(t)].payload.first \in Nat \ {0}
          /\ t[Len(t)].payload.count \in Nat \ {0}
      BY <2>1, Limits DEF Chunk, Batches
    <2>. QED  BY <1>2, <2>2 DEF UpTo
  <1>. QED  BY <1>1, <1>2

\* Appending the chunk that starts at the next unit.
LEMMA AppendConsecutive ==
    ASSUME NEW t \in Seq(Chunk), NEW c \in Chunk, Consecutive(t),
           c.payload.first = UpTo(t) + 1
    PROVE  /\ Append(t, c) \in Seq(Chunk)
           /\ Consecutive(Append(t, c))
           /\ UpTo(Append(t, c)) = UpTo(t) + c.payload.count
           /\ Len(Append(t, c)) = Len(t) + 1
           /\ \A i \in 1 .. Len(t) : Append(t, c)[i] = t[i]
  <1> DEFINE v == Append(t, c)
  <1>1. /\ v \in Seq(Chunk) /\ Len(v) = Len(t) + 1 /\ Len(t) \in Nat
        /\ v[Len(v)] = c /\ v # <<>>
        /\ \A i \in 1 .. Len(t) : v[i] = t[i]
        /\ t = <<>> <=> Len(t) = 0
    OBVIOUS
  <1>2. \A d \in Chunk : d.payload.first \in Nat \ {0} /\ d.payload.count \in Nat \ {0}
    BY Limits DEF Chunk, Batches
  <1>3. \A i \in 1 .. Len(t) : t[i] \in Chunk
    OBVIOUS
  <1> HIDE DEF v
  <1>4. v[1].payload.first = 1
    <2>1. CASE t = <<>>
      BY <1>1, <2>1 DEF UpTo
    <2>2. CASE t # <<>>
      BY <1>1, <2>2 DEF Consecutive
    <2>. QED  BY <2>1, <2>2
  <1>5. ASSUME NEW i \in 1 .. Len(v) - 1
        PROVE  v[i+1].payload.first = v[i].payload.first + v[i].payload.count
    <2>1. CASE i < Len(t)
      BY <1>1, <2>1 DEF Consecutive
    <2>2. CASE i = Len(t)
      <3>1. t # <<>> /\ v[i] = t[Len(t)] /\ v[i+1] = c /\ t[Len(t)] \in Chunk
        BY <1>1, <1>3, <2>2
      <3>2. /\ UpTo(t) = t[Len(t)].payload.first + t[Len(t)].payload.count - 1
            /\ t[Len(t)].payload.first \in Nat /\ t[Len(t)].payload.count \in Nat
        BY <1>2, <3>1 DEF UpTo
      <3>. QED  BY <3>1, <3>2
    <2>. QED  BY <1>1, <2>1, <2>2
  <1>6. UpTo(v) = UpTo(t) + c.payload.count
    <2>1. UpTo(v) = c.payload.first + c.payload.count - 1
      BY <1>1 DEF UpTo
    <2>2. UpTo(t) \in Nat
      BY <1>1, <1>2, <1>3 DEF UpTo
    <2>3. c.payload.count \in Nat
      BY <1>2
    <2>. QED  BY <2>1, <2>2, <2>3
  <1>. QED  BY <1>1, <1>4, <1>5, <1>6 DEF Consecutive, v
-----------------------------------------------------------------------------
(* What the methods do to the timeline and keep of the record *)

\* Nothing is taken back from the timeline, nothing delivered, and a stream
\* that is not open stays as it is.
Onward(m, e) ==
    /\ e.delivered = m.delivered
    /\ Len(m.timeline) <= Len(e.timeline)
    /\ \A i \in 1 .. Len(m.timeline) : e.timeline[i] = m.timeline[i]
    /\ m.phase # "active" => e.phase = m.phase /\ e.timeline = m.timeline
    /\ m.phase = "active" => e.phase # "none"

\* Unless the method closed the session, it changed the audio only.
Keeps(m, e) ==
    /\ e.inFlight = m.inFlight
    /\ ~e.closed =>
          /\ ~m.closed
          /\ e.status = m.status /\ e.live = m.live
          /\ e.phase = m.phase /\ e.endEmitted = m.endEmitted
          /\ e.endReason = m.endReason /\ e.terminalStatus = m.terminalStatus
          /\ e.pausePending = m.pausePending

\* The length of a timeline is a number.
LEMMA TimelineLength ==
    ASSUME NEW m \in Mic
    PROVE  Len(m.timeline) \in Nat
  <1>1. m.timeline \in Seq(Chunk)
    BY DEF Mic
  <1>. QED  BY <1>1

\* Going onward twice is going onward.
LEMMA OnwardTransitive ==
    ASSUME NEW m \in Mic, NEW d \in Mic, NEW e \in Mic, Onward(m, d), Onward(d, e)
    PROVE  Onward(m, e)
  <1>1. Len(m.timeline) \in Nat /\ Len(d.timeline) \in Nat /\ Len(e.timeline) \in Nat
    BY TimelineLength
  <1>. QED  BY <1>1 DEF Onward

\* _emit_end on an open stream whose numbers agree is accepted.
LEMMA EmitEndFields ==
    ASSUME NEW m \in Mic, m.phase = "active", m.seq = m.stream.nextSeq,
           ~m.endEmitted
    PROVE  LET e == EmitEnd(m)
           IN  /\ e \in Mic
               /\ e.phase \in {"ended", "cancelled"}
               /\ e.phase = "ended" <=> m.endReason = "completed"
               /\ e.endEmitted /\ ~e.live
               /\ e.closed = m.closed /\ e.endReason = m.endReason
               /\ e.terminalStatus = m.terminalStatus
               /\ e.captured = m.captured /\ e.buffer = m.buffer
               /\ e.timeline = m.timeline /\ e.delivered = m.delivered
               /\ e.pausePending = m.pausePending /\ e.inFlight = m.inFlight
               /\ m.terminalStatus = "COMPLETED" => e.status = "COMPLETED"
  <1> DEFINE phase == IF m.endReason = "completed" THEN "ended" ELSE "cancelled"
             status == IF m.terminalStatus # "none" THEN m.terminalStatus
                       ELSE IF m.endReason = "completed" THEN "COMPLETED"
                       ELSE m.status
             seq == m.seq + 1
             stream == NewStream(PcmFormat, 0)
  <1>1. m.seq \in Nat /\ m.stream.nextSeq \in Nat
    BY DEF Mic, StreamState
  <1>2. EndReason(m.stream, m.seq) = "ended"
    BY <1>1 DEF EndReason
  <1>3. EmitEnd(m) = [m EXCEPT !.phase = phase, !.stream = stream, !.seq = seq,
                               !.endEmitted = TRUE, !.status = status,
                               !.live = FALSE]
    BY <1>2 DEF EmitEnd, EndAccepted
  <1>4. /\ phase \in {"ended", "cancelled"} /\ seq \in Nat /\ stream \in StreamState
        /\ status \in Statuses
        /\ m.terminalStatus = "COMPLETED" => status = "COMPLETED"
        /\ phase = "ended" <=> m.endReason = "completed"
    <2>1. m.terminalStatus \in {"none", "COMPLETED"} /\ m.status \in Statuses
      BY DEF Mic
    <2>2. stream \in StreamState
      BY StreamStarts
    <2>. QED  BY <1>1, <2>1, <2>2 DEF Statuses
  <1> HIDE DEF status, seq, stream, phase
  <1>. QED  BY ZenonT(60), <1>3, <1>4 DEF Mic

\* _cancel closes the session, whatever was in flight.
LEMMA CancelCloses ==
    ASSUME NEW m \in Mic, Phased(m), Finished(m),
           m.closed => m.phase # "active" /\ m.endEmitted,
           NEW reason \in {"COMPLETED", "FAILED", "OVERLOADED", "RESET",
                           "RESOURCE_CLOSED"}
    PROVE  LET e == Cancel(m, reason)
           IN  /\ Core(e) /\ e.closed
               /\ e.inFlight = m.inFlight /\ e.captured = m.captured
               /\ ~m.closed => e.buffer.count = 0
               /\ m.closed => e = m
               /\ Onward(m, e)
               /\ m.phase = "active" => e.phase = "cancelled"
  <1> DEFINE e == Cancel(m, reason)
             status == CancelStatus(reason)
             c == [m EXCEPT !.closed = TRUE, !.buffer = Empty,
                            !.endReason = "cancelled", !.terminalStatus = "none",
                            !.status = status]
  <1>0. /\ status \in Statuses
        /\ Empty \in [first : 0..MaxUnits, count : 0..ChunkUnits]
        /\ Empty.count = 0
    BY Limits DEF CancelStatus, Statuses, Empty
  <1>1. CASE m.closed
    BY <1>1 DEF Cancel, Core, Conserved, Onward, Phased, Mic
  <1>2. CASE ~m.closed /\ m.phase = "active"
    <2>1. /\ c \in Mic /\ c.phase = "active" /\ c.seq = c.stream.nextSeq
          /\ ~c.endEmitted /\ c.closed /\ c.endReason = "cancelled"
          /\ c.timeline = m.timeline /\ c.delivered = m.delivered
          /\ c.captured = m.captured
          /\ c.buffer.count = 0 /\ c.inFlight = m.inFlight
      <3> HIDE DEF status
      <3>. QED  BY ZenonT(60), <1>0, <1>2 DEF Mic, Phased
    <2>2. e = EmitEnd(c)
      BY <1>2 DEF Cancel
    <2> HIDE DEF c, e
    <2>3. /\ e \in Mic /\ e.phase = "cancelled" /\ e.endEmitted /\ ~e.live
          /\ e.closed /\ e.endReason = "cancelled"
          /\ e.timeline = m.timeline /\ e.delivered = m.delivered
          /\ e.captured = m.captured
          /\ e.buffer.count = 0 /\ e.inFlight = m.inFlight
      BY <2>1, <2>2, EmitEndFields
    <2>4. Len(m.timeline) \in Nat
      BY DEF Mic
    <2>5. Core(e) /\ Onward(m, e)
      BY <1>2, <2>3, <2>4 DEF Core, Phased, Finished, Conserved, Onward
    <2>. QED  BY <1>2, <2>3, <2>5 DEF e
  <1>3. CASE ~m.closed /\ m.phase # "active"
    <2>0. e = [c EXCEPT !.endEmitted = TRUE, !.live = FALSE]
      BY <1>3 DEF Cancel
    <2>1. /\ c \in Mic /\ c.phase = m.phase /\ c.closed /\ c.seq = m.seq
          /\ c.endReason = "cancelled" /\ c.buffer.count = 0
          /\ c.timeline = m.timeline /\ c.delivered = m.delivered
          /\ c.captured = m.captured /\ c.inFlight = m.inFlight
      <3> HIDE DEF status
      <3>. QED  BY ZenonT(60), <1>0 DEF Mic
    <2>2. /\ e \in Mic /\ e.phase = m.phase /\ e.endEmitted /\ ~e.live
          /\ e.closed /\ e.endReason = "cancelled" /\ e.seq = m.seq
          /\ e.timeline = m.timeline /\ e.delivered = m.delivered
          /\ e.captured = m.captured
          /\ e.buffer.count = 0 /\ e.inFlight = m.inFlight
      <3> HIDE DEF c, e
      <3>1. e \in Mic
        BY ZenonT(150), <2>0, <2>1 DEF Mic
      <3>2. /\ e.phase = c.phase /\ e.endEmitted /\ ~e.live
            /\ e.closed = c.closed /\ e.endReason = c.endReason /\ e.seq = c.seq
            /\ e.timeline = c.timeline /\ e.delivered = c.delivered
            /\ e.captured = c.captured
            /\ e.buffer = c.buffer /\ e.inFlight = c.inFlight
        BY <2>0, <2>1 DEF Mic
      <3>. QED  BY <2>1, <3>1, <3>2
    <2> HIDE DEF c, e
    <2>3. Len(m.timeline) \in Nat
      BY DEF Mic
    <2>4. Core(e) /\ Onward(m, e)
      BY <1>3, <2>2, <2>3 DEF Core, Phased, Finished, Conserved, Onward
    <2>. QED  BY <1>3, <2>2, <2>4 DEF e
  <1>. QED  BY <1>1, <1>2, <1>3
\* Units go to the buffer of an open capture, or of a session that was closed
\* half way through the method.
Fillable(m) == \/ m.phase = "active" /\ m.live
               \/ m.phase = "cancelled" /\ m.closed

LEMMA FillCore ==
    ASSUME NEW m, Core(m), NEW n \in Nat, m.captured + n <= MaxUnits,
           m.buffer.count + n <= ChunkUnits, n > 0 => Fillable(m)
    PROVE  LET e == Fill(m, n)
           IN  /\ Core(e) /\ Onward(m, e) /\ Keeps(m, e)
               /\ e.buffer.count = m.buffer.count + n
               /\ e.captured = m.captured + n
               /\ e.closed = m.closed /\ e.phase = m.phase /\ e.live = m.live
               /\ e.stream = m.stream
               /\ n = 0 => e = m
  <1>0. /\ m \in Mic /\ Len(m.timeline) \in Nat
        /\ m.buffer.count \in Nat /\ m.captured \in Nat
    BY Limits DEF Core, Mic
  <1>1. CASE n = 0
    <2>1. Fill(m, n) = m
      BY <1>1 DEF Fill
    <2>2. m.buffer.count + n = m.buffer.count /\ m.captured + n = m.captured
      BY <1>0, <1>1
    <2>. QED  BY <1>0, <2>1, <2>2 DEF Onward, Keeps
  <1>2. CASE n > 0
    <2> DEFINE e == Fill(m, n)
               captured == m.captured + n
               buffer == [first |-> IF m.buffer.count = 0 THEN m.captured + 1
                                                         ELSE m.buffer.first,
                          count |-> m.buffer.count + n]
    <2>1. e = [m EXCEPT !.captured = captured, !.buffer = buffer]
      BY <1>2 DEF Fill
    <2>2. /\ captured \in 0..MaxUnits
          /\ buffer \in [first : 0..MaxUnits, count : 0..ChunkUnits]
          /\ buffer.count = m.buffer.count + n /\ buffer.count > 0
          /\ m.buffer.count = 0 => buffer.first = m.captured + 1
          /\ m.buffer.count > 0 => buffer.first = m.buffer.first
      BY SMTT(40), <1>0, <1>2, Limits DEF Mic
    <2> HIDE DEF e, captured, buffer
    <2>3. /\ e \in Mic /\ e.captured = captured /\ e.buffer = buffer
          /\ e.status = m.status /\ e.live = m.live /\ e.seq = m.seq
          /\ e.pausePending = m.pausePending /\ e.inFlight = m.inFlight
          /\ e.endReason = m.endReason /\ e.terminalStatus = m.terminalStatus
          /\ e.endEmitted = m.endEmitted /\ e.closed = m.closed
          /\ e.phase = m.phase /\ e.stream = m.stream
          /\ e.timeline = m.timeline /\ e.delivered = m.delivered
      BY <1>0, <2>1, <2>2 DEF Mic
    <2>4. Phased(e) /\ Finished(e)
      BY <1>2, <2>3 DEF Core, Phased, Finished, Fillable
    <2>5. Conserved(e)
      <3>1. CASE e.closed
        BY <3>1 DEF Conserved
      <3>2. CASE ~e.closed
        <4>1. UpTo(m.timeline) + m.buffer.count = m.captured /\ m.live
          BY <1>2, <2>3, <3>2 DEF Core, Conserved, Fillable
        <4>2. UpTo(m.timeline) \in Nat
          BY <1>0, UpToType DEF Mic
        <4>. QED
          BY SMTT(40), <1>0, <1>2, <2>2, <2>3, <3>2, <4>1, <4>2 DEF Core, Conserved, captured
      <3>. QED  BY <3>1, <3>2
    <2>6. Core(e)
      BY <2>3, <2>4, <2>5 DEF Core
    <2>. QED
      BY <1>0, <1>2, <2>2, <2>3, <2>6 DEF Onward, Keeps, e, captured
  <1>. QED  BY <1>1, <1>2

\* A buffer that is not empty belongs to an open stream with a live capture.
LEMMA BufferIsLive ==
    ASSUME NEW m, Core(m), ~m.closed, m.buffer.count > 0
    PROVE  m.phase = "active" /\ m.live
  <1>1. /\ m \in Mic /\ m.live
        /\ m.captured = UpTo(m.timeline) + m.buffer.count
        /\ m.phase \in {"none", "active", "ended", "cancelled"}
        /\ m.buffer.count \in Nat
    BY DEF Core, Conserved, Mic
  <1>2. m.phase # "none"
    BY <1>1 DEF Core, Phased, UpTo
  <1>. QED  BY <1>1, <1>2 DEF Core, Phased

\* What is left to emit of an open session is admitted, or overloads it.
LEMMA EmitIsAnswered ==
    ASSUME NEW m, Core(m), ~m.closed, m.buffer.count > 0
    PROVE  /\ m.buffer \in Batches
           /\ Answer(m) \in {"frame_accepted", "queue_full"}
           /\ Answer(m) = "queue_full" => Len(m.stream.queue) # 0
  <1>1. m.phase = "active" /\ m.live
    BY BufferIsLive
  <1>2. /\ m \in Mic /\ m.seq = m.stream.nextSeq
        /\ m.buffer.first = UpTo(m.timeline) + 1
        /\ m.captured = UpTo(m.timeline) + m.buffer.count
    BY <1>1 DEF Core, Phased, Conserved
  <1>3. /\ m.seq \in Nat /\ Len(m.stream.queue) \in Nat
        /\ m.stream.nextSeq \in Nat /\ m.captured \in 0..MaxUnits
        /\ m.buffer \in [first : 0..MaxUnits, count : 0..ChunkUnits]
    BY <1>2 DEF Mic, StreamState
  <1>4. UpTo(m.timeline) \in Nat
    BY <1>2, UpToType DEF Mic
  <1>5. m.buffer \in Batches
    BY <1>2, <1>3, <1>4, Limits DEF Batches
  <1>. QED  BY <1>1, <1>2, <1>3, <1>5, Limits DEF Answer, AudioReason
\* _emit_buffer: what it takes from the buffer is in the timeline, unless the
\* queue was full and the session is closed.
LEMMA EmitBufferCore ==
    ASSUME NEW m, Core(m), NEW allowShort \in BOOLEAN
    PROVE  LET e == EmitBuffer(m, allowShort)
           IN  /\ Core(e) /\ Onward(m, e) /\ Keeps(m, e)
               /\ e.captured = m.captured
               /\ EmitRaises(m, allowShort) => m.closed
               /\ IF ToEmit(m, allowShort) /\ ~EmitRaises(m, allowShort) /\ ~m.closed
                  THEN e.buffer.count = 0 ELSE e.buffer.count = m.buffer.count
               /\ m.closed => e = m
               /\ e.closed /\ ~m.closed => e.phase = "cancelled"
               /\ ~m.closed /\ Len(m.stream.queue) = 0 => ~e.closed
  <1> DEFINE e == EmitBuffer(m, allowShort)
  <1>0. /\ m \in Mic /\ Len(m.timeline) \in Nat
        /\ m.buffer.count \in Nat /\ m.captured \in Nat
        /\ ToEmit(m, allowShort) => m.buffer.count > 0
    BY Limits DEF Core, Mic, ToEmit
  <1>1. CASE m.closed
    <2>1. m.phase # "active"
      BY <1>1 DEF Core
    <2>2. Answer(m) = "start_required"
      BY <2>1 DEF Answer
    <2>3. e = m
      BY <2>2 DEF EmitBuffer, EmitRaises
    <2>. QED  BY <1>0, <1>1, <2>3 DEF Onward, Keeps
  <1>2. CASE ~m.closed /\ ~ToEmit(m, allowShort)
    <2>1. e = m /\ ~EmitRaises(m, allowShort)
      BY <1>2 DEF EmitBuffer, EmitRaises
    <2>. QED  BY <1>0, <1>2, <2>1 DEF Onward, Keeps
  <1>3. CASE ~m.closed /\ ToEmit(m, allowShort)
    <2>0. /\ m.phase = "active" /\ m.live
          /\ m.buffer \in Batches
          /\ Answer(m) \in {"frame_accepted", "queue_full"}
          /\ ~EmitRaises(m, allowShort)
          /\ Answer(m) = "queue_full" => Len(m.stream.queue) # 0
      BY <1>0, <1>3, BufferIsLive, EmitIsAnswered DEF EmitRaises
    <2>1. /\ m.seq = m.stream.nextSeq /\ ~m.endEmitted
          /\ Stream!Faithful(m.stream, m.timeline, m.delivered)
          /\ m.captured = UpTo(m.timeline) + m.buffer.count
          /\ m.buffer.first = UpTo(m.timeline) + 1
          /\ m.endReason = "none"
      BY <1>0, <1>3, <2>0 DEF Core, Phased, Conserved
    <2>2. /\ m.stream \in StreamState /\ m.timeline \in Seq(Chunk)
          /\ m.delivered \in Nat /\ m.seq \in Nat
          /\ Empty \in [first : 0..MaxUnits, count : 0..ChunkUnits]
          /\ Empty.count = 0
      BY <1>0, Limits DEF Mic, Empty
    <2>3. CASE Answer(m) = "queue_full"
      <3> DEFINE stream == CountRejected(m.stream)
                 d == [m EXCEPT !.stream = stream, !.buffer = Empty]
      <3>1. e = Cancel(d, "OVERLOADED")
        BY <1>3, <2>0, <2>3 DEF EmitBuffer
      <3>2. /\ stream \in StreamState /\ stream.nextSeq = m.stream.nextSeq
            /\ Stream!Faithful(stream, m.timeline, m.delivered)
        BY <2>1, <2>2, StreamRefuses
      <3> HIDE DEF stream
      <3>3. /\ d \in Mic /\ d.phase = m.phase /\ d.seq = m.seq
            /\ d.stream = stream /\ d.endEmitted = m.endEmitted
            /\ d.endReason = m.endReason /\ d.closed = m.closed
            /\ d.timeline = m.timeline /\ d.delivered = m.delivered
            /\ d.captured = m.captured /\ d.inFlight = m.inFlight /\ d.live = m.live
        BY ZenonT(60), <1>0, <2>2, <3>2 DEF Mic
      <3> HIDE DEF d, e
      <3>4. Phased(d) /\ Finished(d)
        BY <2>0, <3>2, <3>3 DEF Core, Phased, Finished
      <3>5. /\ Core(e) /\ e.closed /\ e.inFlight = d.inFlight
            /\ e.captured = d.captured
            /\ e.buffer.count = 0 /\ Onward(d, e) /\ e.phase = "cancelled"
        BY <1>3, <2>0, <3>1, <3>3, <3>4, CancelCloses
      <3>6. Onward(m, e) /\ Keeps(m, e)
        BY <3>3, <3>5 DEF Onward, Keeps
      <3>. QED  BY <1>3, <2>0, <2>3, <3>3, <3>5, <3>6 DEF e
    <2>4. CASE Answer(m) = "frame_accepted"
      <3> DEFINE stream == Admit(m.stream, m.buffer)
                 chunk == NextChunk(m.stream, m.buffer)
                 timeline == Append(m.timeline, chunk)
                 seq == m.seq + 1
      <3>1. e = [m EXCEPT !.stream = stream, !.timeline = timeline,
                          !.seq = seq, !.buffer = Empty]
        BY <1>3, <2>0, <2>4 DEF EmitBuffer
      <3>2. /\ stream \in StreamState /\ stream.nextSeq = m.stream.nextSeq + 1
            /\ chunk \in Chunk /\ chunk.payload = m.buffer
            /\ Stream!Faithful(stream, timeline, m.delivered)
            /\ Contiguous(timeline)
        BY <2>0, <2>1, <2>2, StreamAdmits
      <3>3. /\ timeline \in Seq(Chunk)
            /\ Consecutive(timeline)
            /\ UpTo(timeline) = UpTo(m.timeline) + m.buffer.count
            /\ Len(timeline) = Len(m.timeline) + 1
            /\ \A i \in 1 .. Len(m.timeline) : timeline[i] = m.timeline[i]
        <4>1. Consecutive(m.timeline)
          BY DEF Core, Phased
        <4>. HIDE DEF chunk
        <4>. QED  BY <2>1, <2>2, <3>2, <4>1, AppendConsecutive
      <3>4. seq \in Nat /\ seq = stream.nextSeq
        BY <2>1, <2>2, <3>2
      <3> HIDE DEF stream, timeline, seq, e
      <3>5. /\ e \in Mic /\ e.phase = m.phase /\ e.seq = seq
            /\ e.stream = stream /\ e.endEmitted = m.endEmitted
            /\ e.endReason = m.endReason /\ e.closed = m.closed
            /\ e.terminalStatus = m.terminalStatus /\ e.status = m.status
            /\ e.timeline = timeline /\ e.delivered = m.delivered
            /\ e.captured = m.captured /\ e.inFlight = m.inFlight
            /\ e.live = m.live /\ e.pausePending = m.pausePending
            /\ e.buffer = Empty
        BY ZenonT(60), <1>0, <2>2, <3>1, <3>2, <3>3, <3>4 DEF Mic
      <3>6. Phased(e)
        <4>1. m.delivered <= Len(m.timeline) /\ e.delivered <= Len(e.timeline)
          BY <1>0, <2>2, <3>3, <3>5 DEF Core, Phased
        <4>. QED  BY <2>0, <2>1, <3>2, <3>3, <3>4, <3>5, <4>1 DEF Phased
      <3>7. Finished(e) /\ Conserved(e)
        <4>1. UpTo(m.timeline) + m.buffer.count = UpTo(timeline) + e.buffer.count
          BY <1>0, <2>2, <3>3, <3>5, UpToType
        <4>2. e.captured = UpTo(e.timeline) + e.buffer.count /\ ~(e.buffer.count > 0)
          BY <2>1, <2>2, <3>5, <4>1
        <4>. QED  BY <2>0, <2>1, <3>5, <4>2 DEF Finished, Conserved
      <3>8. Core(e) /\ Onward(m, e) /\ Keeps(m, e)
        BY <1>0, <1>3, <2>0, <3>3, <3>5, <3>6, <3>7 DEF Core, Onward, Keeps
      <3>. QED  BY <1>3, <2>0, <2>2, <3>5, <3>8 DEF e
    <2>. QED  BY <2>0, <2>3, <2>4
  <1>. QED  BY <1>1, <1>2, <1>3

\* _append_normalized with n units of a live capture.
LEMMA AppendPcmCore ==
    ASSUME NEW m, Core(m), m.buffer.count < ChunkUnits,
           NEW n \in 0..ChunkUnits, m.captured + n <= MaxUnits,
           n > 0 => m.phase = "active" /\ m.live
    PROVE  LET e == AppendPcm(m, n)
           IN  /\ Core(e) /\ Onward(m, e) /\ Keeps(m, e)
               /\ e.buffer.count < ChunkUnits
               /\ n = 0 => e = m
               /\ m.phase = "active" /\ Len(m.stream.queue) = 0 => ~e.closed
  <1>0. /\ m \in Mic /\ m.buffer.count \in Nat /\ m.captured \in Nat /\ n \in Nat
        /\ m.buffer \in [first : 0..MaxUnits, count : 0..ChunkUnits]
    BY Limits DEF Core, Mic
  <1> DEFINE e == AppendPcm(m, n)
             room == ChunkUnits - m.buffer.count
  <1>1. CASE n < room
    <2>1. e = Fill(m, n)
      BY <1>1 DEF AppendPcm
    <2>2. m.buffer.count + n < ChunkUnits /\ m.buffer.count + n <= ChunkUnits
      BY <1>0, <1>1, Limits
    <2>3. n > 0 => Fillable(m)
      BY DEF Fillable
    <2> HIDE DEF e
    <2>4. /\ Core(e) /\ Onward(m, e) /\ Keeps(m, e)
          /\ e.buffer.count = m.buffer.count + n
          /\ n = 0 => e = m
          /\ e.closed = m.closed
      BY <1>0, <2>1, <2>2, <2>3, FillCore
    <2>. QED  BY <2>2, <2>4 DEF e, Core
  <1>2. CASE ~(n < room)
    <2> DEFINE f == Fill(m, room)
               g == EmitBuffer(f, FALSE)
    <2>1. e = Fill(g, n - room)
      BY <1>2 DEF AppendPcm
    <2>2. /\ room \in Nat /\ room > 0 /\ n > 0 /\ n - room \in Nat
          /\ m.buffer.count + room = ChunkUnits
          /\ m.captured + room <= MaxUnits
          /\ n - room < ChunkUnits
          /\ m.captured + n = (m.captured + room) + (n - room)
      BY <1>0, <1>2, Limits
    <2>3. m.phase = "active" /\ m.live /\ ~m.closed /\ Fillable(m)
      BY <2>2 DEF Core, Fillable
    <2> HIDE DEF room, f, g
    <2>4. /\ Core(f) /\ Onward(m, f) /\ Keeps(m, f)
          /\ f.buffer.count = ChunkUnits /\ f.captured = m.captured + room
          /\ ~f.closed /\ f.phase = "active" /\ f.live
          /\ f.stream = m.stream
      BY <1>0, <2>2, <2>3, FillCore DEF f
    <2>5. ToEmit(f, FALSE)
      BY <2>4 DEF ToEmit
    <2>6. /\ Core(g) /\ Onward(f, g) /\ Keeps(f, g)
          /\ g.captured = f.captured /\ g.buffer.count = 0
          /\ g.closed => g.phase = "cancelled"
          /\ Len(f.stream.queue) = 0 => ~g.closed
      BY <2>4, <2>5, EmitBufferCore DEF g
    <2>7. Fillable(g)
      BY <2>4, <2>6 DEF Keeps, Fillable
    <2>8. /\ g.captured + (n - room) <= MaxUnits
          /\ g.buffer.count + (n - room) <= ChunkUnits
          /\ g.buffer.count + (n - room) < ChunkUnits
      BY <1>0, <2>2, <2>4, <2>6, Limits
    <2>9. /\ Core(e) /\ Onward(g, e) /\ Keeps(g, e)
          /\ e.buffer.count = g.buffer.count + (n - room)
          /\ e.closed = g.closed
      BY <2>1, <2>2, <2>6, <2>7, <2>8, FillCore
    <2>10. m \in Mic /\ f \in Mic /\ g \in Mic /\ e \in Mic
      BY <1>0, <2>4, <2>6, <2>9 DEF Core
    <2>11. Onward(m, e)
      BY <2>4, <2>6, <2>9, <2>10, OnwardTransitive
    <2>12. Keeps(m, e)
      BY <2>4, <2>6, <2>9 DEF Keeps
    <2>13. e.buffer.count < ChunkUnits /\ n # 0
      BY <2>2, <2>8, <2>9
    <2>. QED  BY <2>4, <2>6, <2>9, <2>11, <2>12, <2>13
  <1>. QED  BY <1>1, <1>2
\* _finish_capture_stop_if_drained turns PAUSING into a state that is true.
LEMMA FinishStopSound ==
    ASSUME NEW m, Sound(m)
    PROVE  LET e == FinishStop(m)
           IN  Sound(e) /\ Onward(m, e) /\ e.inFlight = m.inFlight
  <1> DEFINE e == FinishStop(m)
  <1>0. m \in Mic /\ Len(m.timeline) \in Nat
    BY DEF Sound, Core, Mic
  <1>1. CASE ~(m.pausePending /\ Retained(m) = 0 /\ m.inFlight = 0)
    <2>1. e = m
      BY <1>1 DEF FinishStop
    <2>. QED  BY <1>0, <2>1 DEF Onward
  <1>2. CASE m.pausePending /\ Retained(m) = 0 /\ m.inFlight = 0
    <2> DEFINE status == IF m.stopStatus = "none" THEN "PAUSED" ELSE m.stopStatus
    <2>1. e = [m EXCEPT !.pausePending = FALSE, !.status = status,
                        !.stopStatus = "none"]
      BY <1>2 DEF FinishStop
    <2>2. status \in {"PAUSED", "FAILED"} /\ status \in Statuses
      BY <1>0 DEF Mic, Statuses
    <2> HIDE DEF e, status
    <2>3. /\ e \in Mic /\ e.status = status /\ ~e.pausePending
          /\ e.live = m.live /\ e.seq = m.seq /\ e.buffer = m.buffer
          /\ e.inFlight = m.inFlight /\ e.endReason = m.endReason
          /\ e.terminalStatus = m.terminalStatus
          /\ e.endEmitted = m.endEmitted /\ e.closed = m.closed
          /\ e.phase = m.phase /\ e.stream = m.stream /\ e.captured = m.captured
          /\ e.timeline = m.timeline /\ e.delivered = m.delivered
      BY <1>0, <2>1, <2>2 DEF Mic
    <2>4. Retained(e) = 0
      BY <1>2, <2>3 DEF Retained
    <2>5. Core(e)
      BY <1>2, <2>3 DEF Sound, Core, Phased, Finished, Conserved
    <2>6. Truthful(e)
      BY <1>2, <2>2, <2>3, <2>4 DEF Sound, Truthful
    <2>. QED  BY <1>0, <2>3, <2>5, <2>6 DEF Sound, Onward, e
  <1>. QED  BY <1>1, <1>2

\* What may come out of the resampler when a capture stops.
Flushes(m, n) == /\ n \in 0..ChunkUnits /\ m.captured + n <= MaxUnits
                 /\ n > 0 => m.phase = "active" /\ m.live

\* The short rest is emitted, too: an open session has nothing left to emit.
LEMMA RestIsEmitted ==
    ASSUME NEW m, Core(m), m.buffer.count < ChunkUnits, NEW n, Flushes(m, n)
    PROVE  LET p == AppendPcm(m, n)
               e == EmitBuffer(p, TRUE)
           IN  /\ Core(p) /\ Core(e) /\ Onward(m, p) /\ Onward(m, e)
               /\ Keeps(m, p) /\ Keeps(m, e)
               /\ p.buffer.count < ChunkUnits
               /\ EmitRaises(p, TRUE) => p.closed /\ e = p
               /\ ~EmitRaises(p, TRUE) => e.buffer.count = 0
  <1> DEFINE p == AppendPcm(m, n)
             e == EmitBuffer(p, TRUE)
  <1>1. Core(p) /\ Onward(m, p) /\ Keeps(m, p) /\ p.buffer.count < ChunkUnits
    BY AppendPcmCore DEF Flushes
  <1> HIDE DEF p
  <1>2. /\ Core(e) /\ Onward(p, e) /\ Keeps(p, e)
        /\ EmitRaises(p, TRUE) => p.closed
        /\ p.closed => e = p
        /\ IF ToEmit(p, TRUE) /\ ~EmitRaises(p, TRUE) /\ ~p.closed
           THEN e.buffer.count = 0 ELSE e.buffer.count = p.buffer.count
    BY <1>1, EmitBufferCore
  <1> HIDE DEF e
  <1>3. m \in Mic /\ p \in Mic /\ e \in Mic
    BY <1>1, <1>2 DEF Core
  <1>4. Onward(m, e)
    BY <1>1, <1>2, <1>3, OnwardTransitive
  <1>5. Keeps(m, e)
    BY <1>1, <1>2 DEF Keeps
  <1>6. ASSUME ~EmitRaises(p, TRUE)  PROVE e.buffer.count = 0
    <2>1. p.buffer.count \in Nat
      BY <1>3 DEF Mic
    <2>2. CASE p.buffer.count = 0
      BY <1>2, <2>2
    <2>3. CASE p.buffer.count > 0 /\ ~p.closed
      BY <1>2, <1>6, <2>3 DEF ToEmit
    <2>4. CASE p.buffer.count > 0 /\ p.closed
      <3>1. Answer(p) = "start_required"
        BY <1>1, <2>4 DEF Answer, Core
      <3>. QED  BY <1>6, <2>4, <3>1 DEF EmitRaises, ToEmit
    <2>. QED  BY <2>1, <2>2, <2>3, <2>4
  <1>. QED  BY <1>1, <1>2, <1>4, <1>5, <1>6 DEF p, e

\* _stop_capture
LEMMA StopCaptureSound ==
    ASSUME NEW m, Sound(m), ~m.closed, m.live,
           NEW n, Flushes(m, n), NEW flushFails \in BOOLEAN
    PROVE  LET e == StopCapture(m, n, flushFails)
           IN  Sound(e) /\ Onward(m, e) /\ e.inFlight = m.inFlight
  <1> DEFINE d == [m EXCEPT !.status = "PAUSING"]
             p == AppendPcm(d, n)
             raises == EmitRaises(p, TRUE)
             e == IF raises THEN [p EXCEPT !.buffer = Empty] ELSE EmitBuffer(p, TRUE)
             stopStatus == IF raises \/ flushFails THEN "FAILED" ELSE "PAUSED"
             f == [e EXCEPT !.pausePending = TRUE, !.stopStatus = stopStatus,
                            !.live = FALSE, !.readiness = "READY_TO_CAPTURE"]
  <1>1. StopCapture(m, n, flushFails) = FinishStop(f)
    BY DEF StopCapture
  <1>2. m \in Mic /\ m.endReason = "none" /\ Len(m.timeline) \in Nat
    BY DEF Sound, Core, Conserved, Mic
  <1>3. /\ d \in Mic /\ d.status = "PAUSING"
        /\ d.live = m.live /\ d.seq = m.seq /\ d.buffer = m.buffer
        /\ d.inFlight = m.inFlight /\ d.endReason = m.endReason
        /\ d.pausePending = m.pausePending
        /\ d.terminalStatus = m.terminalStatus
        /\ d.endEmitted = m.endEmitted /\ d.closed = m.closed
        /\ d.phase = m.phase /\ d.stream = m.stream /\ d.captured = m.captured
        /\ d.timeline = m.timeline /\ d.delivered = m.delivered
    BY <1>2 DEF Mic, Statuses
  <1> HIDE DEF d
  <1>4. /\ Core(d) /\ Onward(m, d) /\ Flushes(d, n)
        /\ d.buffer.count < ChunkUnits
    BY <1>2, <1>3 DEF Sound, Core, Phased, Finished, Conserved, Onward, Flushes
  <1>5. /\ Core(p) /\ Onward(d, p) /\ Keeps(d, p)
        /\ Core(EmitBuffer(p, TRUE)) /\ Onward(d, EmitBuffer(p, TRUE))
        /\ Keeps(d, EmitBuffer(p, TRUE))
        /\ raises => p.closed
        /\ ~raises => EmitBuffer(p, TRUE).buffer.count = 0
    BY <1>4, RestIsEmitted
  <1>6. /\ Core(e) /\ Onward(d, e) /\ Keeps(d, e) /\ e.buffer.count = 0
    <2>1. CASE ~raises
      BY <1>5, <2>1
    <2>2. CASE raises
      <3> DEFINE q == [p EXCEPT !.buffer = Empty]
      <3>1. p \in Mic /\ p.closed
        BY <1>5, <2>2 DEF Core
      <3>2. /\ Empty \in [first : 0..MaxUnits, count : 0..ChunkUnits]
            /\ Empty.count = 0
        BY Limits DEF Empty
      <3> HIDE DEF p, q
      <3>3. /\ q \in Mic /\ q.buffer = Empty /\ q.closed
            /\ q.inFlight = p.inFlight /\ q.seq = p.seq /\ q.live = p.live
            /\ q.endReason = p.endReason
            /\ q.endEmitted = p.endEmitted /\ q.captured = p.captured
            /\ q.phase = p.phase /\ q.stream = p.stream
            /\ q.timeline = p.timeline /\ q.delivered = p.delivered
        BY SMTT(40), <3>1, <3>2 DEF Mic, q
      <3>4. Core(q) /\ Onward(d, q) /\ Keeps(d, q) /\ q.buffer.count = 0
        BY <1>5, <3>1, <3>2, <3>3
           DEF Core, Phased, Finished, Conserved, Onward, Keeps
      <3>. QED  BY <2>2, <3>4 DEF q
    <2>. QED  BY <2>1, <2>2
  <1>7. stopStatus \in {"PAUSED", "FAILED"}
    OBVIOUS
  <1> HIDE DEF e, stopStatus
  <1>8. e \in Mic /\ Len(e.timeline) \in Nat
    BY <1>6 DEF Core, Mic
  <1>9. /\ f \in Mic /\ f.pausePending /\ ~f.live
        /\ f.status = e.status /\ f.seq = e.seq /\ f.buffer = e.buffer
        /\ f.inFlight = e.inFlight /\ f.endReason = e.endReason
        /\ f.endEmitted = e.endEmitted /\ f.closed = e.closed
        /\ f.phase = e.phase /\ f.stream = e.stream /\ f.captured = e.captured
        /\ f.timeline = e.timeline /\ f.delivered = e.delivered
    BY <1>7, <1>8 DEF Mic, Readinesses
  <1> HIDE DEF f
  <1>10. ~f.closed => f.endReason = "none" /\ f.status = "PAUSING"
    BY <1>2, <1>3, <1>6, <1>9 DEF Keeps
  <1>11. Core(f)
    BY <1>6, <1>9, <1>10 DEF Core, Phased, Finished, Conserved
  <1>12. Sound(f)
    BY <1>6, <1>9, <1>10, <1>11, Limits DEF Sound, Truthful
  <1>13. Onward(e, f) /\ f.inFlight = m.inFlight
    BY <1>3, <1>6, <1>8, <1>9 DEF Onward, Keeps
  <1>14. LET g == FinishStop(f)
         IN  Sound(g) /\ Onward(f, g) /\ g.inFlight = f.inFlight
    BY <1>12, FinishStopSound
  <1>15. d \in Mic /\ FinishStop(f) \in Mic
    BY <1>3, <1>14 DEF Sound, Core
  <1>16. Onward(m, e)
    BY <1>2, <1>4, <1>6, <1>8, <1>15, OnwardTransitive
  <1>17. Onward(m, f)
    BY <1>2, <1>8, <1>9, <1>13, <1>16, OnwardTransitive
  <1>18. Onward(m, FinishStop(f))
    BY <1>2, <1>9, <1>14, <1>15, <1>17, OnwardTransitive
  <1>. QED  BY <1>1, <1>13, <1>14, <1>18
\* A session that was closed is sound, whatever its status says.
LEMMA CancelSound ==
    ASSUME NEW m, Sound(m),
           NEW reason \in {"COMPLETED", "FAILED", "OVERLOADED", "RESET",
                           "RESOURCE_CLOSED"}
    PROVE  LET e == Cancel(m, reason)
           IN  Sound(e) /\ Onward(m, e) /\ e.inFlight = m.inFlight
  <1> DEFINE e == Cancel(m, reason)
  <1>1. /\ m \in Mic /\ Phased(m) /\ Finished(m)
        /\ m.closed => m.phase # "active" /\ m.endEmitted
    BY DEF Sound, Core
  <1>2. /\ Core(e) /\ e.closed /\ e.inFlight = m.inFlight /\ Onward(m, e)
        /\ ~m.closed => e.buffer.count = 0
        /\ m.closed => e = m
    BY <1>1, CancelCloses
  <1> HIDE DEF e
  <1>3. e.buffer.count < ChunkUnits /\ Truthful(e)
    BY <1>2, Limits DEF Sound, Truthful
  <1>. QED  BY <1>2, <1>3 DEF Sound, e

\* END of an open stream whose queue is empty completes the call.
LEMMA EmitEndSound ==
    ASSUME NEW m, Sound(m), m.endReason # "none", Retained(m) = 0
    PROVE  LET e == EmitEnd(m)
           IN  Sound(e) /\ Onward(m, e) /\ e.inFlight = m.inFlight
  <1> DEFINE e == EmitEnd(m)
  <1>0. m \in Mic /\ Len(m.timeline) \in Nat /\ m.buffer.count \in Nat
    BY DEF Sound, Core, Mic
  <1>1. CASE m.phase # "active"
    <2>1. e = m
      BY <1>1 DEF EmitEnd, EndAccepted
    <2>. QED  BY <1>0, <2>1 DEF Onward
  <1>2. CASE m.phase = "active"
    <2>1. /\ ~m.closed /\ m.seq = m.stream.nextSeq /\ ~m.endEmitted
          /\ Stream!Faithful(m.stream, m.timeline, m.delivered)
          /\ m.endReason = "completed" /\ m.terminalStatus = "COMPLETED"
          /\ ~m.live /\ ~m.pausePending
          /\ m.captured = UpTo(m.timeline) + m.buffer.count
          /\ ~(m.buffer.count > 0)
      BY <1>2 DEF Sound, Core, Phased, Conserved
    <2>2. /\ e \in Mic /\ e.phase = "ended" /\ e.endEmitted /\ ~e.live
          /\ ~e.closed /\ e.endReason = "completed" /\ e.status = "COMPLETED"
          /\ e.terminalStatus = "COMPLETED"
          /\ e.captured = m.captured /\ e.buffer = m.buffer
          /\ e.timeline = m.timeline /\ e.delivered = m.delivered
          /\ e.pausePending = m.pausePending /\ e.inFlight = m.inFlight
      BY <1>0, <1>2, <2>1, EmitEndFields
    <2> HIDE DEF e
    <2>3. m.stream \in StreamState /\ m.delivered \in Nat /\ m.timeline \in Seq(Chunk)
      BY <1>0 DEF Mic
    <2>4. Len(m.stream.queue) = 0 /\ m.delivered = Len(m.timeline)
      BY <1>2, <2>1, <2>3, StreamQueue DEF Retained
    <2>5. m.captured = UpTo(m.timeline) /\ m.buffer.count = 0
      BY <1>0, <2>1, <2>3, UpToType
    <2>6. Core(e)
      <3>1. Phased(e)
        BY <1>0, <1>2, <2>1, <2>2, <2>4 DEF Sound, Core, Phased
      <3>2. Finished(e) /\ Conserved(e)
        BY <2>1, <2>2, <2>4, <2>5 DEF Finished, Conserved
      <3>. QED  BY <2>2, <3>1, <3>2 DEF Core
    <2>7. Sound(e)
      BY <2>1, <2>2, <2>5, <2>6, Limits DEF Sound, Truthful
    <2>. QED  BY <1>0, <1>2, <2>2, <2>7 DEF Onward, e
  <1>. QED  BY <1>1, <1>2

\* _request_draining_end
LEMMA RequestEndSound ==
    ASSUME NEW m, Sound(m), m.phase = "active", m.endReason = "none",
           NEW n, Flushes(m, n)
    PROVE  LET e == RequestEnd(m, n)
           IN  Sound(e) /\ Onward(m, e) /\ e.inFlight = m.inFlight
  <1> DEFINE p == AppendPcm(m, n)
             e == EmitBuffer(p, TRUE)
             s == [e EXCEPT !.status = "STOP_REQUESTED",
                            !.pausePending = FALSE,
                            !.stopStatus = "none",
                            !.terminalStatus = "COMPLETED",
                            !.endReason = "completed",
                            !.live = FALSE]
  <1>1. RequestEnd(m, n) = IF EmitRaises(p, TRUE) \/ e.closed THEN e
                           ELSE IF Retained(s) = 0 THEN EmitEnd(s) ELSE s
    BY DEF RequestEnd
  <1>2. /\ Core(p) /\ Core(e) /\ Onward(m, e) /\ Keeps(m, e)
        /\ p.buffer.count < ChunkUnits
        /\ EmitRaises(p, TRUE) => p.closed /\ e = p
        /\ ~EmitRaises(p, TRUE) => e.buffer.count = 0
    BY RestIsEmitted DEF Sound
  <1> HIDE DEF p, e
  <1>3. CASE EmitRaises(p, TRUE) \/ e.closed
    <2>1. e.closed
      BY <1>2, <1>3
    <2>3. e.buffer.count < ChunkUnits
      <3>1. CASE EmitRaises(p, TRUE)
        BY <1>2, <3>1
      <3>2. CASE ~EmitRaises(p, TRUE)
        BY <1>2, <3>2, Limits
      <3>. QED  BY <3>1, <3>2
    <2>2. Sound(e)
      BY <1>2, <2>1, <2>3 DEF Sound, Truthful
    <2>. QED  BY <1>1, <1>2, <1>3, <2>2 DEF Keeps
  <1>4. CASE ~(EmitRaises(p, TRUE) \/ e.closed)
    <2>0. e \in Mic /\ ~e.closed /\ e.buffer.count = 0
      BY <1>2, <1>4 DEF Core
    <2>1. /\ e \in Mic /\ Len(e.timeline) \in Nat
          /\ ~e.closed /\ e.buffer.count = 0
      BY <2>0 DEF Mic
    <2>2. /\ s \in Mic /\ s.status = "STOP_REQUESTED" /\ ~s.pausePending
          /\ s.terminalStatus = "COMPLETED" /\ s.endReason = "completed"
          /\ ~s.live /\ s.seq = e.seq /\ s.buffer = e.buffer
          /\ s.inFlight = e.inFlight
          /\ s.endEmitted = e.endEmitted /\ s.closed = e.closed
          /\ s.phase = e.phase /\ s.stream = e.stream /\ s.captured = e.captured
          /\ s.timeline = e.timeline /\ s.delivered = e.delivered
      <3>1. s \in Mic
        <4> DEFINE h == [e EXCEPT !.status = "STOP_REQUESTED",
                                  !.pausePending = FALSE,
                                  !.stopStatus = "none"]
        <4>0. "STOP_REQUESTED" \in Statuses
          BY DEF Statuses
        <4>1. h \in Mic
          BY ZenonT(60), <2>0, <4>0 DEF Mic
        <4>2. s = [h EXCEPT !.terminalStatus = "COMPLETED",
                            !.endReason = "completed",
                            !.live = FALSE]
          OBVIOUS
        <4> HIDE DEF h, s
        <4>. QED  BY <4>1, <4>2 DEF Mic
      <3>2. /\ s.status = "STOP_REQUESTED" /\ ~s.pausePending
            /\ s.terminalStatus = "COMPLETED" /\ s.endReason = "completed"
            /\ ~s.live
        BY <2>0 DEF Mic
      <3>3. /\ s.seq = e.seq /\ s.buffer = e.buffer
            /\ s.inFlight = e.inFlight
            /\ s.endEmitted = e.endEmitted /\ s.closed = e.closed
            /\ s.phase = e.phase /\ s.stream = e.stream
            /\ s.captured = e.captured
            /\ s.timeline = e.timeline /\ s.delivered = e.delivered
        BY <2>0 DEF Mic
      <3>. QED  BY <3>1, <3>2, <3>3
    <2> HIDE DEF s
    <2>3. Core(s)
      BY <1>2, <2>1, <2>2 DEF Core, Phased, Finished, Conserved
    <2>4. Sound(s)
      BY <2>1, <2>2, <2>3, Limits DEF Sound, Truthful
    <2>5. Onward(e, s) /\ s.inFlight = m.inFlight
      BY <1>2, <2>1, <2>2 DEF Onward, Keeps
    <2>6. m \in Mic
      BY DEF Sound, Core
    <2>7. Onward(m, s)
      BY <1>2, <2>1, <2>2, <2>5, <2>6, OnwardTransitive
    <2>8. CASE Retained(s) # 0
      BY <1>1, <1>4, <2>4, <2>5, <2>7, <2>8
    <2>9. CASE Retained(s) = 0
      <3>1. LET z == EmitEnd(s)
            IN  Sound(z) /\ Onward(s, z) /\ z.inFlight = s.inFlight
        BY <2>2, <2>4, <2>9, EmitEndSound
      <3>2. EmitEnd(s) \in Mic
        BY <3>1 DEF Sound, Core
      <3>3. Onward(m, EmitEnd(s))
        BY <2>2, <2>6, <2>7, <3>1, <3>2, OnwardTransitive
      <3>. QED  BY <1>1, <1>4, <2>5, <2>9, <3>1, <3>3
    <2>. QED  BY <2>8, <2>9
  <1>. QED  BY <1>3, <1>4

\* start: a capture of a call that is open, or of one that it opens.
LEMMA StartCaptureSound ==
    ASSUME NEW m, Sound(m), Startable(m)
    PROVE  LET e == StartCapture(m)
           IN  /\ Sound(e) /\ e.phase = "active" /\ e.live /\ ~e.closed
               /\ e.inFlight = m.inFlight /\ e.captured = m.captured
               /\ e.timeline = m.timeline /\ e.delivered = m.delivered
               /\ m.phase \in {"none", "active"}
               /\ m.phase = "none" => Len(e.stream.queue) = 0
  <1> DEFINE stream == NewStream(PcmFormat, m.seq)
             seq == m.seq + 1
             o == IF m.phase = "none"
                  THEN [m EXCEPT !.phase = "active", !.stream = stream, !.seq = seq]
                  ELSE m
             e == [o EXCEPT !.status = "READY", !.readiness = "STREAMING"]
  <1>1. StartCapture(m) = e
    BY DEF StartCapture
  <1>2. /\ m \in Mic /\ m.seq \in Nat /\ m.live /\ ~m.closed
        /\ m.status \in {"PERMISSION_PENDING", "RECONNECTING"}
        /\ m.phase \in {"none", "active"} /\ ~m.endEmitted /\ m.endReason = "none"
        /\ ~m.pausePending
    BY DEF Sound, Core, Phased, Conserved, Truthful, Startable, Mic
  <1>3. /\ stream \in StreamState /\ stream.nextSeq = seq
        /\ Len(stream.queue) = 0 /\ Stream!Faithful(stream, <<>>, 0)
        /\ seq \in Nat
    BY SMTT(40), <1>2, StreamStarts
  <1> HIDE DEF stream, seq
  <1>4. /\ o \in Mic /\ o.phase = "active" /\ o.live = m.live
        /\ o.buffer = m.buffer /\ o.inFlight = m.inFlight
        /\ o.endReason = m.endReason /\ o.pausePending = m.pausePending
        /\ o.endEmitted = m.endEmitted /\ o.closed = m.closed
        /\ o.captured = m.captured
        /\ o.timeline = m.timeline /\ o.delivered = m.delivered
        /\ m.phase = "none" => o.stream = stream /\ o.seq = seq
        /\ m.phase = "active" => o.stream = m.stream /\ o.seq = m.seq
    <2>1. CASE m.phase = "none"
      BY ZenonT(60), <1>2, <1>3, <2>1 DEF Mic
    <2>2. CASE m.phase = "active"
      BY <1>2, <2>2 DEF Mic
    <2>. QED  BY <1>2, <2>1, <2>2
  <1> HIDE DEF o
  <1>5. /\ e \in Mic /\ e.status = "READY" /\ e.phase = o.phase /\ e.live = o.live
        /\ e.buffer = o.buffer /\ e.inFlight = o.inFlight
        /\ e.endReason = o.endReason /\ e.pausePending = o.pausePending
        /\ e.endEmitted = o.endEmitted /\ e.closed = o.closed
        /\ e.captured = o.captured /\ e.stream = o.stream /\ e.seq = o.seq
        /\ e.timeline = o.timeline /\ e.delivered = o.delivered
    BY <1>4 DEF Mic, Statuses, Readinesses
  <1> HIDE DEF e
  <1>6. Phased(e)
    BY <1>2, <1>3, <1>4, <1>5 DEF Sound, Core, Phased
  <1>7. Core(e)
    BY <1>2, <1>4, <1>5, <1>6 DEF Sound, Core, Conserved, Finished
  <1>8. Sound(e)
    BY <1>2, <1>4, <1>5, <1>7 DEF Sound, Truthful
  <1>. QED  BY <1>1, <1>2, <1>3, <1>4, <1>5, <1>8

-----------------------------------------------------------------------------
(* Every action keeps the invariant and moves the call as promised *)

\* How a step of the session moves the call: the stream is opened, moves
\* onward, or hands a queued chunk to the worker.
Moves(m, e) ==
    \/ m.phase = "none" /\ e.phase = "active" /\ e.delivered = 0
    \/ Onward(m, e)
    \/ /\ m.phase = "active" /\ e.phase = "active" /\ e.timeline = m.timeline
       /\ e.delivered \in m.delivered .. Len(m.timeline)

\* Only what the dashboard and the readiness display is different.
SameAudio(m, e) ==
    /\ e.live = m.live /\ e.seq = m.seq /\ e.buffer = m.buffer
    /\ e.pausePending = m.pausePending /\ e.inFlight = m.inFlight
    /\ e.endReason = m.endReason /\ e.terminalStatus = m.terminalStatus
    /\ e.endEmitted = m.endEmitted /\ e.closed = m.closed
    /\ e.phase = m.phase /\ e.stream = m.stream /\ e.captured = m.captured
    /\ e.timeline = m.timeline /\ e.delivered = m.delivered

LEMMA StaysOnward ==
    ASSUME NEW m \in Mic, NEW e, SameAudio(m, e)
    PROVE  Onward(m, e)
  <1>1. Len(m.timeline) \in Nat
    BY DEF Mic
  <1>. QED  BY <1>1 DEF SameAudio, Onward

\* The readiness is of no consequence to the audio.
LEMMA ReadinessSound ==
    ASSUME NEW m, Sound(m), NEW r \in Readinesses
    PROVE  LET e == [m EXCEPT !.readiness = r]
           IN  Sound(e) /\ Onward(m, e) /\ e.inFlight = m.inFlight
  <1> DEFINE e == [m EXCEPT !.readiness = r]
  <1>1. m \in Mic
    BY DEF Sound, Core
  <1>2. e \in Mic /\ SameAudio(m, e) /\ e.status = m.status
    BY <1>1 DEF Mic, SameAudio
  <1> HIDE DEF e
  <1>3. Onward(m, e) /\ e.inFlight = m.inFlight
    BY <1>1, <1>2, StaysOnward DEF SameAudio
  <1>4. Core(e)
    BY <1>2 DEF Sound, Core, Phased, Finished, Conserved, SameAudio
  <1>5. Retained(e) = Retained(m)
    BY <1>2 DEF SameAudio, Retained
  <1>6. Sound(e)
    BY <1>2, <1>4, <1>5 DEF Sound, Truthful, SameAudio
  <1>. QED  BY <1>3, <1>6 DEF e

\* mark_reconnecting
LEMMA ReconnectSound ==
    ASSUME NEW m, Sound(m), m.live, ~m.closed, m.status \in {"READY", "STREAMING"}
    PROVE  LET e == [m EXCEPT !.status = "RECONNECTING",
                              !.readiness = "READY_TO_CAPTURE"]
           IN  Sound(e) /\ Onward(m, e) /\ e.inFlight = m.inFlight
  <1> DEFINE e == [m EXCEPT !.status = "RECONNECTING",
                            !.readiness = "READY_TO_CAPTURE"]
  <1>1. m \in Mic /\ m.phase = "active" /\ m.endReason = "none" /\ ~m.pausePending
    BY DEF Sound, Core, Conserved, Truthful
  <1>2. e \in Mic /\ SameAudio(m, e) /\ e.status = "RECONNECTING"
    BY <1>1 DEF Mic, SameAudio, Statuses, Readinesses
  <1> HIDE DEF e
  <1>3. Onward(m, e) /\ e.inFlight = m.inFlight
    BY <1>1, <1>2, StaysOnward DEF SameAudio
  <1>4. Core(e)
    BY <1>1, <1>2 DEF Sound, Core, Phased, Finished, Conserved, SameAudio
  <1>5. Sound(e)
    BY <1>1, <1>2, <1>4 DEF Sound, Truthful, SameAudio
  <1>. QED  BY <1>3, <1>5 DEF e

\* resume_capture: what a revoked capture left behind is nothing.
LEMMA ResumeSound ==
    ASSUME NEW m, Sound(m), ~m.live, ~m.closed,
           m.status \in {"PAUSED", "FAILED"}, m.generation < MaxGeneration
    PROVE  LET e == [m EXCEPT !.live = TRUE,
                              !.generation = @ + 1,
                              !.buffer = Empty,
                              !.pausePending = FALSE,
                              !.stopStatus = "none",
                              !.status = "PERMISSION_PENDING",
                              !.readiness = "READY_TO_CAPTURE"]
           IN  Sound(e) /\ Onward(m, e) /\ e.inFlight = m.inFlight
  <1> DEFINE generation == m.generation + 1
             h == [m EXCEPT !.live = TRUE, !.generation = generation,
                            !.buffer = Empty]
             e == [h EXCEPT !.pausePending = FALSE, !.stopStatus = "none",
                            !.status = "PERMISSION_PENDING",
                            !.readiness = "READY_TO_CAPTURE"]
  <1>1. /\ m \in Mic /\ m.endReason = "none" /\ ~m.endEmitted
        /\ ~(m.buffer.count > 0) /\ m.captured = UpTo(m.timeline) + m.buffer.count
    BY DEF Sound, Core, Conserved, Phased
  <1>2. /\ generation \in 1..MaxGeneration /\ m.buffer.count = 0
        /\ Empty \in [first : 0..MaxUnits, count : 0..ChunkUnits]
        /\ Empty.count = 0 /\ "PERMISSION_PENDING" \in Statuses
        /\ "READY_TO_CAPTURE" \in Readinesses /\ Len(m.timeline) \in Nat
    BY <1>1, Limits DEF Mic, Empty, Statuses, Readinesses
  <1> HIDE DEF generation
  <1>3. /\ h \in Mic /\ h.live /\ h.buffer = Empty
        /\ h.seq = m.seq /\ h.inFlight = m.inFlight /\ h.endReason = m.endReason
        /\ h.endEmitted = m.endEmitted /\ h.closed = m.closed
        /\ h.phase = m.phase /\ h.stream = m.stream /\ h.captured = m.captured
        /\ h.timeline = m.timeline /\ h.delivered = m.delivered
    BY <1>1, <1>2 DEF Mic
  <1> HIDE DEF h
  <1>4. e \in Mic
    BY <1>2, <1>3 DEF Mic
  <1>5. /\ ~e.pausePending /\ e.status = "PERMISSION_PENDING"
        /\ e.live = h.live /\ e.buffer = h.buffer
        /\ e.seq = h.seq /\ e.inFlight = h.inFlight /\ e.endReason = h.endReason
        /\ e.endEmitted = h.endEmitted /\ e.closed = h.closed
        /\ e.phase = h.phase /\ e.stream = h.stream /\ e.captured = h.captured
        /\ e.timeline = h.timeline /\ e.delivered = h.delivered
    BY <1>3 DEF Mic
  <1> HIDE DEF e
  <1>6. Core(e)
    BY <1>1, <1>2, <1>3, <1>4, <1>5 DEF Sound, Core, Phased, Finished, Conserved
  <1>7. Sound(e)
    BY <1>2, <1>3, <1>5, <1>6, Limits DEF Sound, Truthful
  <1>8. Onward(m, e) /\ e.inFlight = m.inFlight
    BY <1>2, <1>3, <1>5 DEF Onward
  <1>. QED  BY <1>7, <1>8 DEF e, h, generation

\* accept_frame, once the capture runs.
LEMMA CaptureSound ==
    ASSUME NEW m, Sound(m), ~m.closed, m.live, m.phase = "active",
           NEW n \in 0..ChunkUnits, m.captured + n <= MaxUnits
    PROVE  LET a == AppendPcm(m, n)
               e == [a EXCEPT !.status = IF a.live THEN "STREAMING" ELSE @]
           IN  /\ Sound(e) /\ Onward(m, e) /\ e.inFlight = m.inFlight
               /\ Len(m.stream.queue) = 0 => e.phase = "active"
  <1> DEFINE a == AppendPcm(m, n)
             status == IF a.live THEN "STREAMING" ELSE a.status
             e == [a EXCEPT !.status = status]
  <1>1. /\ Core(a) /\ Onward(m, a) /\ Keeps(m, a)
        /\ a.buffer.count < ChunkUnits
        /\ Len(m.stream.queue) = 0 => ~a.closed
    BY AppendPcmCore DEF Sound
  <1>2. /\ m \in Mic /\ m.endReason = "none" /\ ~m.pausePending
    BY DEF Sound, Core, Conserved, Truthful
  <1> HIDE DEF a
  <1>3. a \in Mic /\ status \in Statuses
    BY <1>1 DEF Core, Mic, Statuses
  <1>4. a.live => status = "STREAMING"
    OBVIOUS
  <1> HIDE DEF status
  <1>5. e \in Mic /\ SameAudio(a, e) /\ e.status = status
    BY <1>3 DEF Mic, SameAudio
  <1> HIDE DEF e
  <1>6. ~e.closed => /\ e.live /\ e.phase = "active" /\ e.endReason = "none"
                     /\ ~e.pausePending /\ e.status = "STREAMING"
    BY <1>1, <1>2, <1>4, <1>5 DEF Keeps, SameAudio
  <1>7. Core(e)
    BY <1>1, <1>5, <1>6 DEF Core, Phased, Finished, Conserved, SameAudio
  <1>8. Sound(e)
    BY <1>1, <1>5, <1>6, <1>7 DEF Sound, Truthful, SameAudio
  <1>9. Onward(m, e)
    BY <1>1, <1>2, <1>3, <1>5, StaysOnward, OnwardTransitive
  <1>10. e.inFlight = m.inFlight
    BY <1>1, <1>5 DEF Keeps, SameAudio
  <1>11. Len(m.stream.queue) = 0 => e.phase = "active"
    BY <1>1, <1>5, <1>6 DEF SameAudio
  <1>. QED  BY <1>8, <1>9, <1>10, <1>11 DEF e, a, status

\* iter_audio_chunks hands out the chunk at the head of the queue.
LEMMA TakeChunkSound ==
    ASSUME NEW m, Sound(m), m.inFlight = 0, Retained(m) > 0
    PROVE  LET e == [m EXCEPT !.stream = AfterDrain(@, 1),
                              !.delivered = @ + 1,
                              !.inFlight = @ + 1]
           IN  Sound(e) /\ Moves(m, e) /\ e.inFlight = 1
  <1> DEFINE stream == AfterDrain(m.stream, 1)
             delivered == m.delivered + 1
             inFlight == m.inFlight + 1
             e == [m EXCEPT !.stream = stream, !.delivered = delivered,
                            !.inFlight = inFlight]
  <1>1. m.phase = "active"
    BY DEF Retained
  <1>2. /\ m \in Mic /\ ~m.closed /\ m.seq = m.stream.nextSeq
        /\ Stream!Faithful(m.stream, m.timeline, m.delivered)
        /\ m.stream \in StreamState /\ m.timeline \in Seq(Chunk)
        /\ m.delivered \in Nat /\ Len(m.stream.queue) > 0
    BY <1>1 DEF Sound, Core, Phased, Mic, Retained
  <1>3. /\ stream \in StreamState /\ stream.nextSeq = m.stream.nextSeq
        /\ Stream!Faithful(stream, m.timeline, delivered)
        /\ delivered <= Len(m.timeline)
    BY <1>2, StreamDrains
  <1>4. /\ delivered \in Nat /\ inFlight \in 0..1 /\ inFlight = 1
        /\ delivered \in m.delivered .. Len(m.timeline)
    BY <1>2, <1>3
  <1> HIDE DEF stream, delivered, inFlight
  <1>5. e \in Mic
    BY <1>2, <1>3, <1>4 DEF Mic
  <1>6. /\ e.stream = stream /\ e.delivered = delivered /\ e.inFlight = inFlight
        /\ e.status = m.status /\ e.live = m.live /\ e.seq = m.seq
        /\ e.buffer = m.buffer /\ e.pausePending = m.pausePending
        /\ e.endReason = m.endReason /\ e.terminalStatus = m.terminalStatus
        /\ e.endEmitted = m.endEmitted /\ e.closed = m.closed
        /\ e.phase = m.phase /\ e.captured = m.captured
        /\ e.timeline = m.timeline
    BY <1>2 DEF Mic
  <1> HIDE DEF e
  <1>7. Phased(e)
    BY <1>1, <1>2, <1>3, <1>6 DEF Sound, Core, Phased
  <1>8. Core(e)
    BY <1>1, <1>2, <1>5, <1>6, <1>7 DEF Sound, Core, Finished, Conserved
  <1>9. Retained(m) # 0
    BY <1>1, <1>2 DEF Retained
  <1>10. Sound(e)
    BY <1>2, <1>6, <1>8, <1>9 DEF Sound, Truthful
  <1>11. Moves(m, e)
    BY <1>1, <1>4, <1>6 DEF Moves
  <1>. QED  BY <1>4, <1>6, <1>10, <1>11 DEF e, stream, delivered, inFlight

\* The worker gives its chunk back; the last one settles a pause.
LEMMA AcknowledgeSound ==
    ASSUME NEW m, Sound(m), m.inFlight = 1
    PROVE  LET e == FinishStop([m EXCEPT !.inFlight = @ - 1])
           IN  Sound(e) /\ Onward(m, e) /\ e.inFlight = 0
  <1> DEFINE inFlight == m.inFlight - 1
             d == [m EXCEPT !.inFlight = inFlight]
  <1>1. m \in Mic /\ inFlight = 0 /\ inFlight \in 0..1
    BY DEF Sound, Core
  <1> HIDE DEF inFlight
  <1>2. /\ d \in Mic /\ d.inFlight = inFlight
        /\ d.status = m.status /\ d.live = m.live /\ d.seq = m.seq
        /\ d.buffer = m.buffer /\ d.pausePending = m.pausePending
        /\ d.endReason = m.endReason /\ d.terminalStatus = m.terminalStatus
        /\ d.endEmitted = m.endEmitted /\ d.closed = m.closed
        /\ d.phase = m.phase /\ d.stream = m.stream /\ d.captured = m.captured
        /\ d.timeline = m.timeline /\ d.delivered = m.delivered
    BY <1>1 DEF Mic
  <1> HIDE DEF d
  <1>3. Core(d)
    BY <1>2 DEF Sound, Core, Phased, Finished, Conserved
  <1>4. Retained(d) = Retained(m)
    BY <1>2 DEF Retained
  <1>5. Sound(d)
    BY <1>1, <1>2, <1>3, <1>4 DEF Sound, Truthful
  <1>6. Len(m.timeline) \in Nat
    BY <1>1 DEF Mic
  <1>7. Onward(m, d)
    BY <1>2, <1>6 DEF Onward
  <1>8. LET e == FinishStop(d)
        IN  Sound(e) /\ Onward(d, e) /\ e.inFlight = d.inFlight
    BY <1>5, FinishStopSound
  <1>9. FinishStop(d) \in Mic
    BY <1>8 DEF Sound, Core
  <1>10. Onward(m, FinishStop(d))
    BY <1>1, <1>2, <1>7, <1>8, <1>9, OnwardTransitive
  <1>. QED  BY <1>1, <1>2, <1>8, <1>10 DEF d, inFlight

-----------------------------------------------------------------------------
(* The actions *)

LEMMA Initially ==
    ASSUME Init
    PROVE  IInv
  <1>1. /\ NewStream(PcmFormat, 0) \in StreamState
        /\ Empty \in [first : 0..MaxUnits, count : 0..ChunkUnits]
        /\ Empty.count = 0 /\ 1 \in 1..MaxGeneration /\ 0 \in 0..MaxUnits
        /\ <<>> \in Seq(Chunk) /\ Len(<<>>) = 0
        /\ "PERMISSION_PENDING" \in Statuses /\ "PREPARING_MODEL" \in Readinesses
    BY StreamStarts, Limits DEF Empty, Statuses, Readinesses
  <1>2. /\ mic.status = "PERMISSION_PENDING" /\ mic.live /\ mic.seq = 0
        /\ mic.buffer = Empty /\ ~mic.pausePending /\ mic.inFlight = 0
        /\ mic.endReason = "none" /\ ~mic.endEmitted /\ ~mic.closed
        /\ mic.phase = "none" /\ mic.captured = 0
        /\ mic.timeline = <<>> /\ mic.delivered = 0
    BY DEF Init
  <1>3. mic \in Mic
    BY <1>1 DEF Init, Mic
  <1>4. Phased(mic)
    BY <1>1, <1>2 DEF Phased, Consecutive, Contiguous
  <1>5. Core(mic)
    BY <1>1, <1>2, <1>3, <1>4 DEF Core, Finished, Conserved, UpTo
  <1>6. Sound(mic)
    BY <1>1, <1>2, <1>5, Limits DEF Sound, Truthful
  <1>7. worker = "loading" /\ cancelled = FALSE /\ resetting = FALSE
        /\ outcome = "running"
    BY DEF Init
  <1>. QED  BY <1>2, <1>6, <1>7 DEF IInv, WorkerHolds, WorkerSteps, Outcomes

\* What has to be shown of a step.
Advances == IInv' /\ Moves(mic, mic')

\* A step of another thread leaves the worker where it is.
LEMMA ThreadAdvances ==
    ASSUME IInv, UNCHANGED worker, outcome' \in Outcomes, cancelled' \in BOOLEAN,
           resetting' \in BOOLEAN,
           Sound(mic'), Moves(mic, mic'), mic'.inFlight = mic.inFlight
    PROVE  Advances
  BY DEF IInv, WorkerHolds, Advances

LEMMA StartCallAdvances ==
    ASSUME IInv, StartCall  PROVE Advances
  <1>1. Sound(mic) /\ Startable(mic) /\ mic' = StartCapture(mic)
    BY DEF IInv, StartCall
  <1>2. /\ Sound(mic') /\ mic'.phase = "active"
        /\ mic'.inFlight = mic.inFlight
        /\ mic'.timeline = mic.timeline /\ mic'.delivered = mic.delivered
        /\ mic.phase \in {"none", "active"}
    BY <1>1, StartCaptureSound
  <1>3. Len(mic.timeline) \in Nat /\ mic.phase = "none" => mic.delivered = 0
    BY <1>1 DEF Sound, Core, Mic, Phased
  <1>4. Moves(mic, mic')
    BY <1>1, <1>2, <1>3 DEF Moves, Onward, Sound, Core, Mic
  <1>. QED  BY <1>2, <1>4, ThreadAdvances DEF StartCall, Threads, IInv

LEMMA AcceptFrameAdvances ==
    ASSUME IInv, NEW n \in 0..ChunkUnits, AcceptFrame(n)  PROVE Advances
  <1> DEFINE m == IF Startable(mic) THEN StartCapture(mic) ELSE mic
             a == AppendPcm(m, n)
             e == [a EXCEPT !.status = IF a.live THEN "STREAMING" ELSE @]
  <1>1. /\ Sound(mic) /\ mic.live /\ ~mic.closed
        /\ m.status \in {"READY", "STREAMING"}
        /\ mic.captured + n <= MaxUnits /\ mic' = e
    BY DEF IInv, AcceptFrame
  <1>2. mic \in Mic /\ Len(mic.timeline) \in Nat
        /\ (mic.phase = "none" => mic.delivered = 0)
    BY <1>1 DEF Sound, Core, Mic, Phased
  <1>3. /\ Sound(m) /\ m.phase = "active" /\ m.live /\ ~m.closed
        /\ m.captured = mic.captured /\ m.inFlight = mic.inFlight
        /\ m.timeline = mic.timeline /\ m.delivered = mic.delivered
        /\ mic.phase \in {"none", "active"}
        /\ mic.phase = "none" => Len(m.stream.queue) = 0
    <2>1. CASE Startable(mic)
      BY <1>1, <2>1, StartCaptureSound
    <2>2. CASE ~Startable(mic)
      BY <1>1, <2>2 DEF Sound, Truthful
    <2>. QED  BY <2>1, <2>2
  <1> HIDE DEF m
  <1>4. /\ Sound(e) /\ Onward(m, e) /\ e.inFlight = m.inFlight
        /\ Len(m.stream.queue) = 0 => e.phase = "active"
    BY <1>1, <1>3, CaptureSound
  <1> HIDE DEF e
  <1>5. Moves(mic, e)
    BY <1>2, <1>3, <1>4 DEF Moves, Onward
  <1>. QED  BY <1>1, <1>3, <1>4, <1>5, ThreadAdvances DEF AcceptFrame, Threads, IInv

LEMMA MarkReconnectingAdvances ==
    ASSUME IInv, MarkReconnecting  PROVE Advances
  <1>1. Sound(mic') /\ Onward(mic, mic') /\ mic'.inFlight = mic.inFlight
    BY ReconnectSound DEF IInv, MarkReconnecting
  <1>. QED  BY <1>1, ThreadAdvances DEF MarkReconnecting, Threads, IInv, Moves

\* The resampler holds a rest of a live capture of an open stream only.
LEMMA FlushableFlushes ==
    ASSUME NEW m, Sound(m), ~m.closed, NEW n \in Flushable(m)
    PROVE  Flushes(m, n)
  <1>1. m.captured \in 0..MaxUnits
    BY DEF Sound, Core, Mic
  <1>2. CASE m.live /\ m.status \in {"STREAMING", "RECONNECTING"}
    <2>1. m.phase = "active"
      BY <1>2 DEF Sound, Truthful
    <2>2. n \in 0..ChunkUnits /\ m.captured + n <= MaxUnits
      BY <1>1, <1>2, Limits DEF Flushable
    <2>. QED  BY <1>2, <2>1, <2>2 DEF Flushes
  <1>3. CASE ~(m.live /\ m.status \in {"STREAMING", "RECONNECTING"})
    <2>1. n = 0
      BY <1>3 DEF Flushable
    <2>. QED  BY <1>1, <2>1, Limits DEF Flushes
  <1>. QED  BY <1>2, <1>3

LEMMA PauseCaptureAdvances ==
    ASSUME IInv, PauseCapture  PROVE Advances
  <1>1. Sound(mic) /\ ~mic.closed /\ mic.live
    BY DEF IInv, PauseCapture
  <1>2. PICK flushed \in Nat, fails \in BOOLEAN :
            Flushes(mic, flushed) /\ mic' = StopCapture(mic, flushed, fails)
    <2>1. CASE \E flushed \in Flushable(mic) :
                   mic' = StopCapture(mic, flushed, FALSE)
      <3>1. PICK flushed \in Flushable(mic) :
                mic' = StopCapture(mic, flushed, FALSE)
        BY <2>1
      <3>2. Flushes(mic, flushed)
        BY <1>1, FlushableFlushes
      <3>3. flushed \in Nat
        BY <3>2 DEF Flushes
      <3>. QED  BY <3>1, <3>2, <3>3
    <2>2. CASE mic' = StopCapture(mic, 0, TRUE)
      <3>1. Flushes(mic, 0)
        BY <1>1, Limits DEF Flushes, Sound, Core, Mic
      <3>. QED  BY <2>2, <3>1
    <2>. QED  BY <2>1, <2>2 DEF PauseCapture
  <1>3. Sound(mic') /\ Onward(mic, mic') /\ mic'.inFlight = mic.inFlight
    BY <1>1, <1>2, StopCaptureSound
  <1>. QED  BY <1>3, ThreadAdvances DEF PauseCapture, Threads, IInv, Moves

LEMMA ResumeCaptureAdvances ==
    ASSUME IInv, ResumeCapture  PROVE Advances
  <1>1. Sound(mic') /\ Onward(mic, mic') /\ mic'.inFlight = mic.inFlight
    BY ResumeSound DEF IInv, ResumeCapture
  <1>. QED  BY <1>1, ThreadAdvances DEF ResumeCapture, Threads, IInv, Moves

LEMMA FinishCallAdvances ==
    ASSUME IInv, FinishCall  PROVE Advances
  <1>1. Sound(mic) /\ ~mic.closed /\ mic.endReason = "none"
    BY DEF IInv, FinishCall
  <1>2. Sound(mic') /\ Onward(mic, mic') /\ mic'.inFlight = mic.inFlight
    <2>1. CASE mic' = Cancel(mic, "FAILED") \/ mic' = Cancel(mic, "COMPLETED")
      BY <1>1, <2>1, CancelSound
    <2>2. CASE /\ mic.phase = "active"
               /\ \E flushed \in Flushable(mic) : mic' = RequestEnd(mic, flushed)
      <3>1. PICK flushed : Flushes(mic, flushed) /\ mic' = RequestEnd(mic, flushed)
        BY <1>1, <2>2, FlushableFlushes
      <3>. QED  BY <1>1, <2>2, <3>1, RequestEndSound
    <2>. QED  BY <2>1, <2>2 DEF FinishCall
  <1>. QED  BY <1>2, ThreadAdvances DEF FinishCall, Threads, IInv, Moves

LEMMA ResetCallAdvances ==
    ASSUME IInv, ResetCall  PROVE Advances
  <1>1. Sound(mic') /\ Onward(mic, mic') /\ mic'.inFlight = mic.inFlight
    BY CancelSound DEF IInv, ResetCall
  <1>. QED  BY <1>1, ThreadAdvances DEF ResetCall, IInv, Moves

LEMMA CancelWorkerAdvances ==
    ASSUME IInv, CancelWorker  PROVE Advances
  <1>1. mic \in Mic
    BY DEF IInv, Sound, Core
  <1>2. Sound(mic') /\ mic' = mic
    BY DEF IInv, CancelWorker
  <1>3. Onward(mic, mic')
    BY <1>1, <1>2, StaysOnward DEF SameAudio
  <1>. QED  BY <1>2, <1>3, ThreadAdvances DEF CancelWorker, IInv, Moves

\* A step of the worker that leaves the session's chunk in its hands.
LEMMA WorkerAdvances ==
    ASSUME IInv, cancelled' = cancelled, resetting' = resetting,
           worker' \in WorkerSteps, outcome' \in Outcomes,
           Sound(mic'), Onward(mic, mic'), mic'.inFlight = mic.inFlight,
           worker' \in {"loading", "warming", "starting", "waiting"} =>
               worker \in {"loading", "warming", "starting", "waiting"},
           worker' # "processing"
    PROVE  Advances
  BY DEF IInv, WorkerHolds, Advances, Moves

\* A step of the worker that does not touch the session.
LEMMA WorkerIdles ==
    ASSUME IInv, mic' = mic
    PROVE  Sound(mic') /\ Onward(mic, mic') /\ mic'.inFlight = mic.inFlight
  <1>1. mic \in Mic
    BY DEF IInv, Sound, Core
  <1>2. Onward(mic, mic')
    BY <1>1, StaysOnward DEF SameAudio
  <1>. QED  BY <1>2 DEF IInv

LEMMA PrepareAdvances ==
    ASSUME IInv, NEW from \in {"loading", "warming"}, NEW to \in Readinesses,
           NEW next \in {"warming", "starting"}, Prepare(from, to, next)
    PROVE  Advances
  <1>1. Sound(mic') /\ Onward(mic, mic') /\ mic'.inFlight = mic.inFlight
    <2>1. CASE mic' = [mic EXCEPT !.readiness = to]
      BY <2>1, ReadinessSound DEF IInv
    <2>2. CASE mic' = mic
      BY <2>2, WorkerIdles
    <2>. QED  BY <2>1, <2>2 DEF Prepare
  <1>2. /\ worker = from /\ worker' \in {next, "excepting"}
        /\ cancelled' = cancelled /\ resetting' = resetting /\ outcome' = outcome
    BY DEF Prepare
  <1>. QED  BY <1>1, <1>2, WorkerAdvances DEF IInv, WorkerSteps

LEMMA RunLiveAdvances ==
    ASSUME IInv, RunLive  PROVE Advances
  <1>1. /\ worker = "starting" /\ worker' \in {"waiting", "excepting"}
        /\ mic' = mic /\ cancelled' = cancelled
        /\ resetting' = resetting /\ outcome' = outcome
    BY DEF RunLive, Session
  <1>. QED  BY <1>1, WorkerIdles, WorkerAdvances DEF IInv, WorkerSteps

LEMMA TakeChunkAdvances ==
    ASSUME IInv, TakeChunk  PROVE Advances
  <1>1. Sound(mic) /\ mic.inFlight = 0 /\ Retained(mic) > 0
    BY DEF IInv, WorkerHolds, TakeChunk
  <1>2. Sound(mic') /\ Moves(mic, mic') /\ mic'.inFlight = 1
    BY <1>1, TakeChunkSound DEF TakeChunk
  <1>3. worker' = "processing" /\ UNCHANGED <<cancelled, resetting, outcome>>
    BY DEF TakeChunk
  <1>. QED  BY <1>2, <1>3 DEF IInv, WorkerHolds, WorkerSteps, Advances

LEMMA EndOfAudioAdvances ==
    ASSUME IInv, EndOfAudio  PROVE Advances
  <1>1. Sound(mic') /\ Onward(mic, mic') /\ mic'.inFlight = mic.inFlight
    <2>1. CASE mic' = Cancel(mic, "RESOURCE_CLOSED")
      BY <2>1, CancelSound DEF IInv
    <2>2. CASE /\ Retained(mic) = 0 /\ mic.endReason # "none"
               /\ mic' = EmitEnd(mic)
      BY <2>2, EmitEndSound DEF IInv
    <2>. QED  BY <2>1, <2>2 DEF EndOfAudio
  <1>2. /\ worker' = "finishing" /\ cancelled' = cancelled
        /\ resetting' = resetting /\ outcome' = outcome
    BY DEF EndOfAudio
  <1>. QED  BY <1>1, <1>2, WorkerAdvances DEF IInv, WorkerSteps

LEMMA AcknowledgeAdvances ==
    ASSUME IInv, Acknowledge  PROVE Advances
  <1>1. /\ Sound(mic) /\ mic.inFlight = 1
        /\ cancelled' = cancelled /\ resetting' = resetting /\ outcome' = outcome
    BY DEF IInv, WorkerHolds, Acknowledge
  <1>2. CASE mic' = mic /\ worker' = "excepting"
    BY <1>1, <1>2, WorkerIdles, WorkerAdvances DEF IInv, WorkerSteps
  <1>3. CASE /\ mic' = FinishStop([mic EXCEPT !.inFlight = @ - 1])
             /\ worker' = "waiting"
    <2>1. Sound(mic') /\ Onward(mic, mic') /\ mic'.inFlight = 0
      BY <1>1, <1>3, AcknowledgeSound
    <2>. QED
      BY <1>1, <1>3, <2>1 DEF IInv, WorkerHolds, WorkerSteps, Advances, Moves
  <1>. QED  BY <1>2, <1>3 DEF Acknowledge

\* The worker leaves its loop, or goes on to report.
LEMMA LeavingAdvances ==
    ASSUME IInv, BreakOff \/ WorkerRaises \/ RecordFinal  PROVE Advances
  <1>1. /\ worker' \in {"finishing", "excepting", "reporting"}
        /\ mic' = mic /\ cancelled' = cancelled
        /\ resetting' = resetting /\ outcome' = outcome
    BY DEF BreakOff, WorkerRaises, RecordFinal, Session
  <1>. QED  BY <1>1, WorkerIdles, WorkerAdvances DEF IInv, WorkerSteps

LEMMA ReportAdvances ==
    ASSUME IInv, Report  PROVE Advances
  <1>1. /\ worker' = "stopped" /\ mic' = mic
        /\ cancelled' = cancelled /\ resetting' = resetting
    BY DEF Report, Stop
  <1>2. outcome' \in Outcomes
    <2>1. cancelled \in BOOLEAN
      BY DEF IInv
    <2>2. CASE cancelled
      BY <2>2 DEF Report, Stop, Outcomes
    <2>3. CASE ~cancelled /\ mic.status = "OVERLOADED"
      BY <2>3 DEF Report, Stop, Outcomes
    <2>4. CASE ~cancelled /\ mic.status = "FAILED"
      BY <2>4 DEF Report, Stop, Outcomes
    <2>5. CASE ~cancelled /\ mic.status \notin {"OVERLOADED", "FAILED"}
      BY <2>5 DEF Report, Stop, Outcomes
    <2>. QED  BY <2>1, <2>2, <2>3, <2>4, <2>5
  <1>. QED  BY <1>1, <1>2, WorkerIdles, WorkerAdvances DEF WorkerSteps

LEMMA HandleExceptionAdvances ==
    ASSUME IInv, HandleException  PROVE Advances
  <1>1. /\ worker' \in {"stopped", "failing"} /\ outcome' \in Outcomes
        /\ cancelled' = cancelled /\ resetting' = resetting
    BY DEF HandleException, Stop, Outcomes
  <1>2. Sound(mic') /\ Onward(mic, mic') /\ mic'.inFlight = mic.inFlight
    <2>1. CASE mic' = Cancel(mic, "RESOURCE_CLOSED")
      BY <2>1, CancelSound DEF IInv
    <2>2. CASE mic' = mic
      BY <2>2, WorkerIdles
    <2>3. CASE mic' = [mic EXCEPT !.readiness = "FAILED"]
      BY <2>3, ReadinessSound DEF IInv, Readinesses
    <2>. QED  BY <2>1, <2>2, <2>3 DEF HandleException
  <1>. QED  BY <1>1, <1>2, WorkerAdvances DEF WorkerSteps

LEMMA FailSessionAdvances ==
    ASSUME IInv, FailSession  PROVE Advances
  <1>1. Sound(mic') /\ Onward(mic, mic') /\ mic'.inFlight = mic.inFlight
    BY CancelSound DEF IInv, FailSession
  <1>2. /\ worker' = "stopped" /\ outcome' = outcome
        /\ cancelled' = cancelled /\ resetting' = resetting
    BY DEF FailSession, Stop
  <1>. QED  BY <1>1, <1>2, WorkerAdvances DEF IInv, WorkerSteps

\* Every step of the session and of the threads around it.
LEMMA StepAdvances ==
    ASSUME IInv, [Next]_vars  PROVE Advances
  <1>1. CASE StartCall
    BY <1>1, StartCallAdvances
  <1>2. CASE \E n \in 0..ChunkUnits : AcceptFrame(n)
    BY <1>2, AcceptFrameAdvances
  <1>3. CASE MarkReconnecting
    BY <1>3, MarkReconnectingAdvances
  <1>4. CASE PauseCapture
    BY <1>4, PauseCaptureAdvances
  <1>5. CASE ResumeCapture
    BY <1>5, ResumeCaptureAdvances
  <1>6. CASE FinishCall
    BY <1>6, FinishCallAdvances
  <1>7. CASE ResetCall
    BY <1>7, ResetCallAdvances
  <1>8. CASE CancelWorker
    BY <1>8, CancelWorkerAdvances
  <1>9. CASE WarmUp
    BY <1>9, PrepareAdvances DEF WarmUp, Readinesses
  <1>10. CASE OfferCapture
    BY <1>10, PrepareAdvances DEF OfferCapture, Readinesses
  <1>11. CASE RunLive
    BY <1>11, RunLiveAdvances
  <1>12. CASE TakeChunk
    BY <1>12, TakeChunkAdvances
  <1>13. CASE EndOfAudio
    BY <1>13, EndOfAudioAdvances
  <1>14. CASE Acknowledge
    BY <1>14, AcknowledgeAdvances
  <1>15. CASE BreakOff \/ WorkerRaises \/ RecordFinal
    BY <1>15, LeavingAdvances
  <1>16. CASE Report
    BY <1>16, ReportAdvances
  <1>17. CASE HandleException
    BY <1>17, HandleExceptionAdvances
  <1>18. CASE FailSession
    BY <1>18, FailSessionAdvances
  <1>19. CASE UNCHANGED vars
    <2>1. UNCHANGED <<mic, worker, cancelled, resetting, outcome>>
      BY <1>19 DEF vars
    <2>. QED  BY <2>1, WorkerIdles, ThreadAdvances DEF IInv, Moves
  <1>. QED
    BY <1>1, <1>2, <1>3, <1>4, <1>5, <1>6, <1>7, <1>8, <1>9, <1>10, <1>11,
       <1>12, <1>13, <1>14, <1>15, <1>16, <1>17, <1>18, <1>19
       DEF Next, WorkerProgress

-----------------------------------------------------------------------------
(* What the invariant says of the session *)

LEMMA Types ==
    ASSUME IInv  PROVE TypeOK
  <1>1. mic \in Mic /\ mic.delivered <= Len(mic.timeline)
    BY DEF IInv, Sound, Core, Phased
  <1>2. mic.delivered \in 0 .. Len(mic.timeline)
    BY <1>1 DEF Mic
  <1>. QED  BY <1>1, <1>2 DEF Mic, TypeOK, IInv

LEMMA Agreement ==
    ASSUME IInv  PROVE NumbersAgree
  BY Types DEF IInv, Sound, Core, Phased, NumbersAgree

LEMMA Conservation ==
    ASSUME IInv  PROVE AudioIsConserved
  <1>1. AdmittedUpTo = UpTo(mic.timeline)
    BY DEF AdmittedUpTo, UpTo
  <1>. QED
    BY <1>1 DEF IInv, Sound, Core, Phased, Finished, Conserved, Consecutive,
                AudioIsConserved

LEMMA Truth ==
    ASSUME IInv  PROVE StatusIsTruthful
  BY DEF IInv, Sound, Truthful, StatusIsTruthful

\* The session's timeline is what the abstract call expects of one.
LEMMA GapFree ==
    ASSUME NEW m, Sound(m)  PROVE Delivery!GapFree(m.timeline)
  BY DEF Sound, Core, Phased, Contiguous, Delivery!GapFree, Delivery!Follows

\* Every move of the session is a step of the abstract call.
LEMMA StepDelivers ==
    ASSUME IInv, IInv', Moves(mic, mic')
    PROVE  [Delivery!Next]_(Delivery!vars)
  <1>1. mic \in Mic /\ mic' \in Mic
    BY DEF IInv, Sound, Core
  <1>2. /\ mic.phase \in {"none", "active", "ended", "cancelled"}
        /\ mic'.phase \in {"none", "active", "ended", "cancelled"}
        /\ mic.timeline \in Seq(Chunk)
    BY <1>1 DEF Mic
  <1>3. Delivery!GapFree(mic'.timeline)
    BY GapFree DEF IInv
  <1>4. CASE mic.phase = "none" /\ mic'.phase = "active" /\ mic'.delivered = 0
    BY <1>3, <1>4 DEF Delivery!Open, Delivery!Next
  <1>5. CASE Onward(mic, mic') /\ mic.phase = "active"
    <2>1. Delivery!Extends(mic'.timeline, mic.timeline)
      BY <1>2, <1>5 DEF Onward, Delivery!Extends
    <2>2. mic'.phase \in {"active", "ended", "cancelled"}
      BY <1>2, <1>5 DEF Onward
    <2>. QED
      BY <1>3, <1>5, <2>1, <2>2 DEF Onward, Delivery!Admit, Delivery!Next
  <1>6. CASE Onward(mic, mic') /\ mic.phase # "active"
    BY <1>2, <1>6 DEF Onward, Delivery!vars
  <1>7. CASE /\ mic.phase = "active" /\ mic'.phase = "active"
             /\ mic'.timeline = mic.timeline
             /\ mic'.delivered \in mic.delivered .. Len(mic.timeline)
    BY <1>7 DEF Delivery!Deliver, Delivery!Next
  <1>. QED  BY <1>4, <1>5, <1>6, <1>7 DEF Moves

-----------------------------------------------------------------------------
(* The theorems *)

\* The inductive invariant holds in every state, whichever thread moves.
THEOREM Inductive == Spec => []IInv
  <1>1. Init => IInv
    BY Initially
  <1>2. IInv /\ [Next]_vars => IInv'
    BY StepAdvances DEF Advances
  <1>. QED  BY <1>1, <1>2, PTL DEF Spec

\* Whatever the threads do to the session (local_microphone.py), its counters
\* and the boundary's agree, so the END it owes is never rejected.
THEOREM CountersAgree == Spec => []NumbersAgree
  <1>1. IInv => NumbersAgree
    BY Agreement
  <1>. QED  BY <1>1, Inductive, PTL

\* No pause, resume, reconnect or finish loses or replays a unit of audio.
THEOREM ConservesAudio == Spec => []AudioIsConserved
  <1>1. IInv => AudioIsConserved
    BY Conservation
  <1>. QED  BY <1>1, Inductive, PTL

\* The status an open session shows is true of its audio and its capture.
THEOREM ShowsTheTruth == Spec => []StatusIsTruthful
  <1>1. IInv => StatusIsTruthful
    BY Truth
  <1>. QED  BY <1>1, Inductive, PTL

\* The session implements CallAudioDelivery: the worker is handed a growing
\* prefix of one gap-free timeline, whatever the control operations do.
THEOREM ImplementsDelivery == Spec => DeliversTheCall
  <1>1. Init => Delivery!Init
    BY DEF Init, Delivery!Init
  <1>2. IInv /\ IInv' /\ [Next]_vars => [Delivery!Next]_(Delivery!vars)
    BY StepAdvances, StepDelivers DEF Advances
  <1>. QED
    BY <1>1, <1>2, Inductive, PTL DEF Spec, DeliversTheCall, Delivery!Spec

=============================================================================
