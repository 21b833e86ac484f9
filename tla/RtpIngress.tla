------------------------------- MODULE RtpIngress -------------------------------
(***************************************************************************)
(* RTPMediaIngressAdapter of app/audio_ingress/rtp.py: one RTP source of a *)
(* call at a time, whose packets arrive late, twice, out of order or not   *)
(* at all, is turned into gap-free audio chunks.                           *)
(*                                                                         *)
(* Sequence numbers are kept modulo Modulus (2^16 in the code), timestamps *)
(* modulo TimestampModulus (2^32).  Each packet carries its index in the   *)
(* source's stream, which only the properties may look at.  Audio is       *)
(* counted in samples of the source, time in ticks.  The adapter is called *)
(* by one thread, so a call is one step.                                   *)
(***************************************************************************)
EXTENDS Integers, Sequences, FiniteSets

CONSTANTS
    Modulus,            \* RTP_SEQUENCE_MODULUS
    TimestampModulus,   \* RTP_TIMESTAMP_MODULUS
    FirstSequence,      \* initial_sequence_number of every source
    FirstTimestamp,     \* initial_rtp_timestamp of every source
    PacketSamples,      \* samples_per_packet
    ChunkSamples,       \* OUTPUT_CHUNK_BYTES, in samples of the source
    MaxReorder,         \* max_reorder_packets
    MaxWait,            \* max_jitter_wait_seconds
    MaxOutput,          \* max_output_chunks
    HistoryLimit,       \* duplicate_history_limit
    MaxGeneration,      \* bound on the source generations
    MaxIndex,           \* bound on the packets of each generation's source
    Retimable,          \* packets that may also come with a wrong timestamp
    MaxTime             \* bound on the arrival times

ASSUME RtpAssumption ==
    /\ Modulus \in Nat /\ TimestampModulus \in Nat \ {0}
    /\ FirstSequence \in 0 .. Modulus - 1
    /\ FirstTimestamp \in 0 .. TimestampModulus - 1
    /\ PacketSamples \in Nat \ {0} /\ ChunkSamples \in Nat \ {0}
    /\ MaxReorder \in Nat \ {0} /\ 2 * MaxReorder < Modulus
    /\ MaxWait \in Nat /\ MaxOutput \in Nat \ {0}
    /\ HistoryLimit \in Nat \ {0}
    /\ MaxGeneration \in Nat /\ MaxTime \in Nat
    \* True of the defaults; without it a new packet could meet its own number
    \* of the last lap in the duplicate history.
    /\ HistoryLimit * (MaxReorder + 1) + MaxReorder < Modulus
    /\ MaxIndex \in [1 .. MaxGeneration -> Nat] /\ Retimable \subseteq Nat

Generations == 1 .. MaxGeneration
Times == 0 .. MaxTime
NoGap == -1

\* A packet as it was sent, or with a wrong timestamp.
Indices == UNION {0 .. MaxIndex[g] : g \in Generations}
Packets == {p \in [index : Indices, retimed : BOOLEAN] :
               p.retimed => p.index \in Retimable}

SampleCounts == 1 .. ChunkSamples
ChunkDuration == [n \in SampleCounts |-> n]

VARIABLES
    phase,      \* "none", "active", "ended" or "failed"
    source,     \* _active, or _completed once it is over
    highest,    \* _highest_source_generation, 0 for none
    reply,      \* reason of the last acceptance, or "drained"
    timeline,   \* history: chunks emitted by each generation started so far
    delivered   \* history: how many of them were drained

vars == <<phase, source, highest, reply, timeline, delivered>>

-----------------------------------------------------------------------------
(* Modular arithmetic of the wire formats *)

AdvanceSequence(sequence, count) == (sequence + count) % Modulus
AdvanceTimestamp(timestamp, samples) == (timestamp + samples) % TimestampModulus

\* Mutant of Distance: a number behind the expected one looks ahead of it.
DistanceAbsolute(sequence, expected) ==
    IF sequence >= expected THEN sequence - expected ELSE expected - sequence

Distance(sequence, expected) == (sequence - expected) % Modulus

SequenceOf(p) == (FirstSequence + p.index) % Modulus
TimestampOf(p) == AdvanceTimestamp(FirstTimestamp,
                      p.index * PacketSamples + IF p.retimed THEN 1 ELSE 0)

-----------------------------------------------------------------------------
(* The record _ActiveRTPSource and what the private methods do to it.  A    *)
(* method that fails says so in the field "failure"; the record is then     *)
(* discarded by _fail and nothing else of it matters.                       *)

NewSource(generation, time) ==
    [generation |-> generation,
     expected   |-> FirstSequence,
     timestamp  |-> FirstTimestamp,
     last       |-> time,
     buffer     |-> {},      \* packet_buffer
     prints     |-> {},      \* packet_fingerprints, with their order
     pcm        |-> 0,       \* samples in pcm_buffer
     queue      |-> <<>>,    \* output_queue
     gap        |-> NoGap,   \* gap_started_monotonic_seconds
     accepted   |-> 0,
     missing    |-> 0,
     emitted    |-> 0,       \* emitted_sample_count
     chunks     |-> 0,       \* emitted_chunk_count
     position   |-> 0,       \* history: index of the expected packet
     failure    |-> "none"]

Offsets(s) == {Distance(SequenceOf(p), s.expected) : p \in s.buffer}
AtOffset(s, d) ==
    CHOOSE p \in s.buffer : Distance(SequenceOf(p), s.expected) = d

Least(S) == CHOOSE n \in S : \A m \in S : n <= m

\* Chunks that n more samples complete, and whether the queue can take them.
Completed(s, n) == (s.pcm + n) \div ChunkSamples
Overflows(s, n) == Len(s.queue) + Completed(s, n) > MaxOutput

ChunkAt(s, k, n) == [seq     |-> s.chunks + k - 1,
                     payload |-> n,
                     start   |-> s.emitted + (k - 1) * ChunkSamples]

\* pcm_buffer.extend and _emit_complete_chunks, when the queue has room.
EmitSamples(s, n) ==
    LET k == Completed(s, n)
    IN  [s EXCEPT !.queue   = @ \o [i \in 1..k |-> ChunkAt(s, i, ChunkSamples)],
                  !.chunks  = @ + k,
                  !.emitted = @ + k * ChunkSamples,
                  !.pcm     = (@ + n) % ChunkSamples]

\* Packets that follow on from the expected one without a gap.
RunLength(s) == Least((0 .. Cardinality(s.buffer)) \ Offsets(s))

\* The first packet of the run that _drain_contiguous cannot take.
Obstacles(s) ==
    {d \in 0 .. RunLength(s) - 1 :
        \/ TimestampOf(AtOffset(s, d)) #
              AdvanceTimestamp(s.timestamp, d * PacketSamples)
        \/ Overflows(s, (d + 1) * PacketSamples)}

DrainFailure(s) ==
    LET d == Least(Obstacles(s))
    IN  IF TimestampOf(AtOffset(s, d)) #
              AdvanceTimestamp(s.timestamp, d * PacketSamples)
        THEN "rtp_timestamp_mismatch"
        ELSE "output_queue_full"

DrainContiguous(s) ==
    LET n == RunLength(s)
        rest == {p \in s.buffer : Distance(SequenceOf(p), s.expected) >= n}
    IN  IF Obstacles(s) # {} THEN [s EXCEPT !.failure = DrainFailure(s)]
        ELSE [EmitSamples(s, n * PacketSamples) EXCEPT
                 !.buffer    = rest,
                 !.expected  = AdvanceSequence(@, n),
                 !.timestamp = AdvanceTimestamp(@, n * PacketSamples),
                 !.position  = @ + n,
                 !.gap       = IF rest = {} THEN NoGap
                               ELSE IF @ = NoGap THEN s.last ELSE @]

\* Mutant of SkipGap: a gap counts as one lost packet.
SkipCountingGaps(s, now) ==
    LET n == Least(Offsets(s))
    IN  [EmitSamples(s, n * PacketSamples) EXCEPT
            !.missing = @ + 1, !.expected = AdvanceSequence(@, n),
            !.timestamp = AdvanceTimestamp(@, n * PacketSamples),
            !.position = @ + n, !.gap = now]

\* The missing packets up to the nearest buffered one are replaced by silence.
SkipGap(s, now) ==
    LET n == Least(Offsets(s))
    IN  IF n > MaxReorder THEN [s EXCEPT !.failure = "reorder_window_exceeded"]
        ELSE IF Overflows(s, n * PacketSamples)
        THEN [s EXCEPT !.failure = "output_queue_full"]
        ELSE [EmitSamples(s, n * PacketSamples) EXCEPT
                 !.missing   = @ + n,
                 !.expected  = AdvanceSequence(@, n),
                 !.timestamp = AdvanceTimestamp(@, n * PacketSamples),
                 !.position  = @ + n,
                 !.gap       = now]

\* One turn of the loop of _expire_gap.
ExpireTurn(s, now, force) ==
    IF s.failure # "none" \/ s.buffer = {} THEN s
    ELSE IF 0 \in Offsets(s) THEN DrainContiguous(s)
    ELSE IF ~force /\ (s.gap = NoGap \/ now - s.gap < MaxWait) THEN s
    ELSE SkipGap(s, now)

\* Each turn takes a gap or a run away, so the buffer bounds their number.
ExpireGap(s, now, force) ==
    LET turn[n \in 0 .. 2 * Cardinality(s.buffer)] ==
            IF n = 0 THEN s ELSE ExpireTurn(turn[n-1], now, force)
    IN  turn[2 * Cardinality(s.buffer)]

\* Oldest first, but never of a packet that is still buffered.
TrimHistory(prints, buffer) ==
    LET idle == {e \in prints : e.packet \notin buffer}
        age(e) == Cardinality({f \in idle : f.order <= e.order})
    IN  {e \in prints : e \in idle =>
                            age(e) > Cardinality(prints) - HistoryLimit}

-----------------------------------------------------------------------------
(* Calls *)

Init == /\ phase = "none"
        /\ source = NewSource(0, 0)
        /\ highest = 0
        /\ reply = "none"
        /\ timeline = [g \in {} |-> <<>>]
        /\ delivered = [g \in {} |-> 0]

Refuse(reason) == /\ reply' = reason
                  /\ UNCHANGED <<phase, source, highest, timeline, delivered>>

\* _initialize: nothing of the previous source is kept.
Initialize(generation, time) ==
    /\ phase' = "active"
    /\ source' = NewSource(generation, time)
    /\ highest' = generation
    /\ reply' = "started"
    /\ timeline' = [g \in DOMAIN timeline \cup {generation} |->
                       IF g = generation THEN <<>> ELSE timeline[g]]
    /\ delivered' = [g \in DOMAIN delivered \cup {generation} |->
                        IF g = generation THEN 0 ELSE delivered[g]]

Start(generation) ==
    \/ /\ phase = "active"
       /\ Refuse("active_source_exists")
    \/ /\ phase # "active" /\ generation <= highest
       /\ Refuse("stale_source_generation")
    \/ /\ phase # "active" /\ generation > highest
       /\ \E time \in Times : Initialize(generation, time)

ReplaceSource(generation) ==
    \/ generation <= highest /\ Refuse("stale_source_generation")
    \/ /\ generation > highest
       /\ \E time \in Times : Initialize(generation, time)

\* Mutant of Fail: what was already emitted stays in the queue.
FailKeepingOutput(reason) ==
    /\ phase' = "failed"
    /\ source' = [source EXCEPT !.buffer = {}, !.prints = {}, !.pcm = 0]
    /\ reply' = reason
    /\ UNCHANGED <<highest, timeline, delivered>>

\* _fail: the source is given up and its audio released.
Fail(reason) ==
    /\ phase' = "failed"
    /\ source' = [source EXCEPT !.buffer = {}, !.prints = {}, !.pcm = 0,
                                !.queue = <<>>]
    /\ reply' = reason
    /\ UNCHANGED <<highest, timeline, delivered>>

\* The source goes on with the record s, whose new chunks join the timeline.
Proceed(s, nextPhase, reason) ==
    LET new == SubSeq(s.queue, Len(source.queue) + 1, Len(s.queue))
    IN  /\ phase' = nextPhase
        /\ source' = s
        /\ reply' = reason
        /\ timeline' = [timeline EXCEPT ![s.generation] = @ \o new]
        /\ UNCHANGED <<highest, delivered>>

\* Scope, format, SSRC, payload size or generation do not fit the source, or
\* no source is active.
PacketMismatch ==
    \/ phase # "active" /\ Refuse("start_required")
    \/ phase = "active" /\ Refuse("packet_mismatch")

Remembered(s) == {e.packet : e \in s.prints}

Known(s, p) == {q \in s.buffer \cup Remembered(s) :
                   SequenceOf(q) = SequenceOf(p)}

\* Why a packet that came in time is not taken.
PacketRefusal(s, p) ==
    LET d == Distance(SequenceOf(p), s.expected)
    IN  CASE p \in Known(s, p)                            -> "exact_duplicate"
          [] p \notin Known(s, p) /\ Known(s, p) # {}     -> "conflicting_duplicate"
          [] Known(s, p) = {} /\ d >= Modulus \div 2      -> "stale_sequence"
          [] Known(s, p) = {} /\ d > MaxReorder
                              /\ d < Modulus \div 2
                                                -> "reorder_window_exceeded"
          [] Known(s, p) = {} /\ d <= MaxReorder          -> "none"

\* The packet is buffered and remembered; a gap in front of it starts to run.
BufferPacket(s, p, time) ==
    LET buffer == s.buffer \cup {p}
    IN  [s EXCEPT !.buffer   = buffer,
                  !.prints   = TrimHistory(
                      @ \cup {[order |-> s.accepted + 1, packet |-> p]}, buffer),
                  !.accepted = @ + 1,
                  !.last     = time,
                  !.gap      = IF SequenceOf(p) # s.expected /\ @ = NoGap
                               THEN time ELSE @]

\* Bound of the environment: no packet is half the number space off.
Plausible(p) == /\ p.index <= MaxIndex[source.generation]
                /\ p.index >= source.position - Modulus \div 2
                /\ p.index < source.position + Modulus \div 2

AcceptPacket(p, time) ==
    LET drained == DrainContiguous(BufferPacket(source, p, time))
        s == IF drained.failure = "none"
             THEN ExpireGap(drained, time, FALSE) ELSE drained
    IN  \/ s.failure # "none" /\ Fail(s.failure)
        \/ /\ s.failure = "none"
           /\ Proceed(s, "active", IF p \in s.buffer THEN "packet_buffered"
                                                     ELSE "packet_accepted")

\* accept_packet
Packet(p) ==
    /\ phase = "active"
    /\ Plausible(p)
    /\ \/ /\ PacketRefusal(source, p) # "none"
          /\ Refuse(PacketRefusal(source, p))
       \/ /\ PacketRefusal(source, p) = "none"
          /\ \E time \in source.last .. MaxTime : AcceptPacket(p, time)

\* A packet, a clock tick or an END that is older than the last arrival.
TimeRegression == /\ phase = "active" /\ source.last > 0
                  /\ Refuse("arrival_time_regression")

\* advance
AdvanceClock ==
    \/ phase # "active" /\ Refuse("start_required")
    \/ /\ phase = "active"
       /\ \E time \in source.last .. MaxTime :
             LET s == ExpireGap([source EXCEPT !.last = time], time, FALSE)
             IN  \/ s.failure # "none" /\ Fail(s.failure)
                 \/ s.failure = "none" /\ Proceed(s, "active", "packet_accepted")

\* _flush_final_chunk
FlushFinal(s) ==
    IF s.pcm = 0 THEN s
    ELSE IF Len(s.queue) >= MaxOutput
    THEN [s EXCEPT !.failure = "output_queue_full"]
    ELSE [s EXCEPT !.queue = Append(@, ChunkAt(s, 1, s.pcm)),
                   !.chunks = @ + 1, !.emitted = @ + s.pcm, !.pcm = 0]

\* What is buffered is played out, with silence for what never came.
End(generation) ==
    \/ /\ phase # "active"
       /\ Refuse(IF phase = "ended" /\ generation = source.generation
                 THEN "duplicate_end" ELSE "start_required")
    \/ /\ phase = "active" /\ generation # source.generation
       /\ Refuse("source_generation_mismatch")
    \/ /\ phase = "active" /\ generation = source.generation
       /\ LET out == ExpireGap(source, source.last, TRUE)
              s == IF out.failure = "none" THEN FlushFinal(out) ELSE out
          IN  \/ s.failure # "none" /\ Fail(s.failure)
              \/ /\ s.failure = "none"
                 /\ Proceed([s EXCEPT !.prints = {}], "ended", "ended")

Reset == /\ phase' = "none"
         /\ source' = NewSource(0, 0)
         /\ reply' = "reset"
         /\ UNCHANGED <<highest, timeline, delivered>>

\* drain_audio_chunks, also of a source that has ended.
DrainChunks(generation, limit) ==
    \/ /\ phase = "none" \/ generation # source.generation
       /\ Refuse("drained")
    \/ /\ phase # "none" /\ generation = source.generation
       /\ LET waiting == Len(source.queue)
              n == IF limit < waiting THEN limit ELSE waiting
          IN  /\ source' = [source EXCEPT !.queue = SubSeq(@, n + 1, waiting)]
              /\ delivered' = [delivered EXCEPT ![generation] = @ + n]
       /\ reply' = "drained"
       /\ UNCHANGED <<phase, highest, timeline>>

Next ==
    \/ \E g \in Generations : Start(g) \/ ReplaceSource(g) \/ End(g)
    \/ PacketMismatch
    \/ \E p \in Packets : Packet(p)
    \/ TimeRegression
    \/ AdvanceClock
    \/ Reset
    \/ \E g \in Generations, limit \in 1 .. MaxOutput : DrainChunks(g, limit)

Spec == Init /\ [][Next]_vars

-----------------------------------------------------------------------------
(* Properties *)

Source ==
    [generation : 0 .. MaxGeneration, expected : 0 .. Modulus - 1,
     timestamp : 0 .. TimestampModulus - 1, last : Times,
     buffer : SUBSET Packets, prints : SUBSET [order : Nat, packet : Packets],
     pcm : 0 .. ChunkSamples - 1,
     queue : Seq([seq : Nat, payload : SampleCounts, start : Nat]),
     gap : Times \cup {NoGap}, accepted : Nat, missing : Nat, emitted : Nat,
     chunks : Nat, position : Nat, failure : {"none"}]

\* Type correctness; numbers stay within their widths, limits are kept.
TypeOK ==
    /\ phase \in {"none", "active", "ended", "failed"}
    /\ source \in Source
    /\ highest \in 0 .. MaxGeneration
    /\ Cardinality(source.buffer) <= MaxReorder
    /\ Len(source.queue) <= MaxOutput
    /\ DOMAIN timeline = DOMAIN delivered /\ DOMAIN timeline \subseteq Generations

\* Across the wrap of the 16-bit number the expected packet is the one at the
\* playout position, its timestamp too, and what is buffered lies ahead of it
\* inside the reorder window; the duplicate history knows every buffered packet
\* and never reaches back a whole lap of the number space.  So no packet is
\* played at another's place or taken for an old one.
PlacedByNumber ==
    /\ TypeOK
    /\ phase = "active" =>
        LET known == Remembered(source)
        IN  /\ source.expected = (FirstSequence + source.position) % Modulus
            /\ source.timestamp =
                  AdvanceTimestamp(FirstTimestamp, source.position * PacketSamples)
            /\ \A p \in source.buffer : p.index > source.position
            /\ \A p \in source.buffer : p.index <= source.position + MaxReorder
            /\ \A p, q \in source.buffer : p.index = q.index => p = q
            /\ source.buffer \subseteq known
            /\ \A p \in known :
                  /\ p.index + Modulus > source.position + MaxReorder
                  /\ p.index < source.position + Modulus

\* Every position of the stream is accounted for once: accepted and played,
\* or reported missing and replaced by as much silence.  A packet waits behind
\* a gap only while the gap's clock runs, and the clock stands below the jitter
\* limit whenever the adapter has seen the time.
GapsAreAccounted ==
    /\ phase \in {"active", "ended"} =>
        /\ source.position = source.accepted - Cardinality(source.buffer)
                                + source.missing
        /\ source.emitted + source.pcm = source.position * PacketSamples
    /\ phase = "active" =>
        /\ source.buffer = {} <=> source.gap = NoGap
        /\ source.gap # NoGap => source.last - source.gap < MaxWait

\* Each generation delivers its audio as CallAudioDelivery promises: an ended
\* source may still be drained, a failed, replaced or reset one never again.
Phase(g) == CASE g \notin DOMAIN timeline -> "unknown"
              [] g \in DOMAIN timeline /\ phase \in {"active", "ended"}
                                       /\ g = source.generation -> "open"
              [] g \in DOMAIN timeline /\ (phase \in {"none", "failed"}
                                       \/ g # source.generation) -> "closed"

Delivery(g) == INSTANCE CallAudioDelivery
    WITH Duration <- ChunkDuration,
         phase <- Phase(g),
         timeline <- IF g \in DOMAIN timeline THEN timeline[g] ELSE <<>>,
         delivered <- IF g \in DOMAIN delivered THEN delivered[g] ELSE 0

DeliveryStep == \A g \in Generations : [Delivery(g)!Next]_(Delivery(g)!vars)

DeliversEverySource == /\ \A g \in Generations : Delivery(g)!Init
                       /\ [][DeliveryStep]_vars

=============================================================================
