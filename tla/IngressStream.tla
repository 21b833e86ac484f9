----------------------------- MODULE IngressStream -----------------------------
(***************************************************************************)
(* One stream of the live audio boundary: the mutable record _StreamState  *)
(* of app/audio_ingress/boundary.py and what the handlers _audio and _end  *)
(* do to it.  The operators are shared by LiveAudioIngress, where several  *)
(* streams compete, and by LocalMicrophoneSession, which owns a boundary   *)
(* with one stream.                                                        *)
(*                                                                         *)
(* A payload stands for everything the SHA-256 fingerprint of an event     *)
(* covers besides its sequence number (audio bytes, duration, capture      *)
(* time, format): two events with equal number and equal payload are       *)
(* retransmissions of one another.                                         *)
(***************************************************************************)
EXTENDS Naturals, Sequences

CONSTANTS
    Payloads,       \* contents an audio event can carry
    Duration,       \* length of each payload, in ticks of the call timeline
    Formats,        \* (codec, sample rate, channel count) triples
    MaxQueue,       \* max_queue_depth
    HistoryLimit    \* duplicate_history_limit

ASSUME PayloadAssumption == Duration \in [Payloads -> Nat \ {0}]
ASSUME LimitAssumption == /\ MaxQueue \in Nat \ {0}
                          /\ HistoryLimit \in Nat \ {0}

Chunk == [seq : Nat, payload : Payloads, start : Nat]
Fingerprint == [seq : Nat, payload : Payloads]

StreamState ==
    [format       : Formats,
     nextSeq      : Nat,
     nextStart    : Nat,
     accepted     : Nat,
     rejected     : Nat,
     gaps         : Nat,
     duplicates   : Nat,
     queue        : Seq(Chunk),
     fingerprints : Seq(Fingerprint)]

\* The record a START with this sequence number installs.
NewStream(format, seq) ==
    [format       |-> format,
     nextSeq      |-> seq + 1,
     nextStart    |-> 0,
     accepted     |-> 0,
     rejected     |-> 0,
     gaps         |-> 0,
     duplicates   |-> 0,
     queue        |-> <<>>,
     fingerprints |-> <<>>]

NextChunk(s, payload) ==
    [seq |-> s.nextSeq, payload |-> payload, start |-> s.nextStart]

\* Mutant of TrimOldest: popitem() without last=False drops the newest.
TrimNewest(q, limit) ==
    IF Len(q) > limit THEN SubSeq(q, 1, limit) ELSE q

\* popitem(last=False) until at most limit entries are left.
TrimOldest(q, limit) ==
    IF Len(q) > limit THEN SubSeq(q, Len(q) - limit + 1, Len(q)) ELSE q

\* The payloads remembered for a sequence number: at most one.
Remembered(s, seq) ==
    {s.fingerprints[i].payload :
        i \in {j \in DOMAIN s.fingerprints : s.fingerprints[j].seq = seq}}

AudioReason(s, seq, payload) ==
    CASE seq < s.nextSeq /\ Remembered(s, seq) = {}        -> "stale_sequence"
      [] seq < s.nextSeq /\ payload \in Remembered(s, seq) -> "exact_duplicate"
      [] seq < s.nextSeq /\ Remembered(s, seq) # {}
                         /\ payload \notin Remembered(s, seq) ->
                                                        "conflicting_duplicate"
      [] seq > s.nextSeq                                   -> "sequence_gap"
      [] seq = s.nextSeq /\ Len(s.queue) >= MaxQueue       -> "queue_full"
      [] seq = s.nextSeq /\ Len(s.queue) < MaxQueue        -> "frame_accepted"

\* Mutant of Admit: the timeline is not advanced by the chunk's duration.
AdmitInPlace(s, payload) ==
    [s EXCEPT !.queue        = Append(@, NextChunk(s, payload)),
              !.fingerprints = TrimOldest(
                                 Append(@, [seq |-> s.nextSeq,
                                            payload |-> payload]),
                                 HistoryLimit),
              !.accepted     = @ + 1,
              !.nextSeq      = @ + 1]

\* Acceptance of the next chunk: queued, fingerprinted, counted.
Admit(s, payload) ==
    [s EXCEPT !.queue        = Append(@, NextChunk(s, payload)),
              !.fingerprints = TrimOldest(
                                 Append(@, [seq |-> s.nextSeq,
                                            payload |-> payload]),
                                 HistoryLimit),
              !.accepted     = @ + 1,
              !.nextSeq      = @ + 1,
              !.nextStart    = @ + Duration[payload]]

\* Mutant of CountRejected: a refused event uses up its sequence number.
CountAndSkip(s) == [s EXCEPT !.rejected = @ + 1, !.nextSeq = @ + 1]

CountDuplicate(s) == [s EXCEPT !.duplicates = @ + 1]
CountRejected(s)  == [s EXCEPT !.rejected = @ + 1]
CountGap(s)       == [s EXCEPT !.rejected = @ + 1, !.gaps = @ + 1]

AfterAudio(s, seq, payload) ==
    LET reason == AudioReason(s, seq, payload)
    IN  CASE reason = "exact_duplicate" -> CountDuplicate(s)
          [] reason = "sequence_gap"    -> CountGap(s)
          [] reason = "frame_accepted"  -> Admit(s, payload)
          [] reason \in {"stale_sequence", "conflicting_duplicate",
                         "queue_full"}  -> CountRejected(s)

EndReason(s, seq) ==
    CASE seq < s.nextSeq -> "stale_sequence"
      [] seq > s.nextSeq -> "sequence_gap"
      [] seq = s.nextSeq -> "ended"

\* Mutant of AfterDrain: pop() instead of popleft().
DrainTail(s, n) == [s EXCEPT !.queue = SubSeq(@, 1, Len(@) - n)]

\* drain pops from the head of the queue.
AfterDrain(s, n) == [s EXCEPT !.queue = SubSeq(@, n + 1, Len(@))]

-----------------------------------------------------------------------------
(* What a record says of its history: t holds every chunk admitted since    *)
(* the START, the first n of which were drained.                            *)

\* Consecutive numbers, and each chunk starts where the last one stopped.
Contiguous(t) ==
    /\ t # <<>> => t[1].start = 0
    /\ \A i \in 1 .. Len(t) - 1 :
          /\ t[i+1].seq = t[i].seq + 1
          /\ t[i+1].start = t[i].start + Duration[t[i].payload]

\* What was not drained is still queued, in order.
QueueIsRest(s, t, n) ==
    /\ Len(s.queue) + n = Len(t)
    /\ \A i \in 1 .. Len(s.queue) : s.queue[i] = t[n + i]

ExpectsNext(s, t) ==
    /\ t = <<>> => s.nextStart = 0
    /\ t # <<>> =>
          /\ s.nextSeq = t[Len(t)].seq + 1
          /\ s.nextStart = t[Len(t)].start + Duration[t[Len(t)].payload]

\* The fingerprints are those of the last HistoryLimit chunks.
RemembersLast(s, t) ==
    LET f == s.fingerprints
    IN  /\ Len(f) = IF Len(t) < HistoryLimit THEN Len(t) ELSE HistoryLimit
        /\ \A i \in 1 .. Len(f) :
              LET c == t[Len(t) - Len(f) + i]
              IN  f[i] = [seq |-> c.seq, payload |-> c.payload]

=============================================================================
