--------------------------- MODULE LiveAudioIngress ---------------------------
(***************************************************************************)
(* LiveAudioIngressBoundary of app/audio_ingress/boundary.py: the          *)
(* non-blocking boundary between audio providers and the streaming         *)
(* pipeline.  Several streams may be active; every provider event is       *)
(* answered at once, and a consumer drains the queue of one stream.        *)
(*                                                                         *)
(* accept() is not locked by the boundary itself, its owner serialises the *)
(* calls, so one event is one step.  The (tenant, provider) pair of an     *)
(* event is abstracted to whether it is the boundary's own.                *)
(***************************************************************************)
EXTENDS IngressStream, FiniteSets

CONSTANTS
    Calls,              \* call ids
    Streams,            \* provider stream ids
    SequenceNumbers,    \* sequence numbers a provider may send
    MaxActive,          \* max_active_streams
    CompletedLimit,     \* completed_scope_limit
    MaxRefused          \* bound on each refusal counter of a stream

ASSUME ScopeAssumption == /\ SequenceNumbers \subseteq Nat
                          /\ MaxActive \in Nat \ {0}
                          /\ CompletedLimit \in Nat \ {0}
                          /\ MaxRefused \in Nat

Keys == Calls \X Streams

VARIABLES
    active,     \* _active: stream record of every active key
    completed,  \* _completed: ended keys, oldest first
    reply,      \* reason of the last acceptance, or "drained"
    timeline,   \* history: chunks admitted since the key was last started
    delivered   \* history: how many of them were drained

vars == <<active, completed, reply, timeline, delivered>>

ActiveKeys == DOMAIN active
CompletedKeys == {completed[i] : i \in DOMAIN completed}

\* Mutant of ScopeActiveElsewhere: only the call is compared.
CallActiveElsewhere(key) == \E k \in ActiveKeys : k[1] = key[1]

\* An active stream shares the event's call or its provider stream.
ScopeActiveElsewhere(key) ==
    \E k \in ActiveKeys : k[1] = key[1] \/ k[2] = key[2]

AcceptedReasons == {"started", "frame_accepted"}
CompletedReasons == {"ended", "cancelled"}
Reasons == AcceptedReasons \cup CompletedReasons \cup
    {"exact_duplicate", "start_required", "duplicate_start", "duplicate_end",
     "scope_mismatch", "format_mismatch", "sequence_gap", "queue_full",
     "conflicting_duplicate", "stale_sequence", "active_stream_limit"}

-----------------------------------------------------------------------------

Init == /\ active = <<>>
        /\ completed = <<>>
        /\ reply = "none"
        /\ timeline = [k \in Keys |-> <<>>]
        /\ delivered = [k \in Keys |-> 0]

\* An answer that leaves the boundary as it was (_stateless_result).
Refuse(reason) == /\ reply' = reason
                  /\ UNCHANGED <<active, completed, timeline, delivered>>

\* An answer that replaces the record of one active stream.
Answer(key, reason, stream) ==
    /\ active' = [active EXCEPT ![key] = stream]
    /\ reply' = reason
    /\ UNCHANGED completed

WithinCounters(s) == s.rejected <= MaxRefused /\ s.gaps <= MaxRefused
                     /\ s.duplicates <= MaxRefused

\* Event of another tenant or provider.
ForeignEvent == Refuse("scope_mismatch")

StartRefused(key) ==
    \/ /\ key \in ActiveKeys \cup CompletedKeys
       /\ Refuse("duplicate_start")
    \/ /\ key \notin ActiveKeys \cup CompletedKeys
       /\ ScopeActiveElsewhere(key)
       /\ Refuse("scope_mismatch")
    \/ /\ key \notin ActiveKeys \cup CompletedKeys
       /\ ~ScopeActiveElsewhere(key)
       /\ Cardinality(ActiveKeys) >= MaxActive
       /\ Refuse("active_stream_limit")

StartAdmitted(key, format, seq) ==
    /\ key \notin ActiveKeys \cup CompletedKeys
    /\ ~ScopeActiveElsewhere(key)
    /\ Cardinality(ActiveKeys) < MaxActive
    /\ active' = [k \in ActiveKeys \cup {key} |->
                     IF k = key THEN NewStream(format, seq) ELSE active[k]]
    /\ reply' = "started"
    /\ timeline' = [timeline EXCEPT ![key] = <<>>]
    /\ delivered' = [delivered EXCEPT ![key] = 0]
    /\ UNCHANGED completed

\* AUDIO_CHUNK or END for a key that has no active stream.
NoStream(key, isEnd) ==
    \/ /\ key \in CompletedKeys
       /\ Refuse(IF isEnd THEN "duplicate_end" ELSE "start_required")
    \/ /\ key \notin CompletedKeys \cup ActiveKeys
       /\ Refuse(IF ScopeActiveElsewhere(key) THEN "scope_mismatch"
                                              ELSE "start_required")

Known(key) == key \in ActiveKeys /\ key \notin CompletedKeys

FormatMismatch(key, format, isEnd) ==
    /\ Known(key)
    /\ active[key].format # format
    /\ LET s == IF isEnd THEN active[key] ELSE CountRejected(active[key])
       IN  WithinCounters(s) /\ Answer(key, "format_mismatch", s)
    /\ UNCHANGED <<timeline, delivered>>

Audio(key, format, seq, payload) ==
    /\ Known(key)
    /\ active[key].format = format
    /\ LET s      == active[key]
           reason == AudioReason(s, seq, payload)
           after  == AfterAudio(s, seq, payload)
       IN  /\ WithinCounters(after)
           /\ Answer(key, reason, after)
           /\ timeline' = IF reason = "frame_accepted"
                          THEN [timeline EXCEPT ![key] =
                                   Append(@, NextChunk(s, payload))]
                          ELSE timeline
    /\ UNCHANGED delivered

EndRefused(key, format, seq) ==
    /\ Known(key)
    /\ active[key].format = format
    /\ EndReason(active[key], seq) # "ended"
    /\ LET reason == EndReason(active[key], seq)
           s      == IF reason = "sequence_gap"
                     THEN [active[key] EXCEPT !.gaps = @ + 1]
                     ELSE active[key]
       IN  WithinCounters(s) /\ Answer(key, reason, s)
    /\ UNCHANGED <<timeline, delivered>>

\* Mutant of EndAdmitted: only the call is remembered as completed.
EndRemembersCall(key, format, seq, cancelled) ==
    /\ Known(key)
    /\ active[key].format = format
    /\ EndReason(active[key], seq) = "ended"
    /\ active' = [k \in ActiveKeys \ {key} |-> active[k]]
    /\ completed' = TrimOldest(Append(completed, key[1]), CompletedLimit)
    /\ reply' = IF cancelled THEN "cancelled" ELSE "ended"
    /\ UNCHANGED <<timeline, delivered>>

\* The queue is dropped with the record; the oldest ended keys are forgotten.
EndAdmitted(key, format, seq, cancelled) ==
    /\ Known(key)
    /\ active[key].format = format
    /\ EndReason(active[key], seq) = "ended"
    /\ active' = [k \in ActiveKeys \ {key} |-> active[k]]
    /\ completed' = TrimOldest(Append(completed, key), CompletedLimit)
    /\ reply' = IF cancelled THEN "cancelled" ELSE "ended"
    /\ UNCHANGED <<timeline, delivered>>

\* drain(limit): up to limit chunks, oldest first.
Drain(key, limit) ==
    /\ key \in ActiveKeys
    /\ LET waiting == Len(active[key].queue)
           n == IF limit < waiting THEN limit ELSE waiting
       IN  /\ Answer(key, "drained", AfterDrain(active[key], n))
           /\ delivered' = [delivered EXCEPT ![key] = @ + n]
    /\ UNCHANGED timeline

\* drain of another tenant, provider or unknown stream returns nothing.
DrainNothing == Refuse("drained")

Start == \E key \in Keys :
    \/ StartRefused(key)
    \/ \E format \in Formats, seq \in SequenceNumbers :
           StartAdmitted(key, format, seq)

AudioChunk == \E key \in Keys :
    \/ NoStream(key, FALSE)
    \/ \E format \in Formats :
          \/ FormatMismatch(key, format, FALSE)
          \/ \E seq \in SequenceNumbers, payload \in Payloads :
                 Audio(key, format, seq, payload)

End == \E key \in Keys :
    \/ NoStream(key, TRUE)
    \/ \E format \in Formats :
          \/ FormatMismatch(key, format, TRUE)
          \/ \E seq \in SequenceNumbers :
                \/ EndRefused(key, format, seq)
                \/ \E cancelled \in BOOLEAN :
                       EndAdmitted(key, format, seq, cancelled)

Next == \/ ForeignEvent
        \/ Start
        \/ AudioChunk
        \/ End
        \/ \E key \in Keys, limit \in 1..MaxQueue : Drain(key, limit)
        \/ DrainNothing

Spec == Init /\ [][Next]_vars

-----------------------------------------------------------------------------
(* Properties *)

\* Type correctness: every active stream is a well-formed record.
TypeOK ==
    /\ active \in [ActiveKeys -> StreamState]
    /\ ActiveKeys \subseteq Keys
    /\ completed \in Seq(Keys)
    /\ reply \in Reasons \cup {"none", "drained"}
    /\ timeline \in [Keys -> Seq(Chunk)]
    /\ delivered \in [Keys -> Nat]

\* A call is carried by at most one active stream and a provider stream by at
\* most one call, an active key is not among the ended ones, and neither table
\* outgrows its limit, whatever order STARTs, ENDs and evictions come in.
ScopeIsolation ==
    /\ \A j, k \in ActiveKeys : j[1] = k[1] \/ j[2] = k[2] => j = k
    /\ ActiveKeys \cap CompletedKeys = {}
    /\ Cardinality(ActiveKeys) <= MaxActive
    /\ Len(completed) <= CompletedLimit

\* The chunks admitted on a stream carry consecutive provider numbers and
\* start where the previous one stopped, the record expects exactly the next
\* one, and the consumer was handed all of them but those still queued.
AudioTimeline ==
    /\ \A key \in Keys : Contiguous(timeline[key])
    /\ \A key \in ActiveKeys :
          /\ QueueIsRest(active[key], timeline[key], delivered[key])
          /\ ExpectsNext(active[key], timeline[key])

\* The fingerprints of a stream are those of its last HistoryLimit admitted
\* chunks, so a retransmission inside that window is always told from a
\* conflicting event, and one outside it is always stale.
DuplicateWindow ==
    \A key \in ActiveKeys : RemembersLast(active[key], timeline[key])

\* A refused event moves no stream: its chunks, its expected number and its
\* duplicate window are as before, so the provider can send the next chunk.
Progress(s) == <<s.format, s.nextSeq, s.nextStart, s.accepted, s.queue,
                 s.fingerprints>>

RefusalKeepsProgress ==
    reply' \notin AcceptedReasons \cup CompletedReasons \cup {"drained"} =>
        /\ ActiveKeys' = ActiveKeys
        /\ completed' = completed
        /\ \A key \in ActiveKeys :
              Progress(active'[key]) = Progress(active[key])

RefusalIsHarmless == [][RefusalKeepsProgress]_vars

\* Each stream delivers its audio as CallAudioDelivery promises (the Init and
\* the steps of its specification, for every key at once).
Phase(key) == CASE key \in ActiveKeys -> "open"
                [] key \in CompletedKeys -> "closed"
                [] key \notin ActiveKeys \cup CompletedKeys -> "unknown"

Delivery(key) == INSTANCE CallAudioDelivery
                    WITH phase <- Phase(key),
                         timeline <- timeline[key],
                         delivered <- delivered[key]

DeliveryStep == \A key \in Keys : [Delivery(key)!Next]_(Delivery(key)!vars)

DeliversEveryStream == /\ \A key \in Keys : Delivery(key)!Init
                       /\ [][DeliveryStep]_vars

=============================================================================
