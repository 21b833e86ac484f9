--------------------------- MODULE CallAudioDelivery ---------------------------
(***************************************************************************)
(* What a live audio boundary promises the consumer of one stream: the     *)
(* admitted chunks form one gap-free timeline (numbers and start times     *)
(* follow on), the consumer is handed a growing prefix of it, and once the *)
(* stream is closed neither the timeline nor the prefix changes.  A closed *)
(* stream that the boundary no longer remembers may be opened afresh.      *)
(***************************************************************************)
EXTENDS Naturals, Sequences

CONSTANT Duration   \* length of each payload, in ticks of the timeline

VARIABLES
    phase,      \* "unknown", "open" or "closed"
    timeline,   \* every chunk admitted since the stream was opened
    delivered   \* how many of them the consumer was handed

vars == <<phase, timeline, delivered>>

Follows(c, d) == /\ d.seq = c.seq + 1
                 /\ d.start = c.start + Duration[c.payload]

GapFree(t) == /\ t # <<>> => t[1].start = 0
              /\ \A i \in 1 .. Len(t) - 1 : Follows(t[i], t[i+1])

\* t starts with everything s holds.
Extends(t, s) == /\ Len(s) <= Len(t)
                 /\ \A i \in DOMAIN s : t[i] = s[i]

Init == /\ phase = "unknown"
        /\ timeline = <<>>
        /\ delivered = 0

\* A stream may be opened by its first audio.
Open == /\ phase = "unknown"
        /\ phase' = "open"
        /\ GapFree(timeline')
        /\ delivered' = 0

\* Admitting what overfills the queue may close the stream at once.
Admit == /\ phase = "open"
         /\ phase' \in {"open", "closed"}
         /\ Extends(timeline', timeline)
         /\ GapFree(timeline')
         /\ UNCHANGED delivered

Deliver == /\ phase = "open"
           /\ delivered' \in delivered .. Len(timeline)
           /\ UNCHANGED <<phase, timeline>>

Close == /\ phase = "open"
         /\ phase' = "closed"
         /\ UNCHANGED <<timeline, delivered>>

Forget == /\ phase = "closed"
          /\ phase' = "unknown"
          /\ UNCHANGED <<timeline, delivered>>

Next == Open \/ Admit \/ Deliver \/ Close \/ Forget

Spec == Init /\ [][Next]_vars

=============================================================================
