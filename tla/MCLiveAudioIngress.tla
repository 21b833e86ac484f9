-------------------------- MODULE MCLiveAudioIngress --------------------------
(* Small instances of LiveAudioIngress for TLC. *)
EXTENDS LiveAudioIngress

CONSTANTS c1, c2, c3, s1, s2, s3, p1, p2, pcm, ulaw

MCDuration == [p \in Payloads |-> IF p = p1 THEN 1 ELSE 2]

\* Bound: the third call and the third stream only ever ask for a place.
MCThirdOnlyAsks == \A k \in ActiveKeys : k[1] # c3 /\ k[2] # s3

\* Bound: one key is seen in depth, its refusals bounded together; the other
\* streams stay short and are never refused anything.
MCOneInDepth ==
    /\ \A k \in Keys \ {<<c1, s1>>} :
          \/ timeline[k] = <<>>
          \/ timeline[k] = <<[seq |-> 0, payload |-> p1, start |-> 0]>>
    /\ \A k \in ActiveKeys :
          LET s == active[k]
              refused == s.rejected + s.gaps + s.duplicates
          IN  IF k = <<c1, s1>> THEN refused <= MaxRefused
                                ELSE refused = 0 /\ s.format = pcm /\ s.nextSeq <= 2

=============================================================================
