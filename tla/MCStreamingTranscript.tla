------------------------ MODULE MCStreamingTranscript ------------------------
(* Small instances of StreamingTranscript for TLC; a tick is 0.25 seconds. *)
EXTENDS StreamingTranscript

\* Fifteen different words of three ticks with a tick of silence between them.
Names == <<"w1", "w2", "w3", "w4", "w5", "w6", "w7", "w8", "w9", "w10", "w11", "w12", "w13", "w14", "w15">>
MCSpeech == [i \in 1 .. 15 |-> [word |-> Names[i], start |-> 4 * i - 3, end |-> 4 * i]]

=============================================================================
