--------------------------- MODULE MCMicrophoneRelay ---------------------------
(* Small instances of MicrophoneRelay for TLC: a chunk of two blocks, so that *)
(* a pause finds a rest in the buffer. *)
EXTENDS MicrophoneRelay

=============================================================================
