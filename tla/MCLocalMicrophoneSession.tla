----------------------- MODULE MCLocalMicrophoneSession -----------------------
(* Small instances of LocalMicrophoneSession for TLC; the bounds are in the  *)
(* configurations.                                                          *)
EXTENDS LocalMicrophoneSession
=============================================================================
