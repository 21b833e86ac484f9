---------------------------- MODULE MCRagBackground ----------------------------
(* Small instances of RagBackground for TLC. *)
EXTENDS RagBackground

CONSTANTS s1, s2, t1, t2, t3

=============================================================================
