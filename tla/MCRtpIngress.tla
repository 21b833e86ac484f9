----------------------------- MODULE MCRtpIngress -----------------------------
(* A small instance of RtpIngress for TLC: a long source, then a short one. *)
EXTENDS RtpIngress

MCMaxIndex == [g \in Generations |-> IF g = 1 THEN 8 ELSE 1]

=============================================================================
