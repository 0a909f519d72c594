----------------------------- MODULE MCStreams -----------------------------
(* Streams for TLC. *)
EXTENDS Streams

CONSTANTS s1, s2
=============================================================================
