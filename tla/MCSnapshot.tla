------------------------------ MODULE MCSnapshot ------------------------------
(* Finite instances of Snapshot. *)
EXTENDS Snapshot

CONSTANTS k1, k2

OneChunk == {k1}
TwoChunks == {k1, k2}
================================================================================
