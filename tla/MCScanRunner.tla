----------------------------- MODULE MCScanRunner -----------------------------
(* Finite instances of ScanRunner, with one buffer for all files. *)
EXTENDS ScanRunnerInvariant

CONSTANT k1

OneChunk == {k1}
================================================================================
