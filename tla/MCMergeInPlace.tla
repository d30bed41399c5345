----------------------------- MODULE MCMergeInPlace -----------------------------
(* A finite instance of MergeInPlace. *)
EXTENDS MergeInPlace

FourItems == 1 .. 4
================================================================================
