------------------------------- MODULE MCReadPath -------------------------------
(* A finite instance of ReadPath: every file of up to five bytes, through a     *)
(* chunk of two.                                                              *)
EXTENDS ReadPath, TLC

CONSTANTS s1, s2

TwoSamplers == {s1, s2}
Symmetry == Permutations(TwoSamplers)

UpToFive == UNION {[1 .. n -> {0, 1}] : n \in 0 .. 5}
UpToThree == 0 .. 3
DefaultAndTwo == {0, 2}
================================================================================
