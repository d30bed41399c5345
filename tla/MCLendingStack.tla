---------------------------- MODULE MCLendingStack ----------------------------
(* Finite instances of LendingStack: more borrowers than values, so that     *)
(* they have to wait, and two returners, so that wake-ups can overlap.       *)
EXTENDS LendingStack

CONSTANTS b1, b2, b3, w1, w2, e1, e2, x

ThreeBorrowers == {b1, b2, b3}
TwoReturners == {w1, w2}
TwoElements == {e1, e2}
OneForeign == {x}
================================================================================
