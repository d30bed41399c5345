------------------------------- MODULE MCPermits -------------------------------
(* A finite instance of Permits: three callers, calls with 0 to 3 permits,   *)
(* and a usize that overflows above 4.                                       *)
EXTENDS Permits

CONSTANTS t1, t2, t3

ThreeTakers == {t1, t2, t3}
ZeroToThree == 0 .. 3
================================================================================
