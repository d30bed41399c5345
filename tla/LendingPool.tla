------------------------------ MODULE LendingPool ------------------------------
(***************************************************************************)
(* What a pool of lendable values promises its callers, whatever lock and   *)
(* condition variable it is built from: a value is either in the pool or    *)
(* with a caller, never both; a caller waits only when it found the pool    *)
(* empty; and while values are in the pool and callers are waiting, some    *)
(* waiting caller is eventually served.  No promise is made about which     *)
(* one: a caller that has just arrived may overtake the waiting ones.       *)
(***************************************************************************)
EXTENDS FiniteSets, Naturals

CONSTANTS Threads,   \* callers of the pool
          Elements,  \* the values the pool is created with
          Foreign    \* values that callers have from elsewhere

VARIABLES free,      \* values in the pool
          out,       \* values with the callers
          waiting    \* callers blocked in lend

vars == <<free, out, waiting>>

Init == /\ free = Elements
        /\ out = Foreign
        /\ waiting = {}

Wait(t) == /\ free = {}
           /\ waiting' = waiting \union {t}
           /\ UNCHANGED <<free, out>>

Take(t) == \E v \in free :
              /\ free' = free \ {v}
              /\ out' = out \union {v}
              /\ waiting' = waiting \ {t}

Give(v) == /\ v \in out
           /\ Cardinality(free) < Cardinality(Elements)
           /\ free' = free \union {v}
           /\ out' = out \ {v}
           /\ UNCHANGED waiting

\* A full pool hands the value back, and the callers of this program drop it.
Reject(v) == /\ v \in out
             /\ Cardinality(free) = Cardinality(Elements)
             /\ out' = out \ {v}
             /\ UNCHANGED <<free, waiting>>

ServeWaiter == \E t \in waiting : Take(t)

Next == \/ \E t \in Threads : Wait(t) \/ Take(t)
        \/ \E v \in Elements \union Foreign : Give(v) \/ Reject(v)

Spec == Init /\ [][Next]_vars /\ WF_vars(ServeWaiter)
================================================================================
