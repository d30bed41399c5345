------------------------------- MODULE Semaphore -------------------------------
(***************************************************************************)
(* A counting semaphore whose callers take several permits at once: what    *)
(* Permits (hasher/runner.rs) promises, whatever it is built from.  Nobody  *)
(* takes a permit that is not there, a caller waits only for permits that   *)
(* are missing, and while the count would serve a waiting caller, some      *)
(* waiting caller is eventually served.                                     *)
(***************************************************************************)
EXTENDS Naturals

CONSTANTS Takers,     \* callers that wait for permits
          Counts,     \* numbers of permits asked for or returned in a call
          MaxCount,   \* the largest count the semaphore can hold
          Initial     \* the count it is created with

VARIABLES count,      \* permits available
          asked       \* asked[t]: the permits t waits for, NotWaiting if none

vars == <<count, asked>>

NotWaiting == MaxCount + 1

Init == /\ count = Initial
        /\ asked = [t \in Takers |-> NotWaiting]

Wait(t, n) == /\ asked[t] \in {NotWaiting, n}
              /\ n > count
              /\ asked' = [asked EXCEPT ![t] = n]
              /\ UNCHANGED count

Acquire(t, n) == /\ asked[t] \in {NotWaiting, n}
                 /\ n <= count
                 /\ count' = count - n
                 /\ asked' = [asked EXCEPT ![t] = NotWaiting]

Release(n) == /\ count + n <= MaxCount
              /\ count' = count + n
              /\ UNCHANGED asked

ServeWaiter == \E t \in Takers : asked[t] # NotWaiting /\ Acquire(t, asked[t])

Next == \E n \in Counts : Release(n) \/ \E t \in Takers : Wait(t, n) \/ Acquire(t, n)

Spec == Init /\ [][Next]_vars /\ WF_vars(ServeWaiter)
================================================================================
