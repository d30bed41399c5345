-------------------------------- MODULE Permits --------------------------------
(***************************************************************************)
(* Permits (hasher/runner.rs): a usize behind a mutex and a condition       *)
(* variable.  wait_for_permits() is a Condvar::wait_while whose predicate   *)
(* itself takes the permits; add_permits() adds with checked_add and calls  *)
(* notify_all() while it still holds the mutex.                             *)
(*                                                                          *)
(* A critical section is one step.  A notified thread evaluates its         *)
(* predicate again in a later step, after other threads may have run.       *)
(***************************************************************************)
EXTENDS Naturals

CONSTANTS Takers,    \* threads that call wait_for_permits
          Counts,    \* arguments of wait_for_permits and add_permits
          MaxCount,  \* usize::MAX
          Initial    \* argument of Permits::new

ASSUME MaxCountAssumption == MaxCount \in Nat
ASSUME InitialAssumption == Initial \in 0 .. MaxCount
ASSUME CountsAssumption == Counts \subseteq 0 .. MaxCount

VARIABLES permits,   \* the value under the mutex
          pc,        \* "idle", "sleeping" in the condvar, "woken" by it
          want       \* the argument of the call a thread is in

vars == <<permits, pc, want>>

TypeOK == /\ permits \in 0 .. MaxCount
          /\ pc \in [Takers -> {"idle", "sleeping", "woken"}]
          /\ want \in [Takers -> Counts]

Init == /\ permits = Initial
        /\ pc = [t \in Takers |-> "idle"]
        /\ want \in [Takers -> Counts]

(* Mutant of TakeOrSleep: one permit is taken, whatever the count asked for. *)
TakeOneOrSleep(t, n) ==
    \/ /\ permits >= 1
       /\ permits' = permits - 1
       /\ pc' = [pc EXCEPT ![t] = "idle"]
    \/ /\ permits < 1
       /\ permits' = permits
       /\ pc' = [pc EXCEPT ![t] = "sleeping"]

(* The predicate of wait_while: checked_sub; the thread leaves the call with *)
(* its permits, or goes (back) to sleep.                                     *)
TakeOrSleep(t, n) ==
    \/ /\ permits >= n
       /\ permits' = permits - n
       /\ pc' = [pc EXCEPT ![t] = "idle"]
    \/ /\ permits < n
       /\ permits' = permits
       /\ pc' = [pc EXCEPT ![t] = "sleeping"]

wait_for_permits(t, n) == /\ pc[t] = "idle"
                          /\ want' = [want EXCEPT ![t] = n]
                          /\ TakeOrSleep(t, n)

Recheck(t) == /\ pc[t] = "woken"
              /\ TakeOrSleep(t, want[t])
              /\ UNCHANGED want

Awake(state) == IF state = "sleeping" THEN "woken" ELSE state

(* Mutant of add_permits: a notification only when the count was zero. *)
add_notifies_from_zero(n) ==
    /\ permits' = IF permits + n <= MaxCount THEN permits + n ELSE permits
    /\ pc' = IF permits = 0 THEN [t \in Takers |-> Awake(pc[t])] ELSE pc
    /\ UNCHANGED want

(* A sum that does not fit is dropped: nothing is added, nobody is woken. *)
add_permits(n) ==
    /\ \/ /\ permits + n <= MaxCount
          /\ permits' = permits + n
          /\ pc' = [t \in Takers |-> Awake(pc[t])]
       \/ /\ permits + n > MaxCount
          /\ UNCHANGED <<permits, pc>>
    /\ UNCHANGED want

Next == \/ \E n \in Counts : add_permits(n)
        \/ \E t \in Takers : \/ Recheck(t)
                             \/ \E n \in Counts : wait_for_permits(t, n)

(* A notified thread is scheduled until it has looked at the permits. *)
Spec == Init /\ [][Next]_vars /\ \A t \in Takers : WF_vars(Recheck(t))

--------------------------------------------------------------------------------
(* No thread sleeps on permits that are there: whatever interleaving of      *)
(* callers with different counts, and whatever additions were dropped by     *)
(* checked_add, a sleeping thread wants more than the count.                 *)
SleepersLackPermits == \A t \in Takers : pc[t] = "sleeping" => permits < want[t]

(* The count is the abstract semaphore's, with its promise to serve some     *)
(* waiting caller whenever it can.                                           *)
Counter == INSTANCE Semaphore WITH
    count <- permits,
    asked <- [t \in Takers |-> IF pc[t] = "idle" THEN MaxCount + 1 ELSE want[t]]

SemaphoreSpec == Counter!Spec
================================================================================
