------------------------------ MODULE PermitsProofs ------------------------------
(***************************************************************************)
(* Proofs about Permits, for any threads, any counts and any width of the    *)
(* counter.                                                                  *)
(***************************************************************************)
EXTENDS Permits, Integers, TLAPS

LEMMA CountsAreNat == MaxCount \in Nat /\ Initial \in 0 .. MaxCount /\ Counts \subseteq Nat
  BY MaxCountAssumption, InitialAssumption, CountsAssumption

LEMMA TypeInit == Init => TypeOK
  BY CountsAreNat DEF Init, TypeOK

(* A critical section of wait_while keeps the types, whichever way it ends. *)
LEMMA TypeTakeOrSleep ==
  ASSUME TypeOK, NEW t \in Takers, NEW n \in Counts, TakeOrSleep(t, n)
  PROVE  permits' \in 0 .. MaxCount /\ pc' \in [Takers -> {"idle", "sleeping", "woken"}]
  BY CountsAreNat DEF TypeOK, TakeOrSleep

LEMMA TypeNext == TypeOK /\ [Next]_vars => TypeOK'
  <1> SUFFICES ASSUME TypeOK, [Next]_vars PROVE TypeOK'
    OBVIOUS
  <1>1. CASE \E n \in Counts : add_permits(n)
    BY <1>1, CountsAreNat DEF TypeOK, add_permits, Awake
  <1>2. ASSUME NEW t \in Takers, Recheck(t) PROVE TypeOK'
    <2>1. want[t] \in Counts BY DEF TypeOK
    <2> QED BY <1>2, <2>1, TypeTakeOrSleep DEF TypeOK, Recheck
  <1>3. ASSUME NEW t \in Takers, NEW n \in Counts, wait_for_permits(t, n) PROVE TypeOK'
    BY <1>3, TypeTakeOrSleep DEF TypeOK, wait_for_permits
  <1>4. CASE UNCHANGED vars BY <1>4 DEF TypeOK, vars
  <1> QED BY <1>1, <1>2, <1>3, <1>4 DEF Next

(* The counter stays within its width, and each thread within its protocol   *)
(* (runner.rs 317-360).                                                      *)
THEOREM PermitsTyped == Spec => []TypeOK
  <1>1. Init => TypeOK BY TypeInit
  <1>2. TypeOK /\ [Next]_vars => TypeOK' BY TypeNext
  <1> QED BY <1>1, <1>2, PTL DEF Spec

--------------------------------------------------------------------------------
LEMMA SleepersInit == Init => SleepersLackPermits
  BY DEF Init, SleepersLackPermits

(* What is taken only makes permits scarcer for the others.                  *)
LEMMA SleepersTakeOrSleep ==
  ASSUME TypeOK, SleepersLackPermits, NEW t \in Takers, NEW n \in Counts,
         TakeOrSleep(t, n), want' = [want EXCEPT ![t] = n]
  PROVE  SleepersLackPermits'
  <1> SUFFICES ASSUME NEW s \in Takers, pc'[s] = "sleeping" PROVE permits' < want'[s]
    BY DEF SleepersLackPermits
  <1>1. permits \in Nat /\ n \in Nat /\ want[s] \in Nat
    <2>1. permits \in Nat BY MaxCountAssumption DEF TypeOK
    <2>2. want[s] \in Counts BY DEF TypeOK
    <2> QED BY <2>1, <2>2, CountsAreNat
  <1>2. permits' <= permits BY <1>1 DEF TakeOrSleep
  <1>3. CASE s = t
    <2>1. permits' = permits /\ permits < n BY <1>3 DEF TakeOrSleep, TypeOK
    <2> QED BY <1>3, <2>1 DEF TypeOK
  <1>4. CASE s # t
    <2>1. pc[s] = "sleeping" /\ want'[s] = want[s] BY <1>4 DEF TakeOrSleep, TypeOK
    <2>2. permits < want[s] BY <2>1 DEF SleepersLackPermits
    <2>3. permits' \in Int BY <1>1 DEF TakeOrSleep
    <2> QED BY <1>1, <1>2, <2>1, <2>2, <2>3
  <1> QED BY <1>3, <1>4

LEMMA SleepersNext == TypeOK /\ SleepersLackPermits /\ [Next]_vars => SleepersLackPermits'
  <1> SUFFICES ASSUME TypeOK, SleepersLackPermits, [Next]_vars PROVE SleepersLackPermits'
    OBVIOUS
  <1>1. ASSUME NEW n \in Counts, add_permits(n) PROVE SleepersLackPermits'
    <2>1. CASE permits + n <= MaxCount
      <3>1. pc' = [t \in Takers |-> Awake(pc[t])]
        BY <1>1, <2>1, CountsAreNat DEF add_permits, TypeOK
      <3> QED BY <3>1 DEF SleepersLackPermits, Awake
    <2>2. CASE ~(permits + n <= MaxCount)
      BY <1>1, <2>2 DEF add_permits, SleepersLackPermits
    <2> QED BY <2>1, <2>2
  <1>2. ASSUME NEW t \in Takers, Recheck(t) PROVE SleepersLackPermits'
    <2>1. want[t] \in Counts /\ want' = [want EXCEPT ![t] = want[t]]
      BY <1>2 DEF TypeOK, Recheck
    <2> QED BY <1>2, <2>1, SleepersTakeOrSleep DEF Recheck
  <1>3. ASSUME NEW t \in Takers, NEW n \in Counts, wait_for_permits(t, n)
        PROVE SleepersLackPermits'
    BY <1>3, SleepersTakeOrSleep DEF wait_for_permits
  <1>4. CASE UNCHANGED vars BY <1>4 DEF SleepersLackPermits, vars
  <1> QED BY <1>1, <1>2, <1>3, <1>4 DEF Next

(* No thread sleeps on permits that are there: the predicate with a side      *)
(* effect, callers with different counts and additions that were dropped       *)
(* never leave a sleeper behind that could be served.                         *)
THEOREM NoSleeperForgotten == Spec => []SleepersLackPermits
  <1>1. Init => TypeOK /\ SleepersLackPermits BY TypeInit, SleepersInit
  <1>2. (TypeOK /\ SleepersLackPermits) /\ [Next]_vars => (TypeOK /\ SleepersLackPermits)'
    BY TypeNext, SleepersNext
  <1> QED BY <1>1, <1>2, PTL DEF Spec

--------------------------------------------------------------------------------
(* The safety part of SemaphoreSpec. *)
SemaphoreSafely == Counter!Init /\ [][Counter!Next]_(Counter!vars)

Asked == [t \in Takers |-> IF pc[t] = "idle" THEN MaxCount + 1 ELSE want[t]]

LEMMA SemaphoreInit == Init => Counter!Init
  BY DEF Init, Counter!Init, Counter!NotWaiting

LEMMA SemaphoreTakeOrSleep ==
  ASSUME TypeOK, NEW t \in Takers, NEW n \in Counts, TakeOrSleep(t, n),
         want' = [want EXCEPT ![t] = n], Asked[t] \in {MaxCount + 1, n}
  PROVE  Counter!Next
  <1>1. permits \in Nat /\ n \in Nat BY CountsAreNat DEF TypeOK
  <1>2. CASE permits >= n /\ permits' = permits - n /\ pc' = [pc EXCEPT ![t] = "idle"]
    <2>1. Asked' = [Asked EXCEPT ![t] = MaxCount + 1]
      BY <1>2 DEF Asked, TypeOK
    <2>2. Counter!Acquire(t, n)
      BY <1>1, <1>2, <2>1 DEF Asked, Counter!Acquire, Counter!NotWaiting
    <2> QED BY <2>2 DEF Counter!Next
  <1>3. CASE permits < n /\ permits' = permits /\ pc' = [pc EXCEPT ![t] = "sleeping"]
    <2>1. Asked' = [Asked EXCEPT ![t] = n]
      BY <1>3 DEF Asked, TypeOK
    <2>2. Counter!Wait(t, n)
      BY <1>1, <1>3, <2>1 DEF Asked, Counter!Wait, Counter!NotWaiting
    <2> QED BY <2>2 DEF Counter!Next
  <1> QED BY <1>2, <1>3 DEF TakeOrSleep

LEMMA SemaphoreNext == TypeOK /\ [Next]_vars => [Counter!Next]_(Counter!vars)
  <1> SUFFICES ASSUME TypeOK, [Next]_vars PROVE [Counter!Next]_(Counter!vars)
    OBVIOUS
  <1>1. ASSUME NEW n \in Counts, add_permits(n) PROVE [Counter!Next]_(Counter!vars)
    <2>1. CASE permits + n <= MaxCount
      <3>1. permits' = permits + n /\ want' = want /\ pc' = [t \in Takers |-> Awake(pc[t])]
        BY <1>1, <2>1, CountsAreNat DEF add_permits, TypeOK
      <3>2. Asked' = Asked BY <3>1 DEF Asked, Awake, TypeOK
      <3>3. Counter!Release(n) BY <2>1, <3>1, <3>2 DEF Counter!Release, Asked
      <3> QED BY <3>3 DEF Counter!Next
    <2>2. CASE ~(permits + n <= MaxCount)
      BY <1>1, <2>2 DEF add_permits, Counter!vars
    <2> QED BY <2>1, <2>2
  <1>2. ASSUME NEW t \in Takers, Recheck(t) PROVE Counter!Next
    <2>1. want[t] \in Counts /\ want' = [want EXCEPT ![t] = want[t]]
      BY <1>2 DEF TypeOK, Recheck
    <2>2. Asked[t] \in {MaxCount + 1, want[t]} BY DEF Asked
    <2> QED BY <1>2, <2>1, <2>2, SemaphoreTakeOrSleep DEF Recheck
  <1>3. ASSUME NEW t \in Takers, NEW n \in Counts, wait_for_permits(t, n)
        PROVE Counter!Next
    <2>1. Asked[t] \in {MaxCount + 1, n} BY <1>3 DEF Asked, wait_for_permits
    <2> QED BY <1>3, <2>1, SemaphoreTakeOrSleep DEF wait_for_permits
  <1>4. CASE UNCHANGED vars BY <1>4 DEF vars, Counter!vars
  <1> QED BY <1>1, <1>2, <1>3, <1>4 DEF Next

(* Every step of Permits is one of the counting semaphore or changes nothing   *)
(* that its callers can see.                                                 *)
THEOREM ImplementsSemaphore == Spec => SemaphoreSafely
  <1>1. Init => TypeOK /\ Counter!Init BY TypeInit, SemaphoreInit
  <1>2. TypeOK /\ [Next]_vars => TypeOK' BY TypeNext
  <1>3. TypeOK /\ [Next]_vars => [Counter!Next]_(Counter!vars) BY SemaphoreNext
  <1> QED BY <1>1, <1>2, <1>3, PTL DEF Spec, SemaphoreSafely
================================================================================
