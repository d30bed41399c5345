--------------------------- MODULE LendingStackProofs ---------------------------
(***************************************************************************)
(* Proofs about LendingStack, for any threads and any values.                *)
(***************************************************************************)
EXTENDS LendingStack, Integers, FunctionTheorems, FiniteSetTheorems, SequenceTheorems, TLAPS

LEMMA MaxIsNat == max \in Nat
  BY ElementsAssumption, FS_CardinalityType DEF max

States == {"idle", "sleeping", "woken", "notify"}

--------------------------------------------------------------------------------
(* What Vec::pop and Vec::push do to the sequence of elements. *)
LEMMA PopElements ==
  ASSUME TypeOK, elements # <<>>, elements' = SubSeq(elements, 1, Len(elements) - 1)
  PROVE  /\ Len(elements) \in Nat \ {0}
         /\ elements' \in Seq(Values)
         /\ Len(elements') = Len(elements) - 1
         /\ \A i \in 1 .. Len(elements') : elements'[i] = elements[i]
         /\ elements[Len(elements)] \in Values
  <1>1. elements \in Seq(Values) /\ Len(elements) \in Nat \ {0}
    BY EmptySeq DEF TypeOK
  <1>2. \A i \in 1 .. Len(elements) : elements[i] \in Values BY <1>1, ElementOfSeq
  <1>3. \A i \in 1 .. Len(elements) - 1 : elements[i] \in Values BY <1>1, <1>2
  <1>4. /\ SubSeq(elements, 1, Len(elements) - 1) \in Seq(Values)
        /\ Len(SubSeq(elements, 1, Len(elements) - 1)) = Len(elements) - 1
        /\ \A i \in 1 .. Len(elements) - 1 :
              SubSeq(elements, 1, Len(elements) - 1)[i] = elements[i]
    <2> DEFINE n == Len(elements) - 1
               front == SubSeq(elements, 1, n)
    <2>1. n \in Nat BY <1>1
    <2>2. /\ front \in Seq(Values)
          /\ Len(front) = IF 1 <= n THEN n - 1 + 1 ELSE 0
          /\ \A i \in 1 .. n - 1 + 1 : front[i] = elements[1 + i - 1]
      <3> HIDE DEF n
      <3> QED BY <1>3, <2>1, SubSeqProperties DEF n
    <2>3. front \in Seq(Values) /\ Len(front) = n /\ \A i \in 1 .. n : front[i] = elements[i]
      <3> HIDE DEF n, front
      <3> QED BY <2>1, <2>2
    <2> QED BY <2>3
  <1> QED BY <1>1, <1>2, <1>4

LEMMA PushElements ==
  ASSUME TypeOK, NEW v \in Values, elements' = Append(elements, v)
  PROVE  /\ Len(elements) \in Nat
         /\ elements' \in Seq(Values)
         /\ Len(elements') = Len(elements) + 1
         /\ \A i \in 1 .. Len(elements) : elements'[i] = elements[i]
         /\ elements'[Len(elements) + 1] = v
  <1>1. elements \in Seq(Values) /\ Len(elements) \in Nat BY LenProperties DEF TypeOK
  <1> QED BY <1>1

LEMMA TypeInit == Init => TypeOK
  <1> SUFFICES ASSUME Init PROVE TypeOK
    OBVIOUS
  <1>1. elements \in [1 .. max -> Elements] BY DEF Init
  <1>2. elements \in Seq(Values) /\ Len(elements) = max BY <1>1, MaxIsNat DEF Values
  <1> QED BY <1>2, MaxIsNat DEF Init, TypeOK, Values

LEMMA TypePop == ASSUME TypeOK, NEW t \in Threads, Pop(t) PROVE TypeOK'
  <1>1. elements' \in Seq(Values) /\ Len(elements') <= max
    BY PopElements, MaxIsNat DEF Pop, TypeOK
  <1>2. out' \subseteq Values BY PopElements DEF Pop, TypeOK
  <1> QED BY <1>1, <1>2 DEF Pop, TypeOK

LEMMA TypeNext == TypeOK /\ [Next]_vars => TypeOK'
  <1> SUFFICES ASSUME TypeOK, [Next]_vars PROVE TypeOK'
    OBVIOUS
  <1>1. ASSUME NEW t \in Borrowers, TryLend(t) \/ Lend(t) \/ Retry(t) PROVE TypeOK'
    <2>1. t \in Threads BY DEF Threads
    <2>2. CASE Pop(t) BY <2>1, <2>2, TypePop
    <2>3. CASE Wait(t) BY <2>1, <2>3 DEF Wait, TypeOK
    <2> QED BY <1>1, <2>2, <2>3 DEF TryLend, Lend, Retry
  <1>2. ASSUME NEW t \in Returners, NotifyOne(t) PROVE TypeOK'
    <2>1. t \in Threads BY DEF Threads
    <2>2. pc' \in [Threads -> States]
      BY <1>2, <2>1 DEF NotifyOne, TypeOK, Sleeping, States
    <2> QED BY <1>2, <2>2 DEF NotifyOne, TypeOK, States
  <1>3. ASSUME NEW t \in Returners, NEW v \in Values, GiveBack(t, v) PROVE TypeOK'
    <2>1. t \in Threads BY DEF Threads
    <2>2. out' \subseteq Values BY <1>3 DEF GiveBack, TypeOK
    <2>3. CASE Push(t, v)
      <3>1. elements' \in Seq(Values) /\ Len(elements') <= max
        BY <2>3, PushElements, MaxIsNat DEF Push
      <3> QED BY <2>1, <2>2, <2>3, <3>1 DEF Push, TypeOK
    <2>4. CASE Refuse BY <2>2, <2>4 DEF Refuse, TypeOK
    <2> QED BY <1>3, <2>3, <2>4 DEF GiveBack
  <1>4. CASE UNCHANGED vars BY <1>4 DEF vars, TypeOK
  <1> QED BY <1>1, <1>2, <1>3, <1>4 DEF Next

(* The stack never holds more values than it was created with, whoever gives   *)
(* what back (lifo.rs 68-70).                                                 *)
THEOREM StackTyped == Spec => []TypeOK
  <1>1. Init => TypeOK BY TypeInit
  <1>2. TypeOK /\ [Next]_vars => TypeOK' BY TypeNext
  <1> QED BY <1>1, <1>2, PTL DEF Spec

--------------------------------------------------------------------------------
(* Wake-ups.  A thread is in one of the three sets at most, and a step moves   *)
(* one thread between them.                                                   *)
LEMMA CountsAreNat ==
  /\ IsFiniteSet(Sleeping) /\ IsFiniteSet(Woken) /\ IsFiniteSet(Notifying)
  /\ Cardinality(Woken) \in Nat /\ Cardinality(Notifying) \in Nat
  BY ThreadsAssumption, FS_Subset, FS_CardinalityType DEF Sleeping, Woken, Notifying

LEMMA WakeUpsPop ==
  ASSUME TypeOK, NoLostWakeup, NEW t \in Threads, Pop(t), pc[t] \in {"idle", "woken"}
  PROVE  NoLostWakeup'
  <1>1. Len(elements) \in Nat \ {0} /\ Len(elements') = Len(elements) - 1
    BY PopElements DEF Pop
  <1>2. Sleeping' = Sleeping /\ Notifying' = Notifying
    BY DEF Pop, TypeOK, Sleeping, Notifying
  <1>3. Woken' = Woken \ {t} BY DEF Pop, TypeOK, Woken
  <1>4. Cardinality(Woken') \in {Cardinality(Woken), Cardinality(Woken) - 1}
    BY <1>3, CountsAreNat, FS_RemoveElement
  <1> QED BY <1>1, <1>2, <1>4, CountsAreNat DEF NoLostWakeup

LEMMA WakeUpsWait ==
  ASSUME TypeOK, NEW t \in Threads, Wait(t)
  PROVE  NoLostWakeup'
  <1>1. Len(elements') = 0 BY DEF Wait
  <1>2. Cardinality(Woken') \in Nat /\ Cardinality(Notifying') \in Nat
    BY ThreadsAssumption, FS_Subset, FS_CardinalityType DEF Woken, Notifying
  <1> QED BY <1>1, <1>2 DEF NoLostWakeup

LEMMA WakeUpsPush ==
  ASSUME TypeOK, NoLostWakeup, NEW t \in Threads, NEW v \in Values, pc[t] = "idle", Push(t, v)
  PROVE  NoLostWakeup'
  <1>1. Len(elements) \in Nat /\ Len(elements') = Len(elements) + 1
    BY PushElements DEF Push
  <1>2. Sleeping' = Sleeping /\ Woken' = Woken BY DEF Push, TypeOK, Sleeping, Woken
  <1>3. Notifying' = Notifying \union {t} /\ t \notin Notifying
    BY DEF Push, TypeOK, Notifying
  <1>4. Cardinality(Notifying') = Cardinality(Notifying) + 1
    BY <1>3, CountsAreNat, FS_AddElement
  <1> QED BY <1>1, <1>2, <1>4, CountsAreNat DEF NoLostWakeup

LEMMA WakeUpsNotify ==
  ASSUME TypeOK, NoLostWakeup, NEW t \in Threads, NotifyOne(t)
  PROVE  NoLostWakeup'
  <1>1. CASE Sleeping = {} /\ pc' = [pc EXCEPT ![t] = "idle"]
    <2>1. Sleeping' = {} BY <1>1 DEF TypeOK, Sleeping
    <2> QED BY <2>1 DEF NoLostWakeup
  <1>2. ASSUME NEW s \in Sleeping, pc' = [pc EXCEPT ![t] = "idle", ![s] = "woken"]
        PROVE  NoLostWakeup'
    <2>1. s \in Threads /\ pc[s] = "sleeping" /\ pc[t] = "notify"
      BY DEF Sleeping, NotifyOne
    <2>2. Woken' = Woken \union {s} /\ s \notin Woken BY <1>2, <2>1 DEF Woken, TypeOK
    <2>3. Notifying' = Notifying \ {t} /\ t \in Notifying
      BY <1>2, <2>1 DEF Notifying, TypeOK
    <2>4. Cardinality(Woken') = Cardinality(Woken) + 1 BY <2>2, CountsAreNat, FS_AddElement
    <2>5. Cardinality(Notifying') = Cardinality(Notifying) - 1
      BY <2>3, CountsAreNat, FS_RemoveElement
    <2>6. Len(elements) <= Cardinality(Woken) + Cardinality(Notifying)
      BY DEF NoLostWakeup
    <2>7. Len(elements) \in Nat /\ elements' = elements
      BY LenProperties DEF TypeOK, NotifyOne
    <2> QED BY <2>4, <2>5, <2>6, <2>7, CountsAreNat DEF NoLostWakeup
  <1> QED BY <1>1, <1>2 DEF NotifyOne

LEMMA WakeUpsNext == TypeOK /\ NoLostWakeup /\ [Next]_vars => NoLostWakeup'
  <1> SUFFICES ASSUME TypeOK, NoLostWakeup, [Next]_vars PROVE NoLostWakeup'
    OBVIOUS
  <1>1. ASSUME NEW t \in Borrowers, TryLend(t) \/ Lend(t) \/ Retry(t) PROVE NoLostWakeup'
    <2>1. t \in Threads BY DEF Threads
    <2> QED BY <1>1, <2>1, WakeUpsPop, WakeUpsWait DEF TryLend, Lend, Retry
  <1>2. ASSUME NEW t \in Returners, NotifyOne(t) PROVE NoLostWakeup'
    BY <1>2, WakeUpsNotify DEF Threads
  <1>3. ASSUME NEW t \in Returners, NEW v \in Values, GiveBack(t, v) PROVE NoLostWakeup'
    <2>1. CASE Push(t, v) BY <1>3, <2>1, WakeUpsPush DEF GiveBack, Threads
    <2>2. CASE Refuse
      BY <2>2 DEF Refuse, NoLostWakeup, Sleeping, Woken, Notifying
    <2> QED BY <1>3, <2>1, <2>2 DEF GiveBack
  <1>4. CASE UNCHANGED vars
    BY <1>4 DEF vars, NoLostWakeup, Sleeping, Woken, Notifying
  <1> QED BY <1>1, <1>2, <1>3, <1>4 DEF Next

(* While threads sleep, every value on the stack has a thread that is awake    *)
(* for it, or one that is about to wake a thread: notifying after the unlock   *)
(* loses no wake-up.                                                          *)
THEOREM WakeUpsKept == Spec => []NoLostWakeup
  <1>1. Init => TypeOK BY TypeInit
  <1>2. Init => NoLostWakeup BY DEF Init, NoLostWakeup, Sleeping
  <1>3. TypeOK /\ [Next]_vars => TypeOK' BY TypeNext
  <1>4. TypeOK /\ NoLostWakeup /\ [Next]_vars => NoLostWakeup' BY WakeUpsNext
  <1> QED BY <1>1, <1>2, <1>3, <1>4, PTL DEF Spec

--------------------------------------------------------------------------------
(* Ownership.  A stack without repeated values has as many values as elements. *)
Unrepeated == \A i, j \in 1 .. Len(elements) : elements[i] = elements[j] => i = j

OwnedOnce == Unrepeated /\ InPool \intersect out = {}

LEMMA InPoolByIndex ==
  ASSUME TypeOK
  PROVE  /\ Len(elements) \in Nat
         /\ InPool = {elements[i] : i \in 1 .. Len(elements)}
  BY LenProperties DEF TypeOK, InPool

LEMMA InPoolSize == ASSUME TypeOK, Unrepeated PROVE Cardinality(InPool) = Len(elements)
  <1>1. Len(elements) \in Nat /\ DOMAIN elements = 1 .. Len(elements)
    BY LenProperties DEF TypeOK
  <1>2. elements \in [1 .. Len(elements) -> Values] BY LenProperties DEF TypeOK
  <1>3. elements \in [1 .. Len(elements) -> InPool] BY <1>1, <1>2 DEF InPool
  <1>4. elements \in Bijection(1 .. Len(elements), InPool)
    BY <1>1, <1>3 DEF Bijection, Injection, Surjection, IsInjective, Unrepeated, InPool
  <1> QED BY <1>1, <1>4, FS_CountingElements DEF ExistsBijection

LEMMA InitPool ==
  ASSUME Init PROVE InPool = Elements /\ Unrepeated
  <1>1. /\ elements \in [1 .. max -> Elements] /\ Len(elements) = max
        /\ \A i, j \in 1 .. max : elements[i] = elements[j] => i = j
    BY MaxIsNat DEF Init
  <1>2. elements \in Injection(1 .. max, Elements)
    BY <1>1 DEF Injection, IsInjective
  <1>3. IsFiniteSet(1 .. max) /\ Cardinality(1 .. max) = max
    BY MaxIsNat, FS_Interval
  <1>4. elements \in Surjection(1 .. max, Elements)
    BY <1>2, <1>3, ElementsAssumption, FS_Injection DEF max
  <1>5. DOMAIN elements = 1 .. max BY <1>1
  <1> QED BY <1>1, <1>4, <1>5 DEF Surjection, InPool, Unrepeated

LEMMA PopPool ==
  ASSUME TypeOK, OwnedOnce, NEW t \in Threads, Pop(t)
  PROVE  /\ elements[Len(elements)] \in InPool
         /\ InPool' = InPool \ {elements[Len(elements)]}
         /\ OwnedOnce'
  <1> DEFINE n == Len(elements)
             top == elements[n]
  <1>1. /\ n \in Nat \ {0} /\ Len(elements') = n - 1
        /\ \A i \in 1 .. n - 1 : elements'[i] = elements[i]
    BY PopElements DEF Pop
  <1>2. InPool = {elements[i] : i \in 1 .. n} BY InPoolByIndex
  <1>3. InPool' = {elements'[i] : i \in 1 .. n - 1}
    <2>1. TypeOK' BY TypePop
    <2>2. elements' \in Seq(Values') BY <2>1 DEF TypeOK
    <2>3. DOMAIN elements' = 1 .. Len(elements') BY <2>2, LenProperties
    <2> QED BY <1>1, <2>3 DEF InPool
  <1>4. \A i, j \in 1 .. n : elements[i] = elements[j] => i = j BY DEF OwnedOnce, Unrepeated
  <1> HIDE DEF n
  <1>5. top \in InPool BY <1>1, <1>2
  <1>6. InPool' = {elements[i] : i \in 1 .. n - 1} BY <1>1, <1>3
  <1>7. InPool' = InPool \ {top} BY <1>1, <1>2, <1>4, <1>6
  <1>8. Unrepeated' BY <1>1, <1>4 DEF Unrepeated
  <1>9. out' = out \union {top} BY DEF Pop, n
  <1> QED BY <1>5, <1>7, <1>8, <1>9 DEF OwnedOnce, n

LEMMA PushPool ==
  ASSUME TypeOK, OwnedOnce, NEW t \in Threads, NEW v \in out, v \in Values,
         Push(t, v), out' = out \ {v}
  PROVE  InPool' = InPool \union {v} /\ OwnedOnce'
  <1> DEFINE n == Len(elements)
  <1>1. /\ n \in Nat /\ Len(elements') = n + 1 /\ elements'[n + 1] = v
        /\ \A i \in 1 .. n : elements'[i] = elements[i]
        /\ elements' \in Seq(Values)
    BY PushElements DEF Push
  <1>2. InPool = {elements[i] : i \in 1 .. n} BY InPoolByIndex
  <1>3. InPool' = {elements'[i] : i \in 1 .. n + 1}
    <2>1. DOMAIN elements' = 1 .. n + 1 BY <1>1, LenProperties
    <2> QED BY <2>1 DEF InPool
  <1>4. \A i, j \in 1 .. n : elements[i] = elements[j] => i = j BY DEF OwnedOnce, Unrepeated
  <1> HIDE DEF n
  <1>5. 1 .. n + 1 = (1 .. n) \union {n + 1} BY <1>1
  <1>6. InPool' = InPool \union {v} BY <1>1, <1>2, <1>3, <1>5
  <1>7. \A i \in 1 .. n : elements[i] # v BY <1>2 DEF OwnedOnce
  <1>8. Unrepeated'
    <2> SUFFICES ASSUME NEW i \in 1 .. n + 1, NEW j \in 1 .. n + 1, elements'[i] = elements'[j]
                 PROVE  i = j
      BY <1>1 DEF Unrepeated
    <2> QED BY <1>1, <1>4, <1>5, <1>7
  <1> QED BY <1>6, <1>8 DEF OwnedOnce

(* LendingPool has FiniteSets of its own, with the same definition.            *)
LEMMA SameCardinality == \A S : Pool!Cardinality(S) = Cardinality(S)
  BY Zenon DEF Cardinality, Pool!Cardinality

(* The safety part of PoolSpec. *)
PoolSafely == Pool!Init /\ [][Pool!Next]_(Pool!vars)

LEMMA PoolInit == Init => OwnedOnce /\ Pool!Init
  <1> SUFFICES ASSUME Init PROVE OwnedOnce /\ Pool!Init
    OBVIOUS
  <1>1. InPool = Elements /\ Unrepeated BY InitPool
  <1> QED BY <1>1, ElementsAssumption
          DEF Init, OwnedOnce, Pool!Init, Sleeping, Woken

LEMMA PoolNext == TypeOK /\ OwnedOnce /\ [Next]_vars => OwnedOnce' /\ [Pool!Next]_(Pool!vars)
  <1> SUFFICES ASSUME TypeOK, OwnedOnce, [Next]_vars
               PROVE  OwnedOnce' /\ [Pool!Next]_(Pool!vars)
    OBVIOUS
  <1> DEFINE Waiting == Sleeping \union Woken
  <1>1. ASSUME NEW t \in Borrowers, TryLend(t) \/ Lend(t) \/ Retry(t)
        PROVE  OwnedOnce' /\ [Pool!Next]_(Pool!vars)
    <2>1. t \in Threads BY DEF Threads
    <2>2. CASE Pop(t)
      <3>1. PICK v \in InPool : InPool' = InPool \ {v} /\ out' = out \union {v}
        BY <2>1, <2>2, PopPool DEF Pop
      <3>2. Waiting' = Waiting \ {t} BY <2>2 DEF Pop, Sleeping, Woken, TypeOK
      <3>3. Pool!Take(t) BY <3>1, <3>2 DEF Pool!Take
      <3> QED BY <2>1, <2>2, <3>3, PopPool DEF Pool!Next
    <2>3. CASE Wait(t)
      <3>1. InPool = {} BY <2>3 DEF Wait, InPool
      <3>2. Waiting' = Waiting \union {t} BY <2>1, <2>3 DEF Wait, Sleeping, Woken, TypeOK
      <3>3. InPool' = InPool /\ out' = out BY <2>3 DEF Wait, InPool
      <3>4. Pool!Wait(t) BY <3>1, <3>2, <3>3 DEF Pool!Wait
      <3>5. OwnedOnce' BY <2>3, <3>3 DEF OwnedOnce, Unrepeated, Wait
      <3> QED BY <3>4, <3>5 DEF Pool!Next
    <2> QED BY <1>1, <2>2, <2>3 DEF TryLend, Lend, Retry
  <1>2. ASSUME NEW t \in Returners, NotifyOne(t)
        PROVE  OwnedOnce' /\ [Pool!Next]_(Pool!vars)
    <2>1. InPool' = InPool /\ out' = out BY <1>2 DEF NotifyOne, InPool
    <2>2. t \in Threads /\ pc[t] = "notify" BY <1>2 DEF Threads, NotifyOne
    <2>3. Waiting' = Waiting BY <1>2, <2>2 DEF NotifyOne, Sleeping, Woken, TypeOK
    <2>4. OwnedOnce' BY <1>2, <2>1 DEF OwnedOnce, Unrepeated, NotifyOne
    <2> QED BY <2>1, <2>3, <2>4 DEF Pool!vars
  <1>3. ASSUME NEW t \in Returners, NEW v \in Values, GiveBack(t, v)
        PROVE  OwnedOnce' /\ [Pool!Next]_(Pool!vars)
    <2>1. t \in Threads /\ v \in out /\ out' = out \ {v} /\ pc[t] = "idle"
      BY <1>3 DEF Threads, GiveBack
    <2>2. Cardinality(InPool) = Len(elements) /\ Len(elements) \in Nat
      BY InPoolSize, InPoolByIndex DEF OwnedOnce
    <2>3. v \in Elements \union Foreign BY DEF Values
    <2>4. CASE Push(t, v)
      <3>1. InPool' = InPool \union {v} /\ OwnedOnce' BY <2>1, <2>4, PushPool
      <3>2. Cardinality(InPool) < Cardinality(Elements) BY <2>2, <2>4 DEF Push, max
      <3>3. Waiting' = Waiting BY <2>1, <2>4 DEF Push, Sleeping, Woken, TypeOK
      <3>4. Pool!Give(v) BY <2>1, <3>1, <3>2, <3>3, SameCardinality DEF Pool!Give
      <3> QED BY <2>3, <3>1, <3>4 DEF Pool!Next
    <2>5. CASE Refuse
      <3>1. Len(elements) = max BY <2>2, <2>5, MaxIsNat DEF Refuse, TypeOK
      <3>2. InPool' = InPool /\ Waiting' = Waiting
        BY <2>5 DEF Refuse, InPool, Sleeping, Woken
      <3>3. Pool!Reject(v) BY <2>1, <2>2, <3>1, <3>2, SameCardinality DEF Pool!Reject, max
      <3>4. OwnedOnce' BY <2>1, <2>5, <3>2 DEF OwnedOnce, Unrepeated, Refuse
      <3> QED BY <2>3, <3>3, <3>4 DEF Pool!Next
    <2> QED BY <1>3, <2>4, <2>5 DEF GiveBack
  <1>4. CASE UNCHANGED vars
    BY <1>4 DEF vars, OwnedOnce, Unrepeated, InPool, Sleeping, Woken, Pool!vars
  <1> QED BY <1>1, <1>2, <1>3, <1>4 DEF Next

(* A value is in one place: it is on the stack once at most, and never while   *)
(* it is lent.                                                               *)
THEOREM OneOwner == Spec => []SingleOwner
  <1>1. Init => TypeOK /\ OwnedOnce BY TypeInit, PoolInit
  <1>2. (TypeOK /\ OwnedOnce) /\ [Next]_vars => (TypeOK /\ OwnedOnce)'
    BY TypeNext, PoolNext
  <1>3. TypeOK /\ OwnedOnce => SingleOwner BY InPoolSize DEF OwnedOnce, SingleOwner
  <1> QED BY <1>1, <1>2, <1>3, PTL DEF Spec

(* Every step of the stack is one of the abstract pool, or changes nothing     *)
(* that its callers can see.                                                  *)
THEOREM ImplementsPool == Spec => PoolSafely
  <1>1. Init => TypeOK /\ OwnedOnce /\ Pool!Init BY TypeInit, PoolInit
  <1>2. (TypeOK /\ OwnedOnce) /\ [Next]_vars => (TypeOK /\ OwnedOnce)'
    BY TypeNext, PoolNext
  <1>3. (TypeOK /\ OwnedOnce) /\ [Next]_vars => [Pool!Next]_(Pool!vars) BY PoolNext
  <1> QED BY <1>1, <1>2, <1>3, PTL DEF Spec, PoolSafely
================================================================================
