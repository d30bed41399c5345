------------------------------ MODULE LendingStack ------------------------------
(***************************************************************************)
(* LendingStack (utils/lifo.rs): a Vec behind a mutex, with one condition   *)
(* variable on which lend() sleeps while the Vec is empty.                  *)
(*                                                                          *)
(* A critical section of the mutex is one step.  Two things happen outside  *)
(* of it and are steps of their own: give_back() unlocks BEFORE it calls    *)
(* notify_one(), and a notified thread has to lock the mutex again before   *)
(* it looks at the Vec, so other threads run in between.  The condition     *)
(* variable is parking_lot's: wait() unlocks and enqueues atomically, and   *)
(* there are no spurious wake-ups.                                          *)
(***************************************************************************)
EXTENDS Naturals, Sequences, FiniteSets

CONSTANTS Borrowers, \* threads that call lend and try_lend (the runner's readers)
          Returners, \* threads that call give_back (the runner's workers)
          Elements,  \* the values it is created with
          Foreign    \* values that callers bring from elsewhere

Threads == Borrowers \union Returners

ASSUME ThreadsAssumption == IsFiniteSet(Threads)
ASSUME ElementsAssumption == /\ IsFiniteSet(Elements)
                             /\ Elements \intersect Foreign = {}

VARIABLES elements,  \* InnerLifo.elements, the top of the stack last
          out,       \* values the callers own
          pc         \* what each thread is doing in the stack's methods

vars == <<elements, out, pc>>

max == Cardinality(Elements)

Values == Elements \union Foreign

Sleeping == {t \in Threads : pc[t] = "sleeping"}
Woken == {t \in Threads : pc[t] = "woken"}
Notifying == {t \in Threads : pc[t] = "notify"}

InPool == {elements[i] : i \in DOMAIN elements}

TypeOK == /\ elements \in Seq(Values)
          /\ Len(elements) <= max
          /\ out \subseteq Values
          /\ pc \in [Threads -> {"idle", "sleeping", "woken", "notify"}]

Init == /\ elements \in {s \in [1 .. max -> Elements] :
                            \A i, j \in 1 .. max : s[i] = s[j] => i = j}
        /\ out = Foreign
        /\ pc = [t \in Threads |-> "idle"]

(* Vec::pop under the lock; the caller leaves the method with the value. *)
Pop(t) == /\ elements # <<>>
          /\ elements' = SubSeq(elements, 1, Len(elements) - 1)
          /\ out' = out \union {elements[Len(elements)]}
          /\ pc' = [pc EXCEPT ![t] = "idle"]

(* try_lend() that finds a value; one that finds none changes nothing. *)
TryLend(t) == pc[t] = "idle" /\ Pop(t)

(* Condvar::wait: unlock and join the sleepers in one step. *)
Wait(t) == /\ elements = <<>>
           /\ pc' = [pc EXCEPT ![t] = "sleeping"]
           /\ UNCHANGED <<elements, out>>

(* lend(): the first pass through its loop ... *)
Lend(t) == pc[t] = "idle" /\ (Pop(t) \/ Wait(t))

(* ... and the pass after a wake-up, which may find the stack empty again. *)
Retry(t) == pc[t] = "woken" /\ (Pop(t) \/ Wait(t))

(* Mutant of Push: a wake-up only when the stack was empty. *)
PushWakesIfEmpty(t, v) ==
    /\ Len(elements) < max
    /\ elements' = Append(elements, v)
    /\ pc' = [pc EXCEPT ![t] = IF elements = <<>> THEN "notify" ELSE "idle"]

(* give_back() with room: push, unlock, and notify_one() still to come. *)
Push(t, v) == /\ Len(elements) < max
              /\ elements' = Append(elements, v)
              /\ pc' = [pc EXCEPT ![t] = "notify"]


(* give_back() of a full stack returns the value; process_file ignores what *)
(* give_back returns, so the value is dropped.                              *)
Refuse == /\ Len(elements) >= max
          /\ UNCHANGED <<elements, pc>>

GiveBack(t, v) == /\ pc[t] = "idle"
                  /\ v \in out
                  /\ out' = out \ {v}
                  /\ Push(t, v) \/ Refuse

(* Mutant of NotifyOne: the wake-up is forgotten. *)
NotifyNobody(t) == /\ pc[t] = "notify"
                   /\ pc' = [pc EXCEPT ![t] = "idle"]
                   /\ UNCHANGED <<elements, out>>

(* notify_one() of a give_back() that pushed. *)
NotifyOne(t) ==
    /\ pc[t] = "notify"
    /\ \/ /\ Sleeping = {}
          /\ pc' = [pc EXCEPT ![t] = "idle"]
       \/ \E s \in Sleeping : pc' = [pc EXCEPT ![t] = "idle", ![s] = "woken"]
    /\ UNCHANGED <<elements, out>>

Next == \/ \E t \in Borrowers : TryLend(t) \/ Lend(t) \/ Retry(t)
        \/ \E t \in Returners : NotifyOne(t) \/ \E v \in Values : GiveBack(t, v)

(* Threads start operations when they like; one that is inside a method is  *)
(* scheduled by the operating system until it leaves it or sleeps.          *)
Fairness == /\ \A t \in Borrowers : WF_vars(Retry(t))
            /\ \A t \in Returners : WF_vars(NotifyOne(t))

Spec == Init /\ [][Next]_vars /\ Fairness

--------------------------------------------------------------------------------
(* A wake-up is never lost: notify_one() is called after the unlock, so     *)
(* values can be on the stack while threads sleep, but never more of them   *)
(* than threads that are awake and about to take one, or about to wake one  *)
(* (lifo.rs "wake just one thread, cause we've given back only one          *)
(* element").                                                               *)
NoLostWakeup == Sleeping # {} =>
    Len(elements) <= Cardinality(Woken) + Cardinality(Notifying)

(* A value is in one place: it is on the stack once at most, and never while *)
(* it is lent.                                                               *)
SingleOwner == /\ Cardinality(InPool) = Len(elements)
               /\ InPool \intersect out = {}

(* The stack keeps every promise of the abstract pool, its service of the   *)
(* waiting threads included.                                                *)
Pool == INSTANCE LendingPool WITH Threads <- Borrowers,
                                  free <- InPool,
                                  waiting <- Sleeping \union Woken

PoolSpec == Pool!Spec
================================================================================
