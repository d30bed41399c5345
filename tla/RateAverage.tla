------------------------------ MODULE RateAverage ------------------------------
(***************************************************************************)
(* AveragePerTick (utils/mod.rs): a counter that threads add to, and the last *)
(* samples of it in an array that is written round and round under a lock.   *)
(* The index goes on to twice the size of the array and then back to the     *)
(* size, so that it also says whether the array was filled once.              *)
(*                                                                          *)
(* sample_now empties the counter BEFORE it takes the lock, and reset too:    *)
(* another thread may come between.                                          *)
(***************************************************************************)
EXTENDS Integers, Sequences, FiniteSets, SequencesExt, FiniteSetsExt

CONSTANTS
    Samplers,   \* threads that call sample_now
    Windows     \* sizes of the array; 0 is Default, as of a runner without stats

ASSUME RateAssumption == IsFiniteSet(Samplers) /\ Windows \subseteq Nat

VARIABLES
    current,    \* the counter
    array, index,   \* what the lock is around
    hand,       \* the sample that a thread has collected and not written yet
    resetting,  \* reset has emptied the counter and not yet the array
    recent,     \* history: the last samples written, as many as the array holds
    gone        \* history: what fell out of the array or was reset

rateVars == <<current, array, index, hand, resetting, recent, gone>>

SumOf(s) == LET sum[n \in 0 .. Len(s)] == IF n = 0 THEN 0 ELSE sum[n - 1] + s[n]
            IN  sum[Len(s)]
Nothing == <<>>

RateInit == /\ current = 0
            /\ \E window \in Windows : array = [i \in 1 .. window |-> 0]
            /\ index = 0
            /\ hand = [t \in Samplers |-> Nothing]
            /\ resetting = FALSE
            /\ recent = <<>> /\ gone = 0

append(value) == /\ current' = current + value
                 /\ UNCHANGED <<array, index, hand, resetting, recent, gone>>

(* Mutant of Collect: the counter is read, and not emptied. *)
CollectReads(t) == /\ hand[t] = Nothing
                   /\ hand' = [hand EXCEPT ![t] = <<current>>]
                   /\ UNCHANGED <<current, array, index, resetting, recent, gone>>

(* sample_now *)
Collect(t) == /\ hand[t] = Nothing
              /\ hand' = [hand EXCEPT ![t] = <<current>>]
              /\ current' = 0
              /\ UNCHANGED <<array, index, resetting, recent, gone>>

(* Mutant of NextIndex: the index starts from zero again. *)
NextIndexFromZero == IF index >= 2 * Len(array) - 1 THEN 0 ELSE index + 1

NextIndex == IF index >= 2 * Len(array) - 1 THEN Len(array) ELSE index + 1

Sampled(value) ==
    LET all == Append(recent, value)
        old == Len(all) - Min({Len(all), Len(array)})
    IN  /\ recent' = SubSeq(all, old + 1, Len(all))
        /\ gone' = gone + SumOf(SubSeq(all, 1, old))

WriteSample(t) ==
    /\ hand[t] # Nothing
    /\ hand' = [hand EXCEPT ![t] = Nothing]
    /\ Sampled(hand[t][1])
    /\ IF array = <<>> THEN UNCHANGED <<array, index>>
       ELSE /\ index' = NextIndex
            /\ array' = [array EXCEPT ![(index % Len(array)) + 1] = hand[t][1]]
    /\ UNCHANGED <<current, resetting>>

ResetCounter == /\ ~resetting
                /\ resetting' = TRUE
                /\ current' = 0
                /\ gone' = gone + current
                /\ UNCHANGED <<array, index, hand, recent>>

ResetArray == /\ resetting
              /\ resetting' = FALSE
              /\ index' = 0
              /\ array' = [i \in DOMAIN array |-> 0]
              /\ recent' = <<>>
              /\ gone' = gone + SumOf(recent)
              /\ UNCHANGED <<current, hand>>

(* sample_now and reset; Threads without the reader. *)
Ticking == \/ \E t \in Samplers : Collect(t) \/ WriteSample(t)
           \/ ResetCounter \/ ResetArray

get_avg == LET slice == SubSeq(array, 1, Min({Len(array), index}))
           IN  IF slice = <<>> THEN 0 ELSE SumOf(slice) \div Len(slice)

--------------------------------------------------------------------------------
(* What get_avg returns at any moment is the average of the samples written    *)
(* last, as many as there are since the last reset and no more than the window, *)
(* however often the index has gone round (test_deterministic_average).        *)
AverageOfRecent ==
    get_avg = IF recent = <<>> THEN 0 ELSE SumOf(recent) \div Len(recent)
================================================================================
