------------------------------ MODULE MergeInPlace ------------------------------
(***************************************************************************)
(* merge_sort_in_place (utils/sort.rs) on the first two sorted parts of an    *)
(* array, which find_sort_split_index tells apart.  Each part is walked by an *)
(* iterator of references; the greater of two items is swapped to the second  *)
(* part, and what is left when one part ends is moved on within the other.    *)
(***************************************************************************)
EXTENDS Integers, Sequences, SequencesExt, FiniteSetsExt

CONSTANTS Items,    \* what is sorted
          MaxItems  \* items of the array (bounds the run)

VARIABLES array, split, end,    \* the parts are 1 .. split and split + 1 .. end
          curr_prev, curr_next, \* the item in hand of each, or one past its part
          at, held, elem        \* "merge", "bubble" or "done"; bubble's value and item

mergeVars == <<array, split, end, curr_prev, curr_next, at, held, elem>>

(* Zero for an array that is sorted. *)
find_sort_split_index(s) == LET falls == {i \in 1 .. Len(s) - 1 : s[i] > s[i + 1]}
                            IN  IF falls = {} THEN 0 ELSE Min(falls)

MergeInit == /\ array \in UNION {[1 .. n -> Items] : n \in 0 .. MaxItems}
             /\ split = find_sort_split_index(array)
             /\ LET rest == SubSeq(array, split + 1, Len(array))
                    fall == find_sort_split_index(rest)
                IN  end = IF fall = 0 THEN Len(array) ELSE split + fall
             /\ curr_prev = 1 /\ curr_next = split + 1
             /\ at = "merge" /\ held = 0 /\ elem = 0

HasPrev == curr_prev <= split
HasNext == curr_next <= end

Swap(i, j) == array' = [array EXCEPT ![i] = array[j], ![j] = array[i]]

Compare == /\ at = "merge" /\ HasPrev /\ HasNext
           /\ IF array[curr_prev] > array[curr_next]
              THEN Swap(curr_prev, curr_next) /\ curr_next' = curr_next + 1 /\ UNCHANGED curr_prev
              ELSE curr_prev' = curr_prev + 1 /\ UNCHANGED <<array, curr_next>>
           /\ UNCHANGED <<split, end, at, held, elem>>

(* One part has ended: bubble gets the item in hand of the other, and the     *)
(* items behind it.                                                          *)
PartEnds == /\ at = "merge" /\ ~(HasPrev /\ HasNext)
            /\ at' = IF HasPrev \/ HasNext THEN "bubble" ELSE "done"
            /\ held' = IF HasPrev THEN curr_prev ELSE curr_next
            /\ elem' = held' + 1
            /\ UNCHANGED <<array, split, end, curr_prev, curr_next>>

Bubble == /\ at = "bubble"
          /\ IF elem <= (IF HasPrev THEN split ELSE end) /\ array[held] > array[elem]
             THEN Swap(held, elem) /\ elem' = elem + 1 /\ UNCHANGED at
             ELSE at' = "done" /\ UNCHANGED <<array, elem>>
          /\ UNCHANGED <<split, end, curr_prev, curr_next, held>>

MergeNext == Compare \/ PartEnds \/ Bubble

MergeSpec == MergeInit /\ [][MergeNext]_mergeVars

--------------------------------------------------------------------------------
(* sort.rs "run from start of array, and merge first two sorted parts of       *)
(* elements into one sorted part": when it is done, both parts are one.        *)
PartsMerged == at = "done" => \A i \in 1 .. end - 1 : array[i] <= array[i + 1]
================================================================================
