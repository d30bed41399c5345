------------------------------ MODULE MergeSorted ------------------------------
(***************************************************************************)
(* MergeSortedWith (utils/sort.rs): an iterator that merges two sorted ones  *)
(* into one, lazily.  It holds back the greater of two items and compares it *)
(* with the next ones of the OTHER side, until it is passed and the sides    *)
(* change their roles.  An Option is a sequence of at most one element.      *)
(***************************************************************************)
EXTENDS Integers, Sequences

CONSTANT Greater(_, _)  \* what compare says of two items

None == <<>>

MergeSortedWith(ia, ib) == [ia |-> ia, ib |-> ib, last |-> None, from_a |-> FALSE]

(* An item that is returned, and the merge afterwards.                       *)
Give(item, merge) == [item |-> item, merge |-> merge]

FirstOf(s) == IF s = <<>> THEN None ELSE <<Head(s)>>
RestOf(s) == SubSeq(s, 2, Len(s))

(* Nothing is held: an item is taken from both sides, and one of them kept.  *)
Begin(m) ==
    LET m2 == [m EXCEPT !.ia = RestOf(@), !.ib = RestOf(@)]
    IN  IF m.ia = <<>> \/ m.ib = <<>> THEN Give(FirstOf(m.ia \o m.ib), m2)
        ELSE IF Greater(Head(m.ia), Head(m.ib))
        THEN Give(FirstOf(m.ib), [m2 EXCEPT !.last = FirstOf(m.ia), !.from_a = TRUE])
        ELSE Give(FirstOf(m.ia), [m2 EXCEPT !.last = FirstOf(m.ib), !.from_a = FALSE])

(* Mutant of Meet: the side that the held item is of is not switched.        *)
MeetSticks(m, b, m2) ==
    IF b = None THEN Give(m.last, [m EXCEPT !.last = None])
    ELSE IF Greater(m.last[1], b[1]) THEN Give(b, m2)
    ELSE Give(m.last, [m2 EXCEPT !.last = b])

(* The item that is held meets the next one, b, of the other side.           *)
Meet(m, b, m2) ==
    IF b = None THEN Give(m.last, [m EXCEPT !.last = None])
    ELSE IF Greater(m.last[1], b[1]) THEN Give(b, m2)
    ELSE Give(m.last, [m2 EXCEPT !.last = b, !.from_a = ~@])

next_item(m) ==
    IF m.last = None THEN Begin(m)
    ELSE IF m.from_a THEN Meet(m, FirstOf(m.ib), [m EXCEPT !.ib = RestOf(@)])
    ELSE Meet(m, FirstOf(m.ia), [m EXCEPT !.ia = RestOf(@)])

(* Exact, when the sizes of both sides are.  The mutant forgets the item that *)
(* is held.                                                                  *)
size_hint_sides(m) == Len(m.ia) + Len(m.ib)

size_hint(m) == Len(m.ia) + Len(m.ib) + Len(m.last)
================================================================================
