------------------------------- MODULE DiffingIter -------------------------------
(***************************************************************************)
(* DiffingIter (store/mod.rs): one pass over two runs of hash entries sorted *)
(* by their names, the old files and the new, that tells for each entry      *)
(* whether it was added, removed, changed or kept.  It looks at one entry of *)
(* each side at a time.  The new side is a MemHashStore (store/mem.rs); the  *)
(* old side, two of them read through a MergeSortedWith, which gives entries *)
(* in order like a store and has state of its own that must fit.             *)
(***************************************************************************)
EXTENDS HashArrays, FiniteSets, FiniteSetsExt

CONSTANTS
    NameHashes, \* hashes of names
    Values,     \* hashes of file contents
    MaxRun,     \* entries of one store of the old side (bounds the run)
    MaxNew      \* entries of the new side (bounds the run)

ASSUME DiffAssumption == /\ NameHashes \subseteq Arrays
                         /\ Values \subseteq Nat
                         /\ MaxRun \in Nat /\ MaxNew \in Nat

Entries == [name : NameHashes, value : Values]

(* HashEntry's order: by name, and entries of one name by their values. *)
Greater(a, b) == \/ Less(b.name, a.name)
                 \/ a.name = b.name /\ a.value > b.value
InOrder(a, b) == ~Greater(a, b)

INSTANCE MergeSorted

(* MemHashStore: entries in any number and order, sorted as they are         *)
(* collected; a name may still be there twice.                               *)
SortedRuns(max) == UNION {{s \in [1 .. n -> Entries] : IsSorted(s, InOrder)} : n \in 0 .. max}

VARIABLES
    old, new,           \* the iterators: a merge, and the entries still to give
    curr_old, curr_new, \* the entry in hand of each side
    olds, news,         \* history: both inputs
    results             \* history: what next() has returned

diffVars == <<old, new, curr_old, curr_new, olds, news, results>>

(* DiffingIter::new *)
DiffInit == /\ \E ia, ib \in SortedRuns(MaxRun) :
                   LET first == next_item(MergeSortedWith(ia, ib))
                   IN  /\ olds = ia \o ib
                       /\ curr_old = first.item /\ old = first.merge
            /\ news \in SortedRuns(MaxNew)
            /\ curr_new = FirstOf(news) /\ new = RestOf(news)
            /\ results = <<>>

AdvanceOld == LET next == next_item(old)
              IN  curr_old' = next.item /\ old' = next.merge
AdvanceNew == curr_new' = FirstOf(new) /\ new' = RestOf(new)

KeepOld == UNCHANGED <<curr_old, old>>
KeepNew == UNCHANGED <<curr_new, new>>

Return(kind, a, b) == /\ results' = Append(results, [kind |-> kind, old |-> a, new |-> b])
                      /\ UNCHANGED <<olds, news>>

HasOld == curr_old # None
HasNew == curr_new # None
OldName == curr_old[1].name
NewName == curr_new[1].name
SameName == HasOld /\ HasNew /\ OldName = NewName
SameValue == curr_old[1].value = curr_new[1].value

(* Mutant of Added: an old entry that is lower does not go first. *)
AddedEither == /\ HasNew
               /\ HasOld => NewName # OldName
               /\ AdvanceNew /\ KeepOld
               /\ Return("Added", None, curr_new)

(* next() *)
Added == /\ HasNew
         /\ HasOld => Less(NewName, OldName)
         /\ AdvanceNew /\ KeepOld
         /\ Return("Added", None, curr_new)

Removed == /\ HasOld
           /\ HasNew => Less(OldName, NewName)
           /\ AdvanceOld /\ KeepNew
           /\ Return("Removed", curr_old, None)

(* Same carries the old entry only. *)
Same == /\ SameName /\ SameValue
        /\ AdvanceOld /\ AdvanceNew
        /\ Return("Same", curr_old, None)

Changed == /\ SameName /\ ~SameValue
           /\ AdvanceOld /\ AdvanceNew
           /\ Return("Changed", curr_old, curr_new)

Exhausted == ~HasOld /\ ~HasNew

DiffNext == Added \/ Removed \/ Same \/ Changed

(* size_hint, of sides that know how many entries they have left. *)
lower == Max({size_hint(old), Len(new)}) + (IF Exhausted THEN 0 ELSE 1)
upper == size_hint(old) + Len(new) + Len(curr_old) + Len(curr_new)

--------------------------------------------------------------------------------
WithName(s, name) == {e \in ToSet(s) : e.name = name}
Distinct(s) == \A i, j \in DOMAIN s : s[i].name = s[j].name => i = j

(* For sides without repeated names, the results are the difference of the two *)
(* sets of entries: a name of one side only is added or removed, a name of     *)
(* both is kept or changed with the entry of each side (test_diff_basic).      *)
Matched(o, n) == IF o.value = n.value THEN [kind |-> "Same", old |-> <<o>>, new |-> None]
                 ELSE [kind |-> "Changed", old |-> <<o>>, new |-> <<n>>]
Expected ==
    {[kind |-> "Added", old |-> None, new |-> <<e>>] :
        e \in {e \in ToSet(news) : WithName(olds, e.name) = {}}}
    \union
    {[kind |-> "Removed", old |-> <<e>>, new |-> None] :
        e \in {e \in ToSet(olds) : WithName(news, e.name) = {}}}
    \union
    UNION {{Matched(o, n) : n \in WithName(news, o.name)} : o \in ToSet(olds)}

DiffIsDifference == Exhausted /\ Distinct(olds) /\ Distinct(news) =>
    /\ ToSet(results) = Expected
    /\ Len(results) = Cardinality(Expected)

(* Nothing is lost, counted twice or out of order, even when names are         *)
(* repeated: each entry of the old stores is as often in the results, in hand   *)
(* and still in the merge as it was in both stores, those in the results and in *)
(* hand are sorted by their names as numbers, and before what is in the merge;  *)
(* the new side comes as it is, where Same stands for an entry of each.  The    *)
(* results of both sides come in the order of the names.                       *)
OldsIn == FlattenSeq([i \in DOMAIN results |-> results[i].old])
NewsIn == FlattenSeq([i \in DOMAIN results |->
              IF results[i].kind = "Same" THEN results[i].old ELSE results[i].new])

InMerge == old.last \o old.ia \o old.ib

Times(s, e) == Cardinality({i \in DOMAIN s : s[i] = e})

NotAfterByNumber(a, b) == \/ Number(a.name) < Number(b.name)
                          \/ a.name = b.name /\ a.value <= b.value

NameOfResult(r) == Number(Head(r.old \o r.new).name)

NothingLost == /\ \A e \in Entries : Times(OldsIn \o curr_old \o InMerge, e) = Times(olds, e)
               /\ IsSorted(OldsIn \o curr_old, NotAfterByNumber)
               /\ \A a \in ToSet(OldsIn \o curr_old), b \in ToSet(InMerge) : NotAfterByNumber(a, b)
               /\ NewsIn \o curr_new \o new = news
               /\ \A i, j \in DOMAIN results :
                     i < j => NameOfResult(results[i]) <= NameOfResult(results[j])

(* size_hint is right at every moment, also when names are repeated.  What is  *)
(* still to be returned is known from the entries that are left: of those of    *)
(* one name, the n-th of the old side goes with the n-th of the new side.       *)
Numbered(s) == {<<s[i].name, Cardinality({j \in 1 .. i : s[j].name = s[i].name})>> :
                   i \in DOMAIN s}
Remaining == Cardinality(Numbered(curr_old \o InMerge) \union Numbered(curr_new \o new))

SizeHintHolds == lower <= Remaining /\ Remaining <= upper
================================================================================
