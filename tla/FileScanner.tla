------------------------------- MODULE FileScanner -------------------------------
(***************************************************************************)
(* DepthFileScanner (hasher/file_iter.rs): a depth-first walk of a directory *)
(* tree that keeps one iterator for each directory it is in.  Either they   *)
(* are the operating system's open directories, in whatever order those     *)
(* list their entries (Fresh), or each directory is read, closed and sorted *)
(* as it is entered (Cached).  Entries that cannot be read are passed over;  *)
(* a directory that cannot be opened is returned like a file.               *)
(*                                                                          *)
(* A node stands for a DirEntry, and the nodes of a directory are numbered   *)
(* in the order of their paths.  A level of the stack is the sequence of    *)
(* the entries its iterator has still to give (a Cached level's Vec holds   *)
(* them in descending order and is popped from its end).                    *)
(***************************************************************************)
EXTENDS Integers, Sequences, FiniteSets, SequencesExt, FiniteSetsExt

CONSTANTS
    Nodes,    \* the entries of the tree; the directory it starts in is 0
    Dirs,     \* the entries that are directories
    Parent,   \* the directory each entry is in
    NameOf,   \* the name of each entry
    Roots,    \* directories a scan is started in
    MaxBad    \* entries that cannot be read (bounds the run)

ASSUME TreeAssumption == /\ Nodes \subseteq Nat \ {0}
                         /\ Dirs \subseteq Nodes
                         /\ Roots \subseteq Dirs \union {0}
                         /\ Parent \in [Nodes -> Dirs \union {0}]
                         /\ \A n \in Nodes : Parent[n] < n
                         /\ IsFiniteSet(Nodes)

(* The numbers are in the order of the whole paths: what comes between a      *)
(* directory and one of its entries is below that directory.                 *)
ASSUME OrderAssumption ==
    \A m, n \in Nodes : Parent[n] < m /\ m < n => Parent[n] <= Parent[m]

VARIABLES
    bad,      \* entries whose DirEntry or file type is an io::Error
    closed,   \* directories on which read_dir fails
    root,     \* DepthFileScanner.root
    variant,  \* StackVariant: "Fresh" or "Cached"
    stack,    \* the entries left in each directory entered, the root's first
    current,  \* the names of the directories entered, without the root
    yielded   \* history: entries returned by this scan, with the path given

disk == <<bad, closed>>
scannerVars == <<disk, root, variant, stack, current, yielded>>

EntriesOf(d) == {n \in Nodes : Parent[n] = d}

(* Mutant of Listing: the sort that suits the Vec is used for the iterator.  *)
ListingReversed(d, kind) ==
    {level \in SetToSeqs(EntriesOf(d)) :
        kind = "Cached" => \A i, j \in DOMAIN level : i < j => level[i] > level[j]}

(* StackVariant::push, in the order TempIter::next will give the entries. *)
Listing(d, kind) ==
    {level \in SetToSeqs(EntriesOf(d)) :
        kind = "Cached" => \A i, j \in DOMAIN level : i < j => level[i] < level[j]}

StartLevels(d, kind) ==
    IF d \in closed THEN {<<>>} ELSE {<<level>> : level \in Listing(d, kind)}

(* from_dir *)
FileScannerInit ==
    /\ bad \in UNION {kSubset(k, Nodes) : k \in 0 .. MaxBad}
    /\ closed \in SUBSET (Dirs \union {0})
    /\ root \in Roots
    /\ variant \in {"Fresh", "Cached"}
    /\ stack \in StartLevels(root, variant)
    /\ current = <<>>
    /\ yielded = <<>>

(* StackVariant::clear gives an empty stack of the kind asked for, whatever   *)
(* kind it was of; the root's level is then pushed on it.                    *)
clear(kind, levels) == /\ variant' = kind
                       /\ stack' \in levels

(* reset_from_dir *)
reset_from_dir(d, kind) == /\ root' = d
                           /\ current' = <<>>
                           /\ clear(kind, StartLevels(d, kind))
                           /\ yielded' = <<>>
                           /\ UNCHANGED disk

(* Mutant of LevelsLeft: an entry that is passed over ends its level. *)
LevelsLeftToHead(skip) == {k \in DOMAIN stack : stack[k] # <<>> /\ Head(stack[k]) \notin skip}

(* The next entry that is not passed over is in the highest level that has   *)
(* one; the levels above it are left.                                        *)
LevelsLeft(skip) == {k \in DOMAIN stack : \E n \in Range(stack[k]) : n \notin skip}

Advance(skip) ==
    LET top == Max(LevelsLeft(skip))
        at == SelectInSeq(stack[top], LAMBDA n : n \notin skip)
    IN  [node |-> stack[top][at],
         left |-> Len(stack) - top,
         below |-> Append(SubSeq(stack, 1, top - 1), SubSeq(stack[top], at + 1, Len(stack[top])))]

DropLast(s, n) == SubSeq(s, 1, Len(s) - n)

Opens(n) == n \in Dirs \ closed

Enter(n, below) == IF Opens(n) THEN {Append(below, level) : level \in Listing(n, variant)}
                   ELSE {below}

(* FileEntry: what next_file returns, path_without_root being the names of   *)
(* the directories before the entry and its own.                             *)
FileEntry(n, before) == [node |-> n, path |-> Append(before, NameOf[n])]

(* Mutant of Return: the name is pushed before read_dir is tried. *)
ReturnPushesFirst ==
    LET next == Advance(bad)
        before == DropLast(current, next.left)
    IN  /\ yielded' = Append(yielded, FileEntry(next.node, before))
        /\ current' = IF next.node \in Dirs THEN Append(before, NameOf[next.node]) ELSE before
        /\ stack' \in Enter(next.node, next.below)

(* The entry goes out with the names of the directories before it, and is     *)
(* entered if it is one.                                                      *)
Return ==
    LET next == Advance(bad)
        before == DropLast(current, next.left)
    IN  /\ yielded' = Append(yielded, FileEntry(next.node, before))
        /\ current' = IF Opens(next.node) THEN Append(before, NameOf[next.node]) ELSE before
        /\ stack' \in Enter(next.node, next.below)

next_file ==
    /\ \/ /\ LevelsLeft(bad) = {}
          /\ stack' = <<>>
          /\ current' = <<>>
          /\ UNCHANGED yielded
       \/ /\ LevelsLeft(bad) # {}
          /\ Return
    /\ UNCHANGED <<disk, root, variant>>

FileScannerNext == \/ next_file
                   \/ \E d \in Roots, kind \in {"Fresh", "Cached"} : reset_from_dir(d, kind)

FileScannerSpec == FileScannerInit /\ [][FileScannerNext]_scannerVars

--------------------------------------------------------------------------------
(* The names from a directory down to an entry, from the tree itself. *)
TruePath(d, node) ==
    LET path[n \in Nodes \union {0}] ==
            IF n \in {0, d} THEN <<>> ELSE Append(path[Parent[n]], NameOf[n])
    IN  path[node]

(* Each entry is returned with the names that lead to it from the root, no    *)
(* matter how many levels were entered, left or found closed on the way, and  *)
(* after any resets (FileEntry::path_without_root).                          *)
PathsTrue == \A y \in Range(yielded) : y.path = TruePath(root, y.node)

(* A scan whose directories are read and sorted as they are entered returns   *)
(* its entries in the order of their whole paths (SortType::Ascending "will   *)
(* yield elements in ascending order").  Nodes are numbered in that order.   *)
SortedWhenCached == variant = "Cached" =>
    \A i, j \in DOMAIN yielded : i < j => yielded[i].node < yielded[j].node
================================================================================
