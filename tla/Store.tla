--------------------------------- MODULE Store ---------------------------------
(***************************************************************************)
(* What a caller does with the sorted entries of its stores (store/mod.rs,    *)
(* store/compress.rs): it either compares them with another run, by a         *)
(* DiffingIter over two merged stores, or compresses them.  Each of the two   *)
(* consumes its iterators, so a caller is busy with one of them at a time.    *)
(***************************************************************************)
EXTENDS DiffingIter, Compression

storeVars == <<diffVars, compressVars>>

NoDiff == /\ old = MergeSortedWith(<<>>, <<>>) /\ new = <<>>
          /\ curr_old = None /\ curr_new = None
          /\ olds = <<>> /\ news = <<>> /\ results = <<>>

NoCompression == /\ at = "unused"
                 /\ run = <<>> /\ entries = <<>> /\ count = 0
                 /\ written = <<>> /\ diffs = <<>>
                 /\ prev = Zero /\ average_span = Zero /\ span = Zero

StoreInit == (DiffInit /\ NoCompression) \/ (CompressInit /\ NoDiff)

StoreDone == at \in {"ok", "failed"} \/ (at = "unused" /\ Exhausted)

StoreNext == \/ DiffNext /\ UNCHANGED compressVars
             \/ CompressNext /\ UNCHANGED diffVars
             \/ StoreDone /\ UNCHANGED storeVars

StoreSpec == StoreInit /\ [][StoreNext]_storeVars
================================================================================
