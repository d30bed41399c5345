------------------------------- MODULE ZeroChunks -------------------------------
(***************************************************************************)
(* HashZeroChunksFinder (hasher/mod.rs): a consumer that tells which files    *)
(* hold a run of at least min_size zeros, from chunks of them that may cut a  *)
(* run anywhere.  Its state of a file is how many bytes it has seen, where    *)
(* the run it is in began, if it is in one, and whether a long one was found. *)
(***************************************************************************)
EXTENDS Integers, Sequences, SequencesExt

start_file == [total |-> 0, start |-> <<>>, found |-> FALSE]

LongEnough(start, end, min_size) == start # <<>> /\ end - start[1] >= min_size

(* Mutant of Advance: a run that was too short is not forgotten. *)
AdvanceKeeps(s, min_size) ==
    LET stop == SelectInSeq(s.rest, LAMBDA byte : (byte # 0) = (s.start # <<>>))
        at == s.total + stop - 1
    IN  IF stop = 0 THEN [s EXCEPT !.total = @ + Len(s.rest), !.rest = <<>>]
        ELSE [total |-> at + 1,
              rest |-> SubSeq(s.rest, stop + 1, Len(s.rest)),
              start |-> IF s.start = <<>> THEN <<at>> ELSE s.start,
              found |-> s.found \/ LongEnough(s.start, at, min_size)]

(* One turn of the loop: on to the next byte that is zero, or, in a run, that  *)
(* is not; where a run ends without being long enough, it is forgotten.        *)
Advance(s, min_size) ==
    LET stop == SelectInSeq(s.rest, LAMBDA byte : (byte # 0) = (s.start # <<>>))
        at == s.total + stop - 1
    IN  IF stop = 0 THEN [s EXCEPT !.total = @ + Len(s.rest), !.rest = <<>>]
        ELSE [total |-> at + 1,
              rest |-> SubSeq(s.rest, stop + 1, Len(s.rest)),
              start |-> IF s.start = <<>> THEN <<at>>
                        ELSE IF LongEnough(s.start, at, min_size) THEN s.start ELSE <<>>,
              found |-> s.found \/ LongEnough(s.start, at, min_size)]

(* The loop has no more turns than the chunk has bytes. *)
update_file(s, data, min_size) ==
    IF s.found THEN [s EXCEPT !.total = @ + Len(data)]
    ELSE LET turn[n \in 0 .. Len(data)] ==
                 IF n = 0 THEN [total |-> s.total, start |-> s.start, found |-> FALSE, rest |-> data]
                 ELSE Advance(turn[n - 1], min_size)
             end == turn[Len(data)]
         IN  [total |-> end.total, start |-> end.start, found |-> end.found]

(* finish_consume: whether the file goes to chunks. *)
HasZeroChunk(s, min_size) == LongEnough(s.start, s.total, min_size)
================================================================================
