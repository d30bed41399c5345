-------------------------------- MODULE ReadPath --------------------------------
(***************************************************************************)
(* The way of a file's bytes through the runner (hasher/runner.rs): read_file *)
(* lends a chunk, fills it by read_from, adds its length to the statistics    *)
(* and hands it to process_file, which feeds it to the consumer.  A chunk is  *)
(* lent again with what it held before still in its array.                    *)
(*                                                                          *)
(* ScanRunner has the threads and any number of chunks and files; this is one *)
(* file through one chunk, byte by byte, with HashZeroChunksFinder as the     *)
(* consumer and other threads sampling the statistics meanwhile.              *)
(***************************************************************************)
EXTENDS ZeroChunks, RateAverage

CONSTANTS
    Contents,   \* files, as sequences of bytes
    MinSizes,   \* values of HashZeroChunksFinder.min_size
    ChunkSize   \* buffer_chunk_size

ASSUME ReadPathAssumption == /\ Contents \subseteq Seq(Nat)
                             /\ MinSizes \subseteq Nat
                             /\ ChunkSize \in Nat \ {0}

VARIABLES
    file, pos,  \* the file, and what was read of it
    min_size,
    at,         \* "lend", "read", "append", "update", "finish", "done"
    chunk,      \* ChunkData: [array, length]
    result,     \* of read_from: "full", "end", "error"
    state,      \* the finder's state of the file
    chunks      \* HashZeroChunksFinder.chunks: whether the file is in it

readVars == <<file, pos, min_size, at, chunk, result, state, chunks>>
readPathVars == <<readVars, rateVars>>

(* A chunk has no array before it is lent first (ChunkData::zero), and later   *)
(* what the file before has left in it.                                       *)
ReadPathInit == /\ RateInit
                /\ file \in Contents /\ pos = 0
                /\ min_size \in MinSizes
                /\ at = "lend"
                /\ \E array0 \in {<<>>, [i \in 1 .. ChunkSize |-> 0]} :
                      chunk = [array |-> array0, length |-> 0]
                /\ result = "full"
                /\ state = start_file
                /\ chunks = FALSE

Lend == /\ at = "lend" /\ at' = "read"
        /\ chunk' = [length |-> 0,
                     array |-> IF Len(chunk.array) < ChunkSize THEN [i \in 1 .. ChunkSize |-> 0]
                               ELSE chunk.array]
        /\ UNCHANGED <<file, pos, min_size, result, state, chunks>>

(* Deref of ChunkData *)
Content == SubSeq(chunk.array, 1, chunk.length)

(* read_from: as many reads as it takes, each of which may be short; one that  *)
(* is interrupted changes nothing.                                            *)
ReadSome == /\ at = "read"
            /\ \E n \in 1 .. Min({Len(chunk.array) - chunk.length, Len(file) - pos}) :
                  /\ chunk' = [length |-> chunk.length + n,
                               array |-> Content \o SubSeq(file, pos + 1, pos + n)
                                   \o SubSeq(chunk.array, chunk.length + n + 1, Len(chunk.array))]
                  /\ pos' = pos + n
            /\ UNCHANGED <<file, min_size, at, result, state, chunks>>

ReadReturns == /\ at = "read" /\ at' = "append"
               /\ \/ result' = "full" /\ chunk.length = Len(chunk.array)
                  \/ result' = "end" /\ chunk.length < Len(chunk.array) /\ pos = Len(file)
                  \/ result' = "error" /\ chunk.length < Len(chunk.array)
               /\ UNCHANGED <<file, pos, min_size, chunk, state, chunks>>

AppendStats == /\ at = "append" /\ at' = "update"
               /\ append(chunk.length)
               /\ UNCHANGED <<file, pos, min_size, chunk, result, state, chunks>>

Update == /\ at = "update"
          /\ at' = IF result = "full" THEN "lend" ELSE "finish"
          /\ state' = update_file(state, Content, min_size)
          /\ UNCHANGED <<file, pos, min_size, chunk, result, chunks>>

Finish == /\ at = "finish" /\ at' = "done"
          /\ chunks' = HasZeroChunk(state, min_size)
          /\ UNCHANGED <<file, pos, min_size, chunk, result, state>>

ReadPathNext == \/ (Lend \/ ReadSome \/ ReadReturns \/ Update \/ Finish) /\ UNCHANGED rateVars
                \/ AppendStats
                \/ Ticking /\ UNCHANGED readVars

ReadPathSpec == ReadPathInit /\ [][ReadPathNext]_readPathVars

--------------------------------------------------------------------------------
(* A file is listed exactly if what was read of it has a run of at least       *)
(* min_size zeros, one zero at the least, wherever the chunks and the reads    *)
(* have cut it, at its very end too (test_zero_find).                          *)
HasRun(bytes, length) == \E i \in 1 .. Len(bytes) - length + 1 :
    \A k \in i .. i + length - 1 : bytes[k] = 0

ZeroRunFound == at = "done" =>
    (chunks <=> HasRun(SubSeq(file, 1, pos), Max({1, min_size})))

(* The statistics have each byte that the consumer is fed once, in the counter, *)
(* in some thread's hand, in the window or in what has left it: no sample and  *)
(* no reset takes a byte twice, whichever comes between the two halves of      *)
(* another.                                                                   *)
Appended == IF at \in {"read", "append"} THEN pos - chunk.length ELSE pos
Held == [t \in Samplers |-> SumOf(hand[t])]
Total(w, S) == FoldSet(LAMBDA t, sum : sum + w[t], 0, S)
InHands == Total(Held, Samplers)

BytesAccounted == /\ current + InHands + SumOf(recent) + gone = Appended
                  /\ at \in {"lend", "finish", "done"} => state.total = Appended
================================================================================
