--------------------------------- MODULE SumFile ---------------------------------
(***************************************************************************)
(* Hash entries on disk: HashesChunk (file/chunks/hashes_chunk.rs), the      *)
(* headerless dumps of hasher/sum_file.rs, and SumFile (file/sum_file.rs)    *)
(* that reads a file of blocks, over a file whose writing may stop anywhere. *)
(*                                                                          *)
(* A block header, the main header and an entry are 64 bytes each, so a file *)
(* is a sequence of such cells; a part of one more at its end is to every    *)
(* reader the same as its end, because read_exact misses bytes in both.  The *)
(* content of an entry never looks like the start of a header.  Entries are  *)
(* numbers in the order of HashEntry::cmp.                                   *)
(***************************************************************************)
EXTENDS Integers, Sequences, SequencesExt

CONSTANTS
    Entries,    \* hash entries
    MaxEntries, \* entries of a chunk (bounds the run)
    MaxCount,   \* the most entries that are read or written at once (u32::MAX)
    Leads,      \* main headers of a file of blocks: "none", "known", "unknown"
    Bodies,     \* entries of a block of such a file
    MaxBlocks   \* blocks of such a file (bounds the run)

ASSUME SumFileAssumption == /\ Entries \subseteq Nat
                            /\ MaxEntries \in Nat /\ MaxCount \in Nat /\ MaxBlocks \in Nat
                            /\ Bodies \subseteq Seq(Entries)
                            /\ Leads \subseteq {"none", "known", "unknown"}

Cell(kind, n) == [kind |-> kind, n |-> n]
EntryCells(data) == [i \in DOMAIN data |-> Cell("entry", data[i])]
Runs == BoundedSeq(Entries, MaxEntries)

(* SortOrder, by its code *)
Unordered == 0
SortedByName == 1
SortedByData == 3

(* HashType *)
get_fingerprint(type) == IF type = "Sha256" THEN "Sha2_256" ELSE "Blake3__"
Spellings(type) == IF type = "Sha256" THEN {"Sha2_256", "Sha256__", "Sha2-256"}
                   ELSE {"Blake3__", "BLAKE3__"}
from_fingerprint(fp) == {type \in {"Sha256", "Blake3"} : fp \in Spellings(type)}

(* HashesHeader::to_array: two bits of the flags are the order. *)
to_array(c) == [kind |-> "Hashes", size |-> Len(c.data), flags |-> c.sort % 4,
                name |-> get_fingerprint(c.name_hash), data |-> get_fingerprint(c.data_hash)]

VARIABLES
    chunk,   \* the HashesChunk in memory
    checked, \* history: it has been sorted or verified since it was made
    disk,    \* whole cells of the file
    layout,  \* history: what should be in the file, and who wrote it
    reader,  \* who reads the file, and how far
    got      \* history: what that reader has returned

sumFileVars == <<chunk, checked, disk, layout, reader, got>>

NoFile == [by |-> "nobody", lead |-> "none", blocks |-> <<>>]
Nobody == [by |-> "nobody", at |-> 0, left |-> 0]

--------------------------------------------------------------------------------
(* Chunks in memory *)

(* The argument that says whether the data is sorted is not used.            *)
NewSha256(data, sorted) == [data |-> data, sort |-> SortedByName,
                            name_hash |-> "Sha256", data_hash |-> "Sha256"]

new_sha256 == \E data \in Runs, sorted \in BOOLEAN :
    /\ chunk' = NewSha256(data, sorted)
    /\ checked' = FALSE

verify_sorted(data) == \A i \in 1 .. Len(data) - 1 : data[i] <= data[i + 1]

(* Mutant of sort: only the order is recorded. *)
sort_flag_only == /\ chunk' = [chunk EXCEPT !.sort = SortedByName]
                  /\ checked' = TRUE

(* sort_unstable is external: the same entries, from the least to the greatest. *)
sort == \E to \in Bijection(DOMAIN chunk.data, DOMAIN chunk.data) :
    LET data == [i \in DOMAIN chunk.data |-> chunk.data[to[i]]]
    IN  /\ verify_sorted(data)
        /\ chunk' = [chunk EXCEPT !.data = data, !.sort = SortedByName]
        /\ checked' = TRUE

verify_update_sorted ==
    /\ chunk' = [chunk EXCEPT !.sort =
                     IF verify_sorted(chunk.data) THEN SortedByName ELSE Unordered]
    /\ checked' = TRUE

--------------------------------------------------------------------------------
(* Writing.  The file is created empty; the writer may fail or the program   *)
(* end with any number of the cells in it.                                   *)
BlockCells(b) == <<b.header>> \o b.body
Lead(l) == IF l = "none" THEN <<>> ELSE <<Cell("main", l)>>
Cells(l) == Lead(l.lead) \o FlattenSeq([i \in DOMAIN l.blocks |-> BlockCells(l.blocks[i])])

Stored(cells) == \E n \in 0 .. Len(cells) : disk' = SubSeq(cells, 1, n)

Block(c) == [header |-> to_array(c), body |-> EntryCells(c.data)]

(* HashesChunk::write; too long a chunk leaves the file empty. *)
write ==
    /\ layout' = [by |-> "write", lead |-> "none", blocks |-> <<Block(chunk)>>]
    /\ IF Len(chunk.data) > MaxCount THEN disk' = <<>> ELSE Stored(Cells(layout'))

write_vec_bytes ==
    /\ layout' = [by |-> "write_vec_bytes", lead |-> "none", blocks |-> <<>>]
    /\ Stored(EntryCells(chunk.data))

--------------------------------------------------------------------------------
(* Reading *)
Left == Len(disk) - reader.at
Body(at, size) == SubSeq(disk, at + 1, at + size)

(* HashesHeader::from_array *)
from_array(cell) ==
    IF cell.kind # "Hashes" THEN {}
    ELSE {[size |-> cell.size, sort |-> cell.flags % 4, name_hash |-> n, data_hash |-> d] :
              n \in from_fingerprint(cell.name), d \in from_fingerprint(cell.data)}

Error == [is |-> "error"]
End == [is |-> "end"]
Panic == [is |-> "panic"]
EntryRead(cell) == [is |-> "entry", entry |-> cell]
ChunkRead(h, body) == [is |-> "chunk", data |-> body, sort |-> h.sort,
                       name_hash |-> h.name_hash, data_hash |-> h.data_hash]

(* Mutant of read_body: the entries that are there are enough. *)
read_body_short(h, at) ==
    IF h.size > MaxCount THEN [at |-> at, result |-> Error]
    ELSE IF at + h.size > Len(disk)
         THEN [at |-> Len(disk), result |-> ChunkRead(h, SubSeq(disk, at + 1, Len(disk)))]
    ELSE [at |-> at + h.size, result |-> ChunkRead(h, Body(at, h.size))]

(* read_body of a header, at the cell behind it *)
read_body(h, at) ==
    IF h.size > MaxCount THEN [at |-> at, result |-> Error]
    ELSE IF at + h.size > Len(disk) THEN [at |-> Len(disk), result |-> Error]
    ELSE [at |-> at + h.size, result |-> ChunkRead(h, Body(at, h.size))]

Reading(by, at, left, results) == /\ reader' = [by |-> by, at |-> at, left |-> left]
                                  /\ got' = results

(* HashesChunk::read *)
read ==
    IF disk = <<>> \/ from_array(disk[1]) = {} THEN Reading("read", 0, 0, <<Error>>)
    ELSE LET body == read_body(CHOOSE h \in from_array(disk[1]) : TRUE, 1) IN
         Reading("read", body.at, 0, <<body.result>>)

(* HashesIterChunk::new, which takes a chunk of any length *)
iter_new ==
    IF disk = <<>> \/ from_array(disk[1]) = {} THEN Reading("iter", 0, 0, <<Error>>)
    ELSE \E h \in from_array(disk[1]) : Reading("iter", 1, h.size, <<>>)

(* Mutant of iter_next: after an error the other entries are still tried. *)
iter_next_goes_on ==
    /\ reader.by = "iter" /\ End \notin ToSet(got)
    /\ IF reader.left = 0 THEN Reading("iter", reader.at, 0, Append(got, End))
       ELSE IF Left = 0 THEN Reading("iter", reader.at, reader.left - 1, Append(got, Error))
       ELSE Reading("iter", reader.at + 1, reader.left - 1,
                    Append(got, EntryRead(disk[reader.at + 1])))

(* HashesIterChunk::next; the first error is its last item. *)
iter_next ==
    /\ reader.by = "iter" /\ End \notin ToSet(got)
    /\ IF reader.left = 0 THEN Reading("iter", reader.at, 0, Append(got, End))
       ELSE IF Left = 0 THEN Reading("iter", reader.at, 0, Append(got, Error))
       ELSE Reading("iter", reader.at + 1, reader.left - 1,
                    Append(got, EntryRead(disk[reader.at + 1])))

(* read_hash_array with no count: a part of an entry at the end is dropped,  *)
(* and is no error.                                                          *)
read_hash_array(cells) == [i \in DOMAIN cells |-> EntryRead(cells[i])]

read_vec_bytes == Reading("raw", Len(disk), 0, read_hash_array(disk))

(* MainHeader::read: its magic, and a version some codec is for *)
HasMainHeader == disk # <<>> /\ disk[1] = Cell("main", "known")

(* SumFile::open and SumFile::new *)
open == IF HasMainHeader THEN Reading("blocks", 1, 0, <<>>)
        ELSE Reading("nobody", 0, 0, <<Error>>)

new == Reading("blocks", 0, 0, <<>>)

(* NamesChunk::read_body is todo!() but for its check. *)
read_names(cell, at) == [at |-> at, result |-> IF cell.n > MaxCount THEN Error ELSE Panic]

(* Codec0_0_1::decode_block, of the header at the cell before at: no magic, a *)
(* type of block without a reader and an unknown hash type are errors.        *)
decode_block(cell, at) ==
    IF cell.kind = "Names" THEN read_names(cell, at)
    ELSE IF from_array(cell) = {} THEN [at |-> at, result |-> Error]
    ELSE read_body(CHOOSE h \in from_array(cell) : TRUE, at)

NextBlock(block) == Reading("blocks", block.at, 0, Append(got, block.result))

(* Mutant of read_next_block: after an error there are no more blocks. *)
read_next_block_gives_up ==
    /\ reader.by = "blocks" /\ {End, Panic} \intersect ToSet(got) = {}
    /\ IF Left = 0 \/ Error \in ToSet(got) THEN NextBlock([at |-> reader.at, result |-> End])
       ELSE NextBlock(decode_block(disk[reader.at + 1], reader.at + 1))

(* read_next_block: fewer bytes than a cell are NoBlock, the end of the file. *)
read_next_block ==
    /\ reader.by = "blocks" /\ {End, Panic} \intersect ToSet(got) = {}
    /\ IF Left = 0 THEN NextBlock([at |-> reader.at, result |-> End])
       ELSE NextBlock(decode_block(disk[reader.at + 1], reader.at + 1))

--------------------------------------------------------------------------------
(* The blocks of a file from elsewhere: hashes under any order and spelling  *)
(* of the hash types, a hash type that is not known, names, another block.   *)
Headers(n) == [kind : {"Hashes"}, size : {n}, flags : {2, SortedByData},
               name : {"Sha256__"}, data : {"BLAKE3__", "Md5_____"}]
              \union {Cell("Names", n), Cell("other", n)}
Blocks == UNION {[header : Headers(Len(data)), body : {EntryCells(data)}] : data \in Bodies}

NoChunk == NewSha256(<<>>, FALSE)

SumFileInit == /\ chunk = NoChunk /\ checked = FALSE
               /\ disk = <<>>
               /\ layout = NoFile
               /\ reader = Nobody /\ got = <<>>

ForeignFile == \E lead \in Leads, blocks \in BoundedSeq(Blocks, MaxBlocks) :
    /\ layout' = [by |-> "others", lead |-> lead, blocks |-> blocks]
    /\ Stored(Cells(layout'))

(* One file per behaviour, and no chunk besides a file from elsewhere: chunks *)
(* and files meet only where one is written.                                 *)
Prepare == /\ layout = NoFile
           /\ new_sha256 \/ sort \/ verify_update_sorted
           /\ UNCHANGED <<disk, layout, reader, got>>

Store == /\ layout = NoFile
         /\ write \/ write_vec_bytes \/ (chunk = NoChunk /\ ForeignFile)
         /\ UNCHANGED <<chunk, checked, reader, got>>

Load == /\ \/ layout # NoFile /\ reader = Nobody /\ (read \/ iter_new \/ read_vec_bytes \/ open \/ new)
           \/ iter_next
           \/ read_next_block
        /\ UNCHANGED <<chunk, checked, disk, layout>>

SumFileNext == Prepare \/ Store \/ Load

SumFileSpec == SumFileInit /\ [][SumFileNext]_sumFileVars

--------------------------------------------------------------------------------
(* What is at the places wanted of s, in order. *)
Picked(s, wanted) == LET upTo[n \in 0 .. Len(s)] ==
                             IF n = 0 THEN <<>>
                             ELSE IF n \in wanted THEN Append(upTo[n - 1], s[n])
                             ELSE upTo[n - 1]
                     IN  upTo[Len(s)]

(* After sort or verify_update_sorted the order a chunk claims is the order    *)
(* its entries have (as test_read_sum_file asserts of a file).                *)
SortFlagChecked == checked =>
    (chunk.sort = SortedByName <=> \A i, j \in DOMAIN chunk.data : i < j => chunk.data[i] <= chunk.data[j])

(* HashesChunk::read gives the chunk that was written, its order and its hash  *)
(* types too, or an error: never a part of it, wherever the writing stopped.  *)
ChunkReadsBack == layout.by = "write" /\ reader.by = "read" =>
    got = IF Len(disk) = 1 + Len(chunk.data)
          THEN <<[is |-> "chunk", data |-> EntryCells(chunk.data), sort |-> chunk.sort,
                  name_hash |-> chunk.name_hash, data_hash |-> chunk.data_hash]>>
          ELSE <<Error>>

(* Reading entry by entry gives what was written, in order and up to where the *)
(* writing stopped.  The iterator says so, with one error and then its end; a  *)
(* dump without header cannot.                                                *)
EntriesStreamed ==
    LET written == [i \in DOMAIN chunk.data |-> EntryRead(Cell("entry", chunk.data[i]))]
    IN  /\ layout.by = "write_vec_bytes" /\ reader.by = "raw" =>
               got = SubSeq(written, 1, Len(disk))
        /\ layout.by = "write" /\ reader.by = "iter" =>
               /\ \A i \in DOMAIN got :
                      got[i].is = "entry" => IsPrefix(SubSeq(got, 1, i), written)
               /\ End \in ToSet(got) =>
                     got = IF Len(disk) = 1 + Len(written) THEN Append(written, End)
                           ELSE SubSeq(written, 1, Len(disk) - 1) \o <<Error, End>>

(* A file of blocks gives exactly the chunks that are whole in it and that the *)
(* program can read, in their order, whatever it refuses or misses between     *)
(* them: after an error it takes up again at the next header.                 *)
EndOfBlock(i) == Len(Cells([layout EXCEPT !.blocks = SubSeq(@, 1, i)]))
Readable(b) == /\ b.header.kind = "Hashes" /\ b.header.data # "Md5_____"
               /\ Len(b.body) <= MaxCount
Whole == Picked(layout.blocks, {i \in DOMAIN layout.blocks : /\ Readable(layout.blocks[i])
                                                              /\ EndOfBlock(i) <= Len(disk)})
BlocksTrue == reader.by = "blocks" =>
    LET chunks == Picked(got, {i \in DOMAIN got : got[i].is = "chunk"})
    IN  /\ Len(chunks) <= Len(Whole)
        /\ \A i \in DOMAIN chunks : /\ chunks[i].data = Whole[i].body
                                     /\ chunks[i].sort = Whole[i].header.flags
        /\ End \in ToSet(got) => Len(chunks) = Len(Whole)
================================================================================
