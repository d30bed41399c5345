# hashsummer in TLA+

hashsummer walks a directory tree, hashes every file with two pools of threads,
collects one entry per file (hash of its name, hash of its content), and can
keep, compare and index what it found. This directory holds TLA+ modules
translated from its source, the TLC runs that check them on small instances, and
TLAPS proofs about the parts where most can go wrong: the scan runner with its
permits and its pool of buffers, the snapshot command around it, the path of bytes
through a buffer to the statistics and the zero finder, the two storages of names,
the walk of a directory tree with its index of paths, the comparison and the
compression of sorted runs of entries, and the readers of hash files.
Paths below are relative to the crate's own `src/`.

## 1. Inventory

### Components, their state and their operations

| Component (source) | State | Operations |
|---|---|---|
| Scan runner (`hasher/runner.rs`) | stop flag, path iterator, two rayon pools, one channel per file | `run`, `scheduler_run`, `read_file`, `process_file`, `signal_stop`, `stop`, `wait_for_finish`, panic handler |
| Permits (`runner.rs` 317-360) | a `usize` behind a mutex, a condition variable | `wait_for_permits`, `wait_for_permit`, `add_permits`, `add_permit` |
| Lending stack (`utils/lifo.rs`) | a `Vec` behind a mutex with a maximum, a condition variable | `try_lend`, `lend`, `give_back` |
| Digest consumer (`hasher/mod.rs` 397-436) | per file: a digest | `start_file`, `update_file`, `finish_consume`, `on_error` |
| Zero chunk finder (`hasher/mod.rs` 446-505) | per file: bytes seen, the run of zeros it is in; the files found | the same callbacks |
| Chunks (`hasher/runner.rs` 256-310) | an array with how much of it is filled, used again for file after file | `read_from`, `Deref` |
| Rate average (`utils/mod.rs`) | a counter; a ring of samples behind a lock | `append`, `sample_now`, `reset`, `get_avg` |
| Snapshot command (`app/commands.rs`) | the entries, shared with the consumer | `snapshot_files` |
| File scanner (`hasher/file_iter.rs`) | stack of open or cached directories, current path | `from_dir`, `reset_from_dir`, `next_file`, `iter`, `save_to_bungee` |
| File index (`file_iter.rs` 284-328) | index of each directory entered | `SaveToBungee::next` |
| Bungee strings (`utils/bungee.rs`) | one byte buffer | `push`, `reverse_read`, `raw_path`, `reverse_skip`, VarInt and FixedInt read and write |
| Names storage (`hasher/names.rs`) | one string or one compressed stream, a position | `try_push`, `push`, `with_collected`, `finish`, `decompress`, `get` |
| Diffing and memory store (`store/mod.rs`, `store/mem.rs`) | the entry in hand of each of two sorted runs | `next`, `size_hint` |
| Sort helpers (`utils/sort.rs`) | merge: the item held back and the side it is of; in-place merge: two places in an array | `MergeSortedWith::next`, `size_hint`; `merge_sort_in_place` |
| Entry compression (`store/compress.rs`) | previous entry, average span, what was written | `compress_sorted_entries` |
| Hash files (`file/`, `hasher/sum_file.rs`, `utils/io.rs`) | a chunk in memory, a stream position | `HashesChunk` read, write, sort, verify; `HashesIterChunk`; `SumFile::read_next_block`; headerless dumps |
| Hash arrays (`hasher/mod.rs` 29-369) | words of 64 bits | order, addition, subtraction, division, sign folding |
| Block buffer, cursor, text and memory helpers | - | not modelled, see section 6 |
| User interface (`app/`, `main.rs`) | none of the program's own | command line, terminal |

### How they interact

`snapshot_files` makes a `DepthFileScanner`, turns it into a `SaveToBungee` that
pushes every name on a `BungeeStr`, and gives the resulting iterator of files to
`ScanRunner::run` together with a `DigestConsumer`. The runner's scheduler thread
takes one path and one permit at a time and spawns two jobs for it: a reader job
on one pool and a worker job on the other, joined by a bounded channel. The
reader lends a buffer (*chunk*) from the lending stack, fills it from the file,
and sends it; the worker feeds it to the consumer and gives it back to the stack.
When the sender is dropped the worker finishes the file's digest, the consumer
pushes the entry into a shared vector, and the worker returns the permit. The
scheduler ends when the iterator is exhausted or the stop flag is off, after it
has taken back every permit. `snapshot_files` joins the scheduler, takes the
vector out of its `Arc`, and sorts it as a `HashesChunk`. Two sorted runs of
entries, in memory or read from files, can be compared with a `DiffingIter`;
several runs make one through `MergeSortedWith`; and a run can be compressed by
`compress_sorted_entries`, whose arithmetic is that of hash arrays. A scan can keep
its names in a `NamesStorage` instead of a `BungeeStr`. Readers add the bytes of
each chunk to an `AveragePerTick` that the display samples and resets meanwhile.

### What is hard here

* **Concurrency**: a scheduler, N readers and M workers share the lending stack,
  the permits and a channel per file. Resources are taken in different places and
  returned in others (a chunk is lent by a reader and given back by a worker; a
  permit is taken by the scheduler and returned by a worker), so a leak or a
  cyclic wait needs several actors to show. `run` itself warns that some thread
  counts "might halt the runner", and a test notes that it halts with others
  (`file_iter.rs` 437).
* **Condition variables**: `give_back` notifies after unlocking, with
  `notify_one`; `wait_for_permits` has callers that want different counts and a
  predicate with side effects.
* **Failure**: files that cannot be opened or read to the end, directories that
  cannot be opened, callbacks that panic in a pool whose panic handler carries on.
* **Ordering**: jobs of two pools, the end of a channel as the end of a file,
  teardown of a shared consumer while job closures still end.
* **Statistics without a lock**: a sample is taken from the counter before the lock
  of the samples is, so a reset or another sample may come between.
* **Data formats**: numbers readable from both sides, offsets back to a previous
  string, positions of 32 bits into a string of any length, blocks that may be cut.
* **Sequential edges**: runs of zeros cut by chunks, merges with repeated keys,
  carries and wide divisors in 256-bit arithmetic, an index that goes round a ring.

Every hazard is listed with its line and the properties aimed at it in
`PROJECT.json`, "hazards".

### What makes each component correct

* runner: every path taken is hashed once, over all its pieces in order; permits
  and chunks are conserved; it ends, and never halts where it does not warn, which a
  comment in a test contradicts (section 4, "What the runs found").
* permits, lending stack: a semaphore and a pool, without lost wake-ups.
* snapshot: the entries it takes out are complete.
* scanner, index: true paths, nothing lost to errors nearby, sorted order when
  asked for, and paths that can be restored from the index.
* read path: each byte reaches the consumer and the statistics once; the zero
  finder's answer does not depend on where reads and chunks cut the file; the
  average is the average of the last samples.
* bungee, names: every index issued reads back as its path or name, for good.
* diffing: the results are the difference of the two sides, in order, whatever the
  merge below it holds back.
* compression: what is kept is enough to rebuild the entries.
* hash files: no part of a chunk is ever taken for the whole.

## 2. Plan

| Step | Modules | Builds on | State |
|---|---|---|---|
| 1 | `LendingPool`, `LendingStack` | abstract pool, refined by the stack | done |
| 2 | `Semaphore`, `Permits` | abstract semaphore, refined by the permits | done |
| 3 | `HashFiles`, `ScanRunner` | uses the operations of 1 and 2 as `LendingPool` and `Semaphore` promise them; refines `HashFiles` | done |
| 4 | `ScanRunnerInvariant`, `ScanRunnerProofs` | 3 | done |
| 5 | `Snapshot` | composes 3 with the thread that runs it | done |
| 6 | `Bungee`, `FileScanner`, `FileIndex` | `FileIndex` composes the other two | done |
| 7 | `DiffingIter`, `SumFile` | - | done |
| 8 | in `ScanRunnerProofs`: `ScanRunner` implements `HashFiles` and uses `LendingPool` and `Semaphore` as they demand (safety); what `Snapshot` gets from it | 4, 5 | done |
| 9 | `LendingStackProofs`, `PermitsProofs`: wake-ups, and the refinement of `LendingPool` and `Semaphore` (safety) | 1, 2 | done |
| 10 | `ZeroChunks`, `RateAverage`, and `ReadPath` that composes them with the reading of chunks | 3 | done |
| 11 | `HashArrays`, `MergeSorted` below `DiffingIter`, `Compression`, `Store` | 7 | done |
| 12 | FixedInt in `Bungee`, `FileNames`, `NameStores`, `MergeInPlace` | 6 | done |
| 13 | `DataInduction`: induction over sets of numbers, the functions that a recursion defines, flattening | - | done |
| 14 | `ReadPathProofs`: the zero finder, the count of bytes and the average | 10, 13 | done |
| 15 | `PathsProofs`: `Bungee` and `FileNames` | 12, 13 | done |
| 16 | in `PathsProofs`: the walk, and the index of its paths in a `Bungee` buffer | 6, 15 | done |
| 17 | `StoreProofs`: the merge and `DiffingIter`, the arithmetic of `HashArrays`, `Compression` | 11, 13 | done |
| 18 | `SumFileProofs`: what each reader returns of a file cut anywhere | 7, 13 | done |

The parts that only read or format are left out for good (section 6).

## 3. The modules and the code

### LendingStack, LendingPool

`elements` is `InnerLifo.elements`; `out` the values callers own; `pc` tells which
thread sleeps in `lend`, has been woken but has not locked again, or has unlocked
in `give_back` and has still to notify. `Lend`/`Retry` are `lend`, `TryLend` is
`try_lend`, `GiveBack` with `NotifyOne` is `give_back`, `Refuse` its full case.
The condition variable is parking_lot's (external): `wait` unlocks and enqueues
atomically and there are no spurious wake-ups. `LendingPool` says what callers
rely on: values are free or out, a value is given to one caller, and a borrower
that waits found no value; while there are values and waiting borrowers, some
borrower is served (not a given one: a newcomer may overtake).

### Permits, Semaphore

`permits` is the counter; `want` what each thread asked for; `pc` as above.
`wait_for_permits` evaluates the predicate under the lock (`TakeOrSleep`), and
again after a wake-up (`Recheck`). `add_permits` adds and wakes everybody, and
does nothing on overflow. `Semaphore` is a counter from which amounts are taken
when they are there, and promises that some waiting caller is served while the
count would serve one.

### ScanRunner

One scheduler, and for each file a reader and a worker, each with a program
counter (`sched`, `rd`, `pr`). One action per step that other threads can see:

| Action | Code |
|---|---|
| `CheckFlag`, `NextFile`, `WaitForPermit`, `SpawnReader`, `SpawnWorker`, `Drain` | `scheduler_run` 182-214 |
| `StartReader`, `Open`, `Lend`, `Read`, `Send`/`Rendezvous`/`SendFails`, `ReadFileReturns`, `OnError`, `ReleaseReader`, `ReaderPanics` | reader closure and `read_file` |
| `StartWorker`, `StartFile`, `Recv`, `RecvEnds`, `UpdateFile`, `GiveBack`, `FinishConsume`, `AddPermit`, `ReleaseWorker`, `WorkerPanics` | worker closure and `process_file` |
| `SignalStop` | `signal_stop`, `stop` |

`read_threads` and `hash_threads` are computed from the drive type as in `run`.
A chunk is in one of five places (pool, reader, channel, worker, dropped) and
carries the number of the piece read into it; a digest is the sequence of pieces
the hasher was updated with, so an incomplete, reordered or repeated digest is
visible. A read returns more, the end of the file or an error, and the chunk is
sent in each case, as the code does. A panic of a callback unwinds the job: what
the job holds is dropped and its permit is not returned. The stack, the permits
and the channel are used through the atomic operations that `LendingPool` and
`Semaphore` (and crossbeam) promise; `UsesPool` and `UsesPermits` check that the runner uses them
as those abstractions demand. Rayon is external: `spawn_fifo` from a thread
outside of the pool starts jobs in order.

`HashFiles` is the promise without threads: paths are taken in order, each yields
one result, only `MaxInFlight` are outstanding when a further path is taken, and
the run is over when none is.

### Snapshot

`EXTENDS ScanRunner` with the thread of `snapshot_files`: `WaitForFinish`,
`IntoInner`, `SortAndPrint`. `ConsumerShared` is true while the scheduler or a
job closure still owns its clone of the consumer.

### ReadPath, ZeroChunks, RateAverage

`ScanRunner` counts the reads of a file. `ReadPath` is the other half of
`read_file`: the bytes of one file through one chunk. `Lend`, `ReadSome` (a read of
any length), `ReadReturns` (`read_from` ends full, at the end or with an error),
`AppendStats`, `Update` and `Finish` go round until the file ends. The chunk keeps
what an earlier file left in its array. The consumer is `HashZeroChunksFinder`,
whose `update_file` is the operator of the same name in `ZeroChunks`: `Advance` is
one turn of its loop. Meanwhile other threads are in `sample_now` (`Collect`,
`WriteSample`) and `reset` (`ResetCounter`, `ResetArray`) of `RateAverage`, each cut
in two where the code has left the counter and not yet taken the lock. `recent` and
`gone` are history: what a window should hold, and what has left it.

### FileScanner, FileIndex, Bungee

`FileScanner`: `stack` and `current` are the fields of the same names; a level is
what its iterator has still to give, in any order for `Fresh` and in the order of
paths for `Cached`. Unreadable entries (`bad`) and directories that cannot be
opened (`closed`) are chosen initially. `FileIndex` adds `dirs`, `SaveToBungee`'s
list, and pushes on the `Bungee` buffer; its caller may have used the scanner
before. `Bungee` keeps the buffer byte by byte, in a small base, because its
properties are about the width of numbers; `encoding` chooses VarInt or FixedInt.
A FixedInt keeps the low bytes of a longer number, as the code does: `whole` in the
history of issued indexes says whether every number on a path has fitted.

### FileNames, NameStores

`string`, `pos` and `storage` are the two storages' fields; `try_push` refuses a name
in the order of the code's four errors and changes nothing then, `collect` is the
`push(..).unwrap()` of `with_collected`, `finish` turns a compressed storage into one
that can be read. Deflate is external: decompressing gives what was written.
`NameStores` is a scan that uses one of the two places for names.

### HashArrays, MergeSorted, DiffingIter, Compression, Store

`HashArrays` translates the arithmetic word by word, with the carries and remainders
that go from word to word, and both divisions. `Number`, which only properties use,
is what an array stands for. `MergeSorted` is `MergeSortedWith`: `ia`, `ib`, `last`
and `from_a` are its fields. In `DiffingIter`, `old`, `new`, `curr_old`, `curr_new`
are the iterator's fields; the old side is such a merge of two stores, the four
actions are the four results of `next`. `Compression` is
`compress_sorted_entries` with its early returns: without a first or last entry, on
a write that fails, and on a count of 0 or 1, which the code meets only after it has
written both ends. `Store` lets a caller do one or the other with its entries.

### MergeInPlace

`merge_sort_in_place` step by step: `Compare`, `PartEnds`, `Bubble`.

### SumFile

A file is a sequence of 64-byte cells (main header, block header, entry): every
record of the format has that size, and a part of a cell at the end is the same
as none to every reader. `Stored` lets any prefix of what was written be on disk.
Readers: `read` (whole chunk), `iter_new`/`iter_next`, `read_vec_bytes`,
`open`/`new` with `read_next_block`. `sort_unstable` is
external: `sort` puts the entries into any arrangement that ascends. `Picked` gives what
is at chosen places of a sequence: the readable blocks of a file, the chunks among what
a reader returned. `ForeignFile` supplies files of blocks from
other writers, because the program has no writer of main headers yet.

## 4. The runs

| Run | What it asks | Instance |
|---|---|---|
| `lending_stack` | no wake-up lost, refines `LendingPool` with liveness | 3 borrowers, 2 returners, 2 values and a foreign one, so that borrowers wait, wake-ups overlap and the stack can be full |
| `permits` | nobody sleeps on permits that are there, refines `Semaphore` with liveness | 3 threads asking for 0-3 permits, a `usize` that overflows above 4 |
| `runner_panics` | permits add up, digests are right, the scheduler ends only over delivered files and is followed by no delivery, safety of `HashFiles`; until a worker's callback panics no send fails, no chunk is lost and the only halt is the starvation `run` warns of; the inductive invariant | 3 files of up to 2 reads, permits for 2, 1 chunk, rendezvous channels, 2 readers and 1 worker, stop at any time, errors, panics |
| `runner_ssd` | the runner never halts with `DriveType::Ssd` | 3 files of up to 2 reads with permits for all, 2 threads per pool, 1 chunk, channels of one, stop at any time, errors |
| `snapshot` | entries taken out are complete; the runner implements `HashFiles` with its end; errors are reported; `snapshot_files` ends; chunks and permits are used as a pool and a semaphore | 2 files of up to 2 reads, 2 threads per pool, 2 chunks, channels of one, with the main thread |
| `snapshot_reference` | **violated**: "More than one mutex reference" | 2 files of up to 2 reads, 2 threads per pool, 1 chunk, channels of one |
| `names` | paths and names kept, skipping meets all, numbers read from both sides | up to 4 strings of 0-6 bytes; base 3, VarInts of any length or FixedInts of one byte that overflow; 6 values of a `u32`, 8 of a `usize` |
| `file_index` | paths true, sorted when cached, nothing lost, restored paths true | tree of 6 entries, depth 3, all combinations of closed directories, one bad and one unconvertible entry, resets |
| `store` | results are the difference, nothing lost, `size_hint` right; the average is exact, the entries can be rebuilt | all sorted runs of up to 2 + 2 entries against up to 3, with names of 3 words; all sorted runs of up to 5 ids out of 9, counts 0-16, which include divisors of half a word and more |
| `read_path` | zero runs found wherever they are cut, bytes counted once, average of the last samples | all files of up to 5 bytes, a chunk of 2, minimum 0-3, 2 samplers, windows of 0 and 2 |
| `sum_file` | the order flag is true once checked, chunks read back whole or not at all, streamed entries are a prefix, the block reader finds every whole readable block | chunks of up to 3 entries, 2 readable at once, files of up to 2 foreign blocks |
| `merge_in_place` | **violated**: "merge first two sorted parts of elements into one sorted part" | arrays of up to 4 items |

`PROJECT.json` holds a mutant of the code for each property of a passing run, which
the run then refutes.

**Bounds.** `NFiles`, `MaxReads`, `MaxRecords`, `MaxPushes`, `MaxEntries`,
`MaxBlocks`, `MaxRun`, `MaxNew`, `MaxIds`, `MaxCount`, `MaxItems` and `MaxBad` bound
runs and are named in the modules. Two files show every interleaving of two jobs on
each side; three with permits for two make the scheduler wait for a permit, and the
pool of one worker queue and halt; three with permits for all leave a job queued in
both pools of two threads. Two chunks (`snapshot`) can overtake each other and can
both be taken. One chunk for three files makes them starve each other; with a channel
of one and files of two pieces (`runner_ssd`) all chunks of the pool fit into the
channel of one file, and no file fits into the pool. Two reads separate a first, a last and a failing piece. Channel
bounds of 0 (`runner_panics`) and 1 are the rendezvous and the queue. In `names`, base 3 reaches
four-digit numbers (the program's limit is where a `usize` ends). In `store`, words
of 4 bits with ids like (15,15,7) and (0,0,8) carry and borrow through all three
words, differ in the top bit, and give spans that are divided by more than half a
word. A file of five bytes through a chunk of two has two cuts and a partial chunk at
its end, so that a run can start, go through and end on either side of a cut; a
window of two goes round after four samples. What is not bounded by a run is what the
proofs of section 5 say for every value of the constants.

Symmetry is used for the two samplers of `read_path`, a run without liveness.

**Deadlock** is checked where the system may not stop. `CHECK_DEADLOCK FALSE`
stands in `runner_panics` (a lost permit leaves the scheduler waiting, and the halt
that `run` warns of is a subject of the run), `names`, `sum_file` and
`merge_in_place` (the bound is reached, the file is read, the function is done).

**Fairness.** Threads are the operating system's and each pool has its own, so a step
that stays possible is eventually taken. `Spec` of `ScanRunner` states weak fairness
of the scheduler and of each file's reader and worker; `SnapshotSpec` needs less, of
the runner as a whole and of the main thread, because each file's jobs have finitely
many steps. `SignalStop` and panics have none. In `LendingStack` and `Permits`
threads start operations when they like, and are only assumed to go on once inside: a
woken thread looks again (`Retry`, `Recheck`), a thread that has unlocked notifies
(`NotifyOne`). That is enough for what `LendingPool` and `Semaphore` promise, the
weak fairness of `ServeWaiter`.

### What the runs found

* `snapshot_reference`: a worker job returns its permit inside `process_file` and
  drops its clone of the consumer only when its closure ends; the scheduler may
  take that last permit, end, and be joined in between. `snapshot_files` then
  finds the entries still shared and panics (`commands.rs` 38).
* `merge_in_place`: an item that is swapped into the second part is never compared
  again, so [2, 3 | 1] becomes [1, 3, 2] (`sort.rs` 66). The function is private and
  has no caller.
* `runner_ssd`: a comment in a test says of `max_buffer_chunks_per_file`, next to
  `DriveType::Ssd`, "todo when this is too large, and buffer_chunk_size is too small,
  the runner halts" (`file_iter.rs` 437). That configuration is not one `run` warns
  about, and by this code it does not halt: `NeverHalts` holds in a run where the
  channel takes every chunk of the pool, files are longer than the pool and jobs queue
  in both pools, and `DeadlockFree` proves it for every number of chunks, files,
  pieces and threads and every channel length. The argument (section 5) needs as many
  workers as readers, one permit, that a pool starts its jobs in the order they were
  spawned in, and that no callback has panicked in `process_file`. Long channels and
  small chunks are what the other halt takes, the one with more readers than workers
  that `run` does warn about: there a reader can put all chunks into the channel of a
  file whose worker is queued (`HaltsByStarvation`). The order of starting is what
  keeps it from Ssd: with a pool that started its newest job first (the mutant
  `StartNewestWorker`) the Ssd runner does halt. If a halt is ever observed with Ssd,
  it is one of these conditions to look at: a callback of the consumer that panicked,
  whose permit and chunk are gone, or jobs started out of order.
* The comment "cant disconnect first" (`runner.rs` 233) is right as long as no
  callback panics: the receiver is gone only if one has panicked for that very file
  (`SendNeverFails`). The reader's `unwrap` fails then too; `runner_panics` contains
  that step (`SendFails`).
* The doc of `BlockError::ReadHeaderFirst` promises that error to a caller who has not
  read the file's header (`file/sum_file.rs` 102, "You should read file header first,
  before executing this operation"). Nothing returns it: `read_next_block` of a
  `SumFile` made by `new` takes the main header for a block's and fails on it as on any
  foreign cell. `SumFile` models what the code does, and `BlocksTrue` holds for such a
  reader too: it misses no later block.
* `HashesChunk::new_sha256` ignores its argument `sorted` and claims
  `SortedByName`. `SortFlagChecked` holds only from `sort` or
  `verify_update_sorted` on; `snapshot_files` always sorts.
* `compress_sorted_entries` divides by the number of steps, one less than the count,
  where its comment speaks of the count; for an average of differences the code is
  right (`AverageIsExact`). Only the first hundred differences are made, and they are
  only printed.
* A `BungeeStr` with FixedInts loses exactly the paths through a record whose offset
  did not fit, without an error (`PathsKept`, `SkipVisitsAll`).
* Read but not modelled: `HashesIterChunk::size_hint` keeps giving the full length;
  `SumFile.current_pos` does not count block headers. Nothing depends on them today.

## 5. What is proved

Each theorem holds for every value of the constants that the module's assumptions
allow; TLC evaluates these in each run.

| Module | Theorem | What it states |
|---|---|---|
| `ScanRunnerProofs` | `TypeCorrect`, `Invariance` | `[]TypeOK`, `[]IInv` |
| | `PermitsAccounted`, `AllDelivered` | `[]PermitAccounting`, `[]EntriesComplete` |
| | `HaltShape`, `DeadlockFree` | `[]HaltsByStarvation`, `[]NeverHalts` |
| | `SendNeverFails` | `[]SendSucceeds` |
| | `DigestsFaithful`, `ChunksKept` | `[]DigestFaithful`, `[]ChunksConserved` |
| | `NothingAfterDone` | `QuietAfterDone` |
| | `PermitsUsed`, `PoolUsed` | `UsesPermits`; `UsesPool`, if callbacks do not panic |
| | `FilesHashed` | `HashesFilesSafely`: the runner implements `HashFiles` |
| | `SnapshotsComplete` | `SnapshotSpec => []SnapshotComplete` |
| `PermitsProofs` | `PermitsTyped`, `NoSleeperForgotten` | `[]TypeOK`, `[]SleepersLackPermits` |
| | `ImplementsSemaphore` | every step of `Permits` is one of `Semaphore` or a stutter |
| `LendingStackProofs` | `StackTyped`, `WakeUpsKept`, `OneOwner` | `[]TypeOK`, `[]NoLostWakeup`, `[]SingleOwner` |
| | `ImplementsPool` | every step of `LendingStack` is one of `LendingPool` or a stutter |
| `ReadPathProofs` | `ReadPathInvariant` | types, rings, paths and counts, together inductive |
| | `AverageOfLast`, `BytesOnce` | `[]AverageOfRecent`, `[]BytesAccounted` |
| | `ZeroRunsFound` | `[]ZeroRunFound` |
| `PathsProofs` | `NamesNeverMove` | `NamesSpec => []NamesKept` |
| | `PathsAlwaysKept`, `SkippingVisitsAll` | `[]PathsKept`, `[]SkipVisitsAll` |
| | `OffsetsAlwaysReadBack` | `[]OffsetsReadBack` |
| | `EntriesHaveTruePaths` | `FileIndexSpec => []PathsTrue` |
| | `SortedScansAscend` | `[]SortedWhenCached` |
| | `ScansAreComplete` | `[]ScanComplete` |
| | `SavedIndexesLeadToPaths` | `[](encoding = "VarInt" => SavedPaths)`: the encoding of `BungeeStr` |
| `StoreProofs` | `DiffInvariantHolds` | `StoreSpec => []DiffInvariant` |
| | `DiffTheorem`, `NothingLostTheorem` | `[]DiffIsDifference`, `[]NothingLost` |
| | `SizeHintTheorem` | `[]SizeHintHolds` |
| | `CompressInvariantHolds` | `StoreSpec => []CompressInvariant` |
| | `AverageTheorem`, `RebuildTheorem` | `[]AverageIsExact`, `[]DiffsRebuild` |
| `SumFileProofs` | `SumFileInvariant` | `SumFileSpec => []SumFileInv`: types, chunk, file and readers, together inductive |
| | `FlagsHonest`, `ChunksReadBack` | `[]SortFlagChecked`, `[]ChunkReadsBack` |
| | `EntriesAlwaysStreamed`, `BlocksAlwaysTrue` | `[]EntriesStreamed`, `[]BlocksTrue` |

`DataInduction` holds lemmas only (see below).

Assumptions: `SizesAssumption`, `ChunksAssumption`, `ThreadsAssumption` and
`PanicsAssumption` of the runner (numbers are natural, the drive type is one of
three, there is a chunk, and finitely many); finite threads and values, none both
inside and foreign, for the stack; counts within the counter's width for the
permits; names are sequences and a `u32` is no wider than a `usize` for the names;
chunks have a length, and the threads that sample are finitely many, for the read
path; digits have a base of at least two and a FixedInt a byte for the buffers. The
tree of a scan is finite, with every entry in a directory that comes before it
(`TreeAssumption`); its numbers are in the order of whole paths (`OrderAssumption`:
what comes between a directory and one of its entries is below that directory), which
is what sorting a directory by name amounts to; its names are not empty
(`IndexAssumption`). Names in a comparison are arrays of words, of a positive number
of words whose half has an even number of values (`HashArrayAssumption`). Entries of a hash file are numbers (only their order counts),
its limits are natural, and the files of other writers have bodies of entries and one of
three leads (`SumFileAssumption`). Nothing is assumed of how many files, threads, chunks,
permits, strings, blocks or entries there are, nor of which entries fail, nor of where a
file is cut.

**The runner's inductive invariant.** None of its properties is inductive alone.
`IInv` (`ScanRunnerInvariant`) is a conjunction of named parts; `runner_panics`
checks it.

* *Typing* needs `ReadsBounded` (a reader that may read again has not read the
  longest file) and `JobsSpawned` (which files have been spawned follows from
  `sched` and `cur`).
* `PermitAccounting` ties the number of permits to the set of admitted files not
  settled yet. Each step either leaves that set alone or changes it by one file.
  At the end all permits are taken, so the set is empty, and with `DeliveredOnce`
  every file has its entry: `AllDelivered`.
* `OwnersHold`, `OwnersKnown` and `ChannelUse` say where chunks can be: a reader
  or worker has one exactly in the part of its job that uses one, and a worker
  that has left its loop has an empty channel and no sender: `SendNeverFails`.
  `NothingUnwinds` adds that chunks are dropped only once a callback has panicked in
  a worker.
* `StartsInOrder` and `ReaderWindow` are for deadlock. Pools start jobs in order,
  so the active readers of files before a started one are fewer than the reader
  pool's threads (`ReaderWindow`). Suppose everybody waits, and no callback has
  panicked in a worker. Then no chunk is free,
  and every chunk is with some file `g` whose reader has started and whose worker
  is queued: all `hash_threads` worker threads are taken. Their files are before
  `g`, because workers start in order, and their readers have started too and wait
  for a chunk. So `hash_threads` readers before `g` are active, which is fewer
  than `read_threads`. That is `HaltShape`; with `read_threads <= hash_threads` it
  is a contradiction: `DeadlockFree`.

* `PiecesInOrder` follows a file's pieces: those in the digest are numbered without
  a gap, then comes the one in the worker's hand, the channel holds each of the next
  numbers once, and the reader has the last. When the worker has left its loop the
  channel is empty and the sender gone, so the digest covers all that was read:
  `DigestsFaithful`. `QueuesBounded` gives `ChunksKept`.
* `PermitAccounting` gives that a file whose worker still has to deliver keeps the
  scheduler from ending (`NothingAfterDone`) and a permit out of the counter, so the
  counter never exceeds what it started with (`PermitsUsed`), and that no more than
  `MaxPermits` files are outstanding when a further one is taken (`FilesHashed`).

**Snapshot.** Steps around the runner leave its invariant alone. `SnapshotInv` adds
that without a stop the scheduler drains only after the last path, that the main
thread goes on only once the scheduler has ended, and that nothing is delivered
after that: what is taken out is what stays, although jobs may still be closing.

**Permits and stack.** `SleepersLackPermits` is inductive with the types: taking
makes permits scarcer, an addition wakes everybody. For the stack, `NoLostWakeup`
compares values on the stack with threads that are awake for them or about to wake
one; a push adds one of each, a pop removes one of each at most. The refinements need
in addition that a value is in one place (`OwnedOnce`).

**Recursive functions.** What the numbers of a `BungeeStr`, its paths, the paths of a
tree and the sums of the rate compute is defined by recursion over data. A function
defined by `f[x] == ...` stands for some function with that equation, if there is
one, so each needs a proof that there is. `DataInduction` has it once: induction over
the natural numbers, an interval and the subsets of a finite set (from the well-founded
order of the naturals, stated about sets), and from these that a recursion over
`0 .. m` has a solution (`RecursionExists`), as has one that goes from each number to
any smaller one (`DownRecursionExists`). The modules' lemmas that end in `Unfolds`
then give each function its equation; what it computes is proved by induction over
the set of arguments for which it is right. It also has the flattening of a sequence of
sequences, element by element (`FlattenAppend`), which the compressed runs and the cells
of a file need.

**Read path.** `ReadPathInv` has three parts that are inductive together.
`RingInv` says where in the ring the samples are that `recent` remembers: the array's
beginning until it is full, and then all of it, from the index round; both have the
same sum, which is `AverageOfLast`. `Counted` adds what is in the counter, in the
threads' hands, in the window and behind it, and equals what readers have appended
(`BytesOnce`). `PathInv` says that while a chunk is on its way it holds the last bytes
read, and the finder's state is right for the bytes before them: `FinderInv` says,
of the file alone, that a run it is in goes back as far as it can, and that the runs
before were too short unless one has been found. One turn of the loop
keeps that for a prefix (`TurnInv`), and a chunk takes no more turns than it has
bytes, so the answer cannot depend on the cuts (`ZeroRunsFound`).

**Names.** `NamesInv` adds to the property that the position counted beside the
encoder is the length of what it was given. A name is stored only where its position
and length fit 32 bits, and a string that grows keeps its parts.

**Strings.** The argument has three layers. Numbers: `ShiftedStep`, `ValueOfDigits` and
`DigitsAre` say that reading the digits of n from the top gives n when enough of them
were written; in a VarInt only the first and last byte have their top bit, so either
reader stops at the right byte whatever is beside it (`VarReversed`, `VarForward`:
`OffsetsAlwaysReadBack`). Records: a record read from its end gives its name, the
record before it and, if the offset fitted, the record it refers to
(`RecordReadBack`), and that stays true when the buffer grows (`StandsStill`). The
buffer: `BungeeInv` says that the records issued lie one behind the other, that each
refers to an earlier one or to none, and that its path is that one's path and its own
name; `whole` holds where the offsets and lengths fitted. Both walks then follow by
induction over the positions of the buffer.

**The walk.** The stack does not say which directories its levels are of. `IndexInv`
carries that chain of directories beside it (`Walk`): each is in the one before, level
k has entries of the k-th only, the chain's names are `current` while scanning, and
every directory in it has been returned. `StepWalks` is the heart: taking the next
entry that is not passed over leaves a part of the chain and may enter one more
directory. `Covered` says of the rest of the tree: every entry whose directory was
entered is returned, on the stack or passed over, and none twice, so that an empty
stack means that the walk is complete (`ScansAreComplete`). `PathOfChain` turns the
chain into the true path (`EntriesHaveTruePaths`), and `OrderAssumption` turns sorted
levels into a sorted whole (`SortedScansAscend`). While saving, `Aligned` says how far
the chain consists of directories entered before `save_to_bungee`, and that `dirs` has
the indexes of the others, each leading to its part of the path; `CountedAbove` relates
that to the tree. `BungeeInv` is a part of the invariant, so an index once issued goes
on leading to its path (`SavedIndexesLeadToPaths`).

**Comparing runs.** The order of names is by words, so it is shown first to be total
and to agree with the order of the numbers that names stand for (`LessIsLower`).
`Gives` says what a merge's `next` does, whatever it held back before: it gives an
entry that none of the others comes before, and keeps the others, each as often as it
was there; `MergeInv` is what makes that true (both runs are sorted, and the item held
back comes before the rest of the run it is of). `DiffInvariant` then counts: an entry
of the old stores is in the results, in hand or in the merge as often as it was there
to begin with, and those of the new side come as they are (`OldParts`, `NewParts`);
what was returned does not come after what is left (`ResultsBefore`, `OldsBefore`),
and each entry is left or in some result (`OldsCome`, `NewsCome`). That is `NothingLostTheorem`. For
sides without repeated names `Once` adds that the results have different names, all of
them before the names that are left, and are among those expected; an exhausted
iterator has nothing left, so every one expected is there (`DiffTheorem`). The bounds
of the size hint hold with repeated names as well: the entries left of one name are
numbered on either side, and the n-th of one side goes with the n-th of the other, so
what is still to come has as many elements as the union of two sets of known sizes
(`NumberedCounted`, `SizeHintTheorem`).

**Compressing runs.** `CompressInvariant` says, for each place in the function, which
entries of the run are written, which have a difference and which the iterator still
has, and that each difference is the one of its two entries. The rest is arithmetic on
arrays as numbers. Word by word, what `wrapping_add` carries is exactly what the word
overflows by, and what `wrapping_sub` borrows what it lacks (`CarryExact`,
`BorrowExact`); summed from the top word down these cancel, but for the last one
(`CarriesCancel`), so sum and difference are those of the numbers, up to one `Range2`
(`SumNumber`, `DifferenceNumber`). A number is below `Range2` and has one array
(`NumberBelow`, `NumberInjective`), so adding the difference back gives the entry
itself (`AddingBack`). Division keeps `digit + rem * DataChunk` exactly in each word,
with either of the two ways to divide (`WordDivided`: the quotient fits a word because
the remainder is below the divisor), and `QuotientNumber` adds up the words: that is
`AverageTheorem`. Folding the sign doubles a number, or the complement of a negative
one, and moves its top bit to the bottom (`SignedNumber`), so `Deviation` gives the
number back up to a `Range2` (`DeviationIs`). Going from an entry to the next by such a
difference is then right up to a multiple of `Range2` (`DeviationSteps`), and by
induction each total has its entry as remainder (`RebuildTheorem`).
`CompressionAssumption` is what the types say: ids are arrays, a count fits a word.

**Hash files.** `SumFileInv` has three parts. `ChunkInv` types the chunk and says that
the sort flag of a checked one is true exactly if its entries ascend. `FileInv` says that
the disk has a beginning of the cells that were written; `CellsLaidOut` says where in them
the header and the body of each block are, so that the blocks' ends ascend
(`EndsAscend`). `ReaderInv` says what each reader has returned so far. `read` takes all of
a chunk or fails (`ChunkReadsBack`); raw entries are those on the disk (`RawInv`). For
`HashesIterChunk`, `Streamed` lists where it can be: it goes on and has returned the
entries before it, has failed at the first missing one, has ended, or has failed and then
ended. For `read_next_block`, `BlocksAt` says that there is a number of blocks such that
the reader is past their headers and no other's, that what it has left of the last of them
are entries, and that the chunks it has returned are, in order, exactly those of the
blocks among them that are readable and whole. Cells of a body decode to errors and not to
headers (`DecodeHeader`), so after a failure inside a block the reader goes through the
rest of it without returning a chunk, and finds the next header; at the end of the disk no
further block can be whole, which gives `BlocksTrue` in both directions. `PickedAppend`
and `PickedGrows` say how the chosen elements of a sequence grow with it, `PickedRest` that
nothing is added by places that are not chosen.

**Model-checked only**: liveness (`HashesFiles`, `ErrorsReported`, `SnapshotEnds`,
the liveness in `PoolSpec` and `SemaphoreSpec`), which is out of the prover's reach,
as is ENABLED (`DeadlockFree` is about named conditions in its place).

## 6. What is not modelled

* Block buffer (`BlockBuf` has an empty method), cursor (private and unused), text
  and memory helpers, user interface: no behaviour of the program rests on them, or
  it is formatting, or a matter of memory layout in unsafe code
  (`store/str_convert.rs`).
* Of modelled parts: `merge_sort_arrays` (its use is commented out); hexadecimal
  conversions, views of bytes and `top_bits` of hash arrays; the growth of buffers;
  `FileCounts`, `is_finished` and getters, which only feed the display; the borrowing
  wrappers around the scanner.
* Hash files: I/O errors other than their end; stubs (`write_next_block`,
  `SumFileHeader::new`); the body of a names block ends in `todo!()` and is modelled
  as a panic.
* External: rayon, crossbeam and parking_lot, by what the code uses of them; Deflate;
  the file system, as a tree that does not change during a scan.
