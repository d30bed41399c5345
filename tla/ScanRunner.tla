------------------------------- MODULE ScanRunner -------------------------------
(***************************************************************************)
(* ScanRunner (hasher/runner.rs): a scheduler thread takes paths from an    *)
(* iterator, and for each of them spawns a job on the reader pool and a job *)
(* on the worker pool, joined by a bounded channel.  The reader lends a     *)
(* chunk from the shared pool, fills it from the file and sends it; the     *)
(* worker feeds it to the consumer and gives it back.  Permits bound the    *)
(* files in flight, and the scheduler ends by taking all of them.           *)
(*                                                                          *)
(* Pieces of a file are numbered in the order they are read; a file's       *)
(* digest is the sequence of the pieces its hasher was updated with.  The   *)
(* pool, the permits and the channel are used through the atomic operations *)
(* that LendingPool, Semaphore and crossbeam promise.  Rayon runs the jobs  *)
(* of a pool in the order they were spawned (spawn_fifo).                   *)
(***************************************************************************)
EXTENDS Naturals, FiniteSets, Sequences

CONSTANTS
    NFiles,         \* length of the path iterator (bounds the run)
    MaxReads,       \* pieces in the longest file (bounds the run)
    Chunks,         \* the buffers of the pool; run() makes at least one
    MaxPermits,     \* RunnerConfig.permits
    ChanBound,      \* RunnerConfig.max_buffer_chunks_per_file; 0: rendezvous
    Drive,          \* RunnerConfig.drive_type
    Cpus,           \* available_parallelism()
    CustomRead, CustomProcessing,  \* the fields of DriveType::Custom
    ConsumerPanics  \* whether callbacks of the Consumer may panic

ASSUME SizesAssumption == /\ NFiles \in Nat
                          /\ MaxReads \in Nat \ {0}
                          /\ MaxPermits \in Nat
                          /\ ChanBound \in Nat
ASSUME ChunksAssumption == IsFiniteSet(Chunks) /\ Chunks # {}
ASSUME ThreadsAssumption == /\ Drive \in {"Ssd", "Hdd", "Custom"}
                            /\ Cpus \in Nat \ {0}
                            /\ CustomRead \in Nat
                            /\ CustomProcessing \in Nat
ASSUME PanicsAssumption == ConsumerPanics \in BOOLEAN

AtLeastOne(n) == IF n < 1 THEN 1 ELSE n

read_threads == CASE Drive = "Hdd" -> 1
                  [] Drive = "Ssd" -> Cpus
                  [] Drive = "Custom" -> AtLeastOne(CustomRead)

hash_threads == CASE Drive = "Hdd" -> IF Cpus < 4 THEN Cpus ELSE 4
                  [] Drive = "Ssd" -> Cpus
                  [] Drive = "Custom" -> AtLeastOne(CustomProcessing)

(* "Warning, configuration might halt the runner" *)
Warned == read_threads > hash_threads

Files == 1 .. NFiles

VARIABLES
    flag,      \* the stop flag; true while the runner should go on
    sched,     \* where scheduler_run is
    cur,       \* paths taken from the iterator; the file it is working on
    permits,   \* available permits
    rd,        \* where the reader job of each file is
    pr,        \* where the worker job of each file is
    chunk,     \* owner of each buffer, and the piece in it
    nread,     \* pieces read of each file so far
    res,       \* what the last read of each file returned
    digest,    \* pieces each file's hasher was updated with
    entries,   \* digests handed to finish_consume for each file
    reported   \* files whose error was handed to on_error

jobs == <<rd, pr>>
vars == <<flag, sched, cur, permits, rd, pr, chunk, nread, res, digest, entries, reported>>

SchedulerStates == {"poll", "next", "permit", "spawn_reader", "spawn_worker",
                    "drain", "done"}
ReaderStates == {"idle", "queued", "open", "lend", "read", "send", "return",
                 "report", "release", "done", "panicked"}
WorkerStates == {"idle", "queued", "start", "recv", "update", "give", "finish",
                 "signal", "release", "done", "panicked"}

(* A chunk is in the pool, with the reader or the worker of a file, in the  *)
(* file's channel, or dropped.                                              *)
Places == [at : {"free", "reader", "channel", "worker", "lost"},
           file : 0 .. NFiles, piece : 0 .. MaxReads]
Place(at, f, i) == [at |-> at, file |-> f, piece |-> i]
Nowhere(at) == Place(at, 0, 0)

TypeOK == /\ flag \in BOOLEAN
          /\ sched \in SchedulerStates
          /\ cur \in 0 .. NFiles
          /\ permits \in Nat
          /\ rd \in [Files -> ReaderStates]
          /\ pr \in [Files -> WorkerStates]
          /\ chunk \in [Chunks -> Places]
          /\ nread \in [Files -> 0 .. MaxReads]
          /\ res \in [Files -> {"more", "eof", "err"}]
          /\ digest \in [Files -> Seq(0 .. MaxReads)]
          /\ entries \in [Files -> Seq(Seq(0 .. MaxReads))]
          /\ reported \subseteq Files

Init == /\ flag = TRUE
        /\ sched = "poll"
        /\ cur = 0
        /\ permits = MaxPermits
        /\ rd = [f \in Files |-> "idle"]
        /\ pr = [f \in Files |-> "idle"]
        /\ chunk = [c \in Chunks |-> Nowhere("free")]
        /\ nread = [f \in Files |-> 0]
        /\ res = [f \in Files |-> "more"]
        /\ digest = [f \in Files |-> <<>>]
        /\ entries = [f \in Files |-> <<>>]
        /\ reported = {}

--------------------------------------------------------------------------------
Free == {c \in Chunks : chunk[c].at = "free"}
Held(f, at) == {c \in Chunks : chunk[c].at = at /\ chunk[c].file = f}
Channel(f) == Held(f, "channel")

(* The jobs that occupy a thread of their pool. *)
ActiveReaders == {f \in Files : rd[f] \notin {"idle", "queued", "done", "panicked"}}
ActiveWorkers == {f \in Files : pr[f] \notin {"idle", "queued", "done", "panicked"}}

(* Mutant of SenderAlive: a clone of the Sender is never dropped. *)
SenderKept(f) == f \in Files

(* The two ends of a file's channel: the reader's Sender lives until         *)
(* read_file returns, the worker's Receiver until process_file does.         *)
SenderAlive(f) == rd[f] \notin {"report", "release", "done", "panicked"}
ReceiverAlive(f) == pr[f] \notin {"release", "done", "panicked"}

(* scheduler_run *)
CheckFlag == /\ sched = "poll"
             /\ sched' = IF flag THEN "next" ELSE "drain"
             /\ UNCHANGED <<flag, cur, permits, jobs, chunk, nread, res, digest, entries, reported>>

NextFile == /\ sched = "next"
            /\ \/ /\ cur < NFiles
                  /\ cur' = cur + 1
                  /\ sched' = "permit"
               \/ /\ cur = NFiles
                  /\ cur' = cur
                  /\ sched' = "drain"
            /\ UNCHANGED <<flag, permits, jobs, chunk, nread, res, digest, entries, reported>>

WaitForPermit == /\ sched = "permit"
                 /\ permits >= 1
                 /\ permits' = permits - 1
                 /\ sched' = "spawn_reader"
                 /\ UNCHANGED <<flag, cur, jobs, chunk, nread, res, digest, entries, reported>>

SpawnReader == /\ sched = "spawn_reader"
               /\ rd' = [rd EXCEPT ![cur] = "queued"]
               /\ sched' = "spawn_worker"
               /\ UNCHANGED <<flag, cur, permits, pr, chunk, nread, res, digest, entries, reported>>

SpawnWorker == /\ sched = "spawn_worker"
               /\ pr' = [pr EXCEPT ![cur] = "queued"]
               /\ sched' = "poll"
               /\ UNCHANGED <<flag, cur, permits, rd, chunk, nread, res, digest, entries, reported>>

(* Mutant of Drain: a wait for one of the permits only. *)
DrainOne == /\ sched = "drain"
            /\ permits >= 1
            /\ permits' = permits - 1
            /\ sched' = "done"
            /\ UNCHANGED <<flag, cur, jobs, chunk, nread, res, digest, entries, reported>>

(* wait_for_permits(max_permits), after which the thread ends. *)
Drain == /\ sched = "drain"
         /\ permits >= MaxPermits
         /\ permits' = permits - MaxPermits
         /\ sched' = "done"
         /\ UNCHANGED <<flag, cur, jobs, chunk, nread, res, digest, entries, reported>>

Scheduler == \/ CheckFlag \/ NextFile \/ WaitForPermit
             \/ SpawnReader \/ SpawnWorker \/ Drain

(* signal_stop, and the store in stop, by the owner of the runner. *)
SignalStop == /\ flag
              /\ flag' = FALSE
              /\ UNCHANGED <<sched, cur, permits, jobs, chunk, nread, res, digest, entries, reported>>

--------------------------------------------------------------------------------
(* The reader job: the closure given to reader_pool, and read_file in it.   *)
StartReader(f) == /\ rd[f] = "queued"
                  /\ \A g \in 1 .. f - 1 : rd[g] # "queued"
                  /\ Cardinality(ActiveReaders) < read_threads
                  /\ rd' = [rd EXCEPT ![f] = "open"]
                  /\ UNCHANGED <<flag, sched, cur, permits, pr, chunk, nread, res, digest, entries, reported>>

Open(f) == /\ rd[f] = "open"
           /\ \/ /\ rd' = [rd EXCEPT ![f] = "lend"]
                 /\ UNCHANGED res
              \/ /\ rd' = [rd EXCEPT ![f] = "return"]
                 /\ res' = [res EXCEPT ![f] = "err"]
           /\ UNCHANGED <<flag, sched, cur, permits, pr, chunk, nread, digest, entries, reported>>

Lend(f) == /\ rd[f] = "lend"
           /\ \E c \in Free :
                 chunk' = [chunk EXCEPT ![c] = Place("reader", f, 0)]
           /\ rd' = [rd EXCEPT ![f] = "read"]
           /\ UNCHANGED <<flag, sched, cur, permits, pr, nread, res, digest, entries, reported>>

(* read_from fills the chunk, or meets the end of the file or an error.  In *)
(* each case the chunk is sent, with what was read before (runner.rs "don't *)
(* loose chunk if error occurs").                                           *)
Read(f) == /\ rd[f] = "read"
           /\ nread' = [nread EXCEPT ![f] = @ + 1]
           /\ \E c \in Held(f, "reader") :
                 chunk' = [chunk EXCEPT ![c] = Place("reader", f, nread[f] + 1)]
           /\ \E r \in {"more", "eof", "err"} :
                 /\ r = "more" => nread[f] + 1 < MaxReads
                 /\ res' = [res EXCEPT ![f] = r]
           /\ rd' = [rd EXCEPT ![f] = "send"]
           /\ UNCHANGED <<flag, sched, cur, permits, pr, digest, entries, reported>>

AfterSend(f) == IF res[f] = "more" THEN "lend" ELSE "return"

(* Mutant of Send: the channel takes one chunk more than its bound. *)
SendOneMore(f) ==
    /\ rd[f] = "send"
    /\ ReceiverAlive(f)
    /\ Cardinality(Channel(f)) <= ChanBound
    /\ \E c \in Held(f, "reader") :
          chunk' = [chunk EXCEPT ![c] = Place("channel", f, chunk[c].piece)]
    /\ rd' = [rd EXCEPT ![f] = AfterSend(f)]
    /\ UNCHANGED <<flag, sched, cur, permits, pr, nread, res, digest, entries, reported>>

Send(f) == /\ rd[f] = "send"
           /\ ReceiverAlive(f)
           /\ Cardinality(Channel(f)) < ChanBound
           /\ \E c \in Held(f, "reader") :
                 chunk' = [chunk EXCEPT ![c] = Place("channel", f, chunk[c].piece)]
           /\ rd' = [rd EXCEPT ![f] = AfterSend(f)]
           /\ UNCHANGED <<flag, sched, cur, permits, pr, nread, res, digest, entries, reported>>

(* bounded(0): the chunk passes to a worker that is already in recv. *)
Rendezvous(f) == /\ ChanBound = 0
                 /\ rd[f] = "send"
                 /\ pr[f] = "recv"
                 /\ \E c \in Held(f, "reader") :
                       chunk' = [chunk EXCEPT ![c] = Place("worker", f, chunk[c].piece)]
                 /\ rd' = [rd EXCEPT ![f] = AfterSend(f)]
                 /\ pr' = [pr EXCEPT ![f] = "update"]
                 /\ UNCHANGED <<flag, sched, cur, permits, nread, res, digest, entries, reported>>

(* The unwrap of a send whose receiver is gone: the job unwinds. *)
SendFails(f) == /\ rd[f] = "send"
                /\ ~ReceiverAlive(f)
                /\ rd' = [rd EXCEPT ![f] = "panicked"]
                /\ chunk' = [c \in Chunks |-> IF c \in Held(f, "reader") THEN Nowhere("lost")
                                              ELSE chunk[c]]
                /\ UNCHANGED <<flag, sched, cur, permits, pr, nread, res, digest, entries, reported>>

(* Mutant of ReadFileReturns: only a failure to open is reported. *)
ReturnsQuietly(f) ==
    /\ rd[f] = "return"
    /\ rd' = [rd EXCEPT ![f] = IF res[f] = "err" /\ nread[f] = 0 THEN "report" ELSE "release"]
    /\ UNCHANGED <<flag, sched, cur, permits, pr, chunk, nread, res, digest, entries, reported>>

(* read_file returns and drops the Sender. *)
ReadFileReturns(f) ==
    /\ rd[f] = "return"
    /\ rd' = [rd EXCEPT ![f] = IF res[f] = "err" THEN "report" ELSE "release"]
    /\ UNCHANGED <<flag, sched, cur, permits, pr, chunk, nread, res, digest, entries, reported>>

(* Mutant of OnError: the failing reader returns the file's permit as well. *)
OnErrorAddsPermit(f) ==
    /\ rd[f] = "report"
    /\ rd' = [rd EXCEPT ![f] = "release"]
    /\ reported' = reported \union {f}
    /\ permits' = permits + 1
    /\ UNCHANGED <<flag, sched, cur, pr, chunk, nread, res, digest, entries>>

OnError(f) == /\ rd[f] = "report"
              /\ rd' = [rd EXCEPT ![f] = "release"]
              /\ reported' = reported \union {f}
              /\ UNCHANGED <<flag, sched, cur, permits, pr, chunk, nread, res, digest, entries>>

(* The closure ends: what it captured is dropped, the thread is free. *)
ReleaseReader(f) == /\ rd[f] = "release"
                    /\ rd' = [rd EXCEPT ![f] = "done"]
                    /\ UNCHANGED <<flag, sched, cur, permits, pr, chunk, nread, res, digest, entries, reported>>

ReaderPanics(f) == /\ ConsumerPanics
                   /\ rd[f] = "report"
                   /\ rd' = [rd EXCEPT ![f] = "panicked"]
                   /\ UNCHANGED <<flag, sched, cur, permits, pr, chunk, nread, res, digest, entries, reported>>

Reader(f) == \/ StartReader(f) \/ Open(f) \/ Lend(f) \/ Read(f)
             \/ Send(f) \/ Rendezvous(f) \/ SendFails(f)
             \/ ReadFileReturns(f) \/ OnError(f) \/ ReleaseReader(f) \/ ReaderPanics(f)

--------------------------------------------------------------------------------
(* The worker job: the closure given to worker_pool, and process_file in it. *)
(* Mutant of StartWorker: the pool starts its newest job first. *)
StartNewestWorker(f) ==
    /\ pr[f] = "queued"
    /\ \A g \in f + 1 .. NFiles : pr[g] # "queued"
    /\ Cardinality(ActiveWorkers) < hash_threads
    /\ pr' = [pr EXCEPT ![f] = "start"]
    /\ UNCHANGED <<flag, sched, cur, permits, rd, chunk, nread, res, digest, entries, reported>>

StartWorker(f) == /\ pr[f] = "queued"
                  /\ \A g \in 1 .. f - 1 : pr[g] # "queued"
                  /\ Cardinality(ActiveWorkers) < hash_threads
                  /\ pr' = [pr EXCEPT ![f] = "start"]
                  /\ UNCHANGED <<flag, sched, cur, permits, rd, chunk, nread, res, digest, entries, reported>>

(* consume_name and start_file *)
StartFile(f) == /\ pr[f] = "start"
                /\ pr' = [pr EXCEPT ![f] = "recv"]
                /\ UNCHANGED <<flag, sched, cur, permits, rd, chunk, nread, res, digest, entries, reported>>

(* A channel delivers in the order of the sends. *)
Recv(f) == /\ pr[f] = "recv"
           /\ \E c \in Channel(f) :
                 /\ \A d \in Channel(f) : chunk[c].piece <= chunk[d].piece
                 /\ chunk' = [chunk EXCEPT ![c] = Place("worker", f, chunk[c].piece)]
           /\ pr' = [pr EXCEPT ![f] = "update"]
           /\ UNCHANGED <<flag, sched, cur, permits, rd, nread, res, digest, entries, reported>>

(* Mutant of RecvEnds: try_recv, which ends on an empty channel. *)
RecvEndsEarly(f) ==
    /\ pr[f] = "recv"
    /\ Channel(f) = {}
    /\ pr' = [pr EXCEPT ![f] = "finish"]
    /\ UNCHANGED <<flag, sched, cur, permits, rd, chunk, nread, res, digest, entries, reported>>

(* recv fails once the channel is empty and its Sender dropped. *)
RecvEnds(f) == /\ pr[f] = "recv"
               /\ Channel(f) = {}
               /\ ~SenderAlive(f)
               /\ pr' = [pr EXCEPT ![f] = "finish"]
               /\ UNCHANGED <<flag, sched, cur, permits, rd, chunk, nread, res, digest, entries, reported>>

UpdateFile(f) == /\ pr[f] = "update"
                 /\ \E c \in Held(f, "worker") :
                       digest' = [digest EXCEPT ![f] = Append(@, chunk[c].piece)]
                 /\ pr' = [pr EXCEPT ![f] = "give"]
                 /\ UNCHANGED <<flag, sched, cur, permits, rd, chunk, nread, res, entries, reported>>

(* Mutant of GiveBack: the chunk is dropped instead of given back. *)
DropChunk(f) ==
    /\ pr[f] = "give"
    /\ \E c \in Held(f, "worker") : chunk' = [chunk EXCEPT ![c] = Nowhere("lost")]
    /\ pr' = [pr EXCEPT ![f] = "recv"]
    /\ UNCHANGED <<flag, sched, cur, permits, rd, nread, res, digest, entries, reported>>

(* What give_back returns is ignored: a pool that is full drops the chunk. *)
GiveBack(f) ==
    /\ pr[f] = "give"
    /\ \E c \in Held(f, "worker") :
          chunk' = [chunk EXCEPT ![c] =
                       Nowhere(IF Cardinality(Free) < Cardinality(Chunks) THEN "free" ELSE "lost")]
    /\ pr' = [pr EXCEPT ![f] = "recv"]
    /\ UNCHANGED <<flag, sched, cur, permits, rd, nread, res, digest, entries, reported>>

FinishConsume(f) == /\ pr[f] = "finish"
                    /\ entries' = [entries EXCEPT ![f] = Append(@, digest[f])]
                    /\ pr' = [pr EXCEPT ![f] = "signal"]
                    /\ UNCHANGED <<flag, sched, cur, permits, rd, chunk, nread, res, digest, reported>>

(* add_permit; permits never exceeds MaxPermits, so the sum always fits. *)
AddPermit(f) == /\ pr[f] = "signal"
                /\ permits' = permits + 1
                /\ pr' = [pr EXCEPT ![f] = "release"]
                /\ UNCHANGED <<flag, sched, cur, rd, chunk, nread, res, digest, entries, reported>>

ReleaseWorker(f) == /\ pr[f] = "release"
                    /\ pr' = [pr EXCEPT ![f] = "done"]
                    /\ UNCHANGED <<flag, sched, cur, permits, rd, chunk, nread, res, digest, entries, reported>>

(* Mutant of WorkerPanics: a guard returns the permit on unwinding. *)
PanicAddsPermit(f) ==
    /\ ConsumerPanics
    /\ pr[f] \in {"start", "update", "finish"}
    /\ pr' = [pr EXCEPT ![f] = "panicked"]
    /\ chunk' = [c \in Chunks |-> IF c \in Held(f, "worker") \union Channel(f)
                                  THEN Nowhere("lost") ELSE chunk[c]]
    /\ permits' = permits + 1
    /\ UNCHANGED <<flag, sched, cur, rd, nread, res, digest, entries, reported>>

(* A panic in a callback unwinds process_file: the chunk in hand and those  *)
(* in the channel are dropped, and the permit is not returned.  The pool's  *)
(* panic handler prints it and the thread goes on to the next job.          *)
WorkerPanics(f) == /\ ConsumerPanics
                   /\ pr[f] \in {"start", "update", "finish"}
                   /\ pr' = [pr EXCEPT ![f] = "panicked"]
                   /\ chunk' = [c \in Chunks |->
                                   IF c \in Held(f, "worker") \union Channel(f)
                                   THEN Nowhere("lost") ELSE chunk[c]]
                   /\ UNCHANGED <<flag, sched, cur, permits, rd, nread, res, digest, entries, reported>>

Worker(f) == \/ StartWorker(f) \/ StartFile(f) \/ Recv(f) \/ RecvEnds(f)
             \/ UpdateFile(f) \/ GiveBack(f) \/ FinishConsume(f)
             \/ AddPermit(f) \/ ReleaseWorker(f) \/ WorkerPanics(f)

--------------------------------------------------------------------------------
(* Everything the runner was given has ended; nothing else can happen. *)
Terminated == /\ sched = "done"
              /\ \A f \in Files : /\ rd[f] \in {"idle", "done", "panicked"}
                                  /\ pr[f] \in {"idle", "done", "panicked"}

Next == \/ Scheduler
        \/ SignalStop
        \/ \E f \in Files : Reader(f) \/ Worker(f)
        \/ Terminated /\ UNCHANGED vars

(* Every thread of the program is scheduled.  The owner need not call stop, *)
(* and no callback has to panic.                                            *)
Fairness == /\ WF_vars(Scheduler)
            /\ \A f \in Files : WF_vars(Reader(f)) /\ WF_vars(Worker(f))

Spec == Init /\ [][Next]_vars /\ Fairness
--------------------------------------------------------------------------------
(* The files whose permit the scheduler has taken and no worker returned. *)
Admitted == IF sched = "permit" THEN 1 .. cur - 1 ELSE 1 .. cur
Unsettled == {f \in Admitted : pr[f] \notin {"release", "done"}}

(* No permit is lost or returned twice, whatever order the workers finish   *)
(* in: those available and those of files in flight make up the configured  *)
(* number.  At the end, when the scheduler has taken them all, every file   *)
(* it admitted has been settled.                                            *)
PermitAccounting == permits + Cardinality(Unsettled) = IF sched = "done" THEN 0 ELSE MaxPermits

(* The consumer sees a file's pieces once each and in the order they were   *)
(* read, through a pool and channels shared by all files; the entry it is   *)
(* given at the end covers all that was read, and there is one per file     *)
(* (process_file's loop over recv).                                         *)
DigestFaithful == \A f \in Files :
    /\ \A i \in DOMAIN digest[f] : digest[f][i] = i
    /\ entries[f] # <<>> => entries[f] = << [i \in 1 .. nread[f] |-> i] >>

(* No callback has panicked inside process_file so far. *)
NoWorkerPanicked == \A f \in Files : pr[f] # "panicked"

(* Backpressure: a file never has more chunks queued than its channel holds, *)
(* no chunk is dropped until a callback panics in process_file, and so the   *)
(* pool can recover all of its chunks (runner.rs "don't loose chunk if error *)
(* occurs").                                                                *)
ChunksConserved == /\ \A f \in Files : Cardinality(Channel(f)) <= ChanBound
                   /\ NoWorkerPanicked => \A c \in Chunks : chunk[c].at # "lost"

(* "cant disconnect first" (runner.rs, at the unwrap of the send): a reader  *)
(* finds its receiver gone only if a callback has panicked for that file.   *)
SendSucceeds == \A f \in Files :
    rd[f] = "send" => ReceiverAlive(f) \/ pr[f] = "panicked"

(* When the scheduler thread has ended, which is what wait_for_finish and   *)
(* stop wait for, each path taken from the iterator has its entry.          *)
EntriesComplete == sched = "done" => \A f \in 1 .. cur : Len(entries[f]) = 1

(* No callback that delivers a result runs once the scheduler has ended. *)
QuietAfterDone == [][sched = "done" => UNCHANGED <<digest, entries, permits>>]_vars

--------------------------------------------------------------------------------
(* What each thread may be blocked on. *)
SchedulerBlocked == \/ sched = "done"
                    \/ sched = "permit" /\ permits = 0
                    \/ sched = "drain" /\ permits < MaxPermits

ReaderBlocked(f) == \/ rd[f] \in {"idle", "done", "panicked"}
                    \/ rd[f] = "queued" /\ Cardinality(ActiveReaders) >= read_threads
                    \/ rd[f] = "lend" /\ Free = {}
                    \/ /\ rd[f] = "send"
                       /\ ReceiverAlive(f)
                       /\ Cardinality(Channel(f)) >= ChanBound
                       /\ ~(ChanBound = 0 /\ pr[f] = "recv")

WorkerBlocked(f) == \/ pr[f] \in {"idle", "done", "panicked"}
                    \/ pr[f] = "queued" /\ Cardinality(ActiveWorkers) >= hash_threads
                    \/ pr[f] = "recv" /\ Channel(f) = {} /\ SenderAlive(f)
                                     /\ ~(ChanBound = 0 /\ rd[f] = "send")

Blocked == /\ SchedulerBlocked
           /\ \A f \in Files : ReaderBlocked(f) /\ WorkerBlocked(f)

(* "the runner tasks might starve, and halt": everybody waits, and the      *)
(* scheduler has not ended.                                                 *)
Halted == sched # "done" /\ Blocked

(* The runner never halts in a configuration run() does not warn about, if  *)
(* it has a permit, as long as no callback has panicked in process_file:    *)
(* however few and small the chunks and however long the channels, some     *)
(* thread can step (runner.rs, doc of DriveType::Custom).  file_iter.rs:437 *)
(* says otherwise of DriveType::Ssd, with a large max_buffer_chunks_per_file *)
(* and a small buffer_chunk_size.                                           *)
NeverHalts == ~Warned /\ MaxPermits > 0 /\ NoWorkerPanicked => ~Halted

(* In the configurations it does warn about, there is one way to halt, as   *)
(* long as no callback has panicked in process_file: all worker threads wait *)
(* for readers that have no chunk, because the chunks are with files whose  *)
(* worker is still queued.                                                  *)
HaltsByStarvation == Halted /\ MaxPermits > 0 /\ NoWorkerPanicked =>
    /\ Warned
    /\ Free = {}
    /\ \A c \in Chunks : pr[chunk[c].file] = "queued"
    /\ \A f \in ActiveWorkers : rd[f] \in {"queued", "lend"}

(* A read error always reaches the consumer, and the file still gets its    *)
(* entry.                                                                   *)
ErrorsReported == \A f \in Files :
    (res[f] = "err") ~> (f \in reported /\ entries[f] # <<>>)

--------------------------------------------------------------------------------
(* The runner is a well-behaved user of the two structures it shares: each  *)
(* of its steps is an operation of theirs, or none.                         *)
Pool == INSTANCE LendingPool WITH
    Threads <- Files, Elements <- Chunks, Foreign <- {},
    free <- Free,
    out <- {c \in Chunks : chunk[c].at \in {"reader", "channel", "worker"}},
    waiting <- {}

UsesPool == Pool!Init /\ [][Pool!Next]_(Pool!vars)

(* The scheduler is the semaphore's only taker; the workers return one      *)
(* permit at a time, and the final wait takes them all.                     *)
Semaphore == INSTANCE Semaphore WITH
    Takers <- {"scheduler"}, Counts <- {1, MaxPermits},
    MaxCount <- MaxPermits, Initial <- MaxPermits,
    count <- permits, asked <- [t \in {"scheduler"} |-> MaxPermits + 1]

UsesPermits == Semaphore!Init /\ [][Semaphore!Next]_(Semaphore!vars)

(* All of the threads, channels, buffers and permits together do what a      *)
(* plain list of files to hash promises, and come to an end.                 *)
Hashing == INSTANCE HashFiles WITH
    MaxInFlight <- MaxPermits,
    taken <- cur,
    hashed <- {f \in Files : entries[f] # <<>>},
    over <- sched = "done"

HashesFiles == Hashing!Spec

(* The part of that promise that holds whatever the scheduling, and also     *)
(* when callbacks panic.                                                     *)
HashesFilesSafely == Hashing!Init /\ [][Hashing!Next]_(Hashing!vars)
================================================================================
