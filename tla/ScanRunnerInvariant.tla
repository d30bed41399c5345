-------------------------- MODULE ScanRunnerInvariant --------------------------
(***************************************************************************)
(* The inductive invariant of ScanRunner, as a conjunction of named parts.  *)
(* ScanRunnerProofs proves it; TLC checks it on the instances of the runs.  *)
(***************************************************************************)
EXTENDS ScanRunner

(* Jobs are spawned in the order of the files, the reader's first. *)
ReaderSpawned(f) == f < cur \/ (f = cur /\ sched \notin {"permit", "spawn_reader"})
WorkerSpawned(f) ==
    f < cur \/ (f = cur /\ sched \notin {"permit", "spawn_reader", "spawn_worker"})

JobsSpawned == /\ sched \in {"permit", "spawn_reader", "spawn_worker"} => cur >= 1
               /\ \A f \in Files : /\ (rd[f] # "idle") <=> ReaderSpawned(f)
                                   /\ (pr[f] # "idle") <=> WorkerSpawned(f)

(* Each pool starts its jobs in that order. *)
StartsInOrder == \A f, g \in Files : f < g =>
    /\ rd[f] = "queued" => rd[g] \in {"idle", "queued"}
    /\ pr[f] = "queued" => pr[g] \in {"idle", "queued"}

(* The earlier readers that are still active leave each started reader its   *)
(* thread: they are fewer than the threads of the pool, and stay so, because *)
(* no earlier reader starts later.                                           *)
ActiveBefore(f) == {g \in ActiveReaders : g < f}
ReaderWindow == \A f \in Files :
    rd[f] \notin {"idle", "queued"} => Cardinality(ActiveBefore(f)) < read_threads

(* A chunk has one owner, and its owner is in the part of its job that holds *)
(* one.  A worker that has left its receive loop has an empty channel and no *)
(* sender.                                                                   *)
ReaderHolds == {"read", "send"}
WorkerHolds == {"update", "give"}

OwnersHold == \A f \in Files :
    /\ rd[f] \in ReaderHolds => \E c \in Chunks : Held(f, "reader") = {c}
    /\ rd[f] \notin ReaderHolds => Held(f, "reader") = {}
    /\ pr[f] \in WorkerHolds => \E c \in Chunks : Held(f, "worker") = {c}
    /\ pr[f] \notin WorkerHolds => Held(f, "worker") = {}

OwnersKnown == \A c \in Chunks :
    chunk[c].at \in {"reader", "channel", "worker"} => chunk[c].file \in Files

ChannelUse == \A f \in Files :
    /\ Channel(f) # {} => /\ rd[f] \notin {"idle", "queued", "open"}
                          /\ pr[f] \in {"idle", "queued", "start", "recv", "update", "give"}
    /\ pr[f] \in {"finish", "signal", "release", "done"} => ~SenderAlive(f)

(* Only callbacks that panic unwind a job, and only a worker that unwinds    *)
(* drops chunks or makes a send fail.                                        *)
NothingUnwinds ==
    /\ ~ConsumerPanics => \A f \in Files : rd[f] # "panicked" /\ pr[f] # "panicked"
    /\ NoWorkerPanicked => \A c \in Chunks : chunk[c].at # "lost"

(* A reader that may go on reading has read less than the longest file. *)
ReadsBounded == \A f \in Files :
    /\ rd[f] \in {"idle", "queued", "open", "lend", "read"} => res[f] = "more"
    /\ res[f] = "more" => nread[f] < MaxReads

(* A file's result is delivered once, on the way out of its worker. *)
Delivered == {"signal", "release", "done"}
DeliveredOnce == \A f \in Files :
    /\ pr[f] \in Delivered => Len(entries[f]) = 1
    /\ pr[f] \notin Delivered => entries[f] = <<>>

(* The pieces of a file between its reader and its digest: those received,   *)
(* the next one in the worker's hand, those in the channel with each number  *)
(* once, and the last one still with the reader.                             *)
Received(f) == Len(digest[f]) + (IF pr[f] = "update" THEN 1 ELSE 0)
Sent(f) == nread[f] - (IF rd[f] = "send" THEN 1 ELSE 0)

Queue(f) == Received(f) + 1 .. Sent(f)
QueueInOrder(f) ==
    /\ Received(f) <= Sent(f)
    /\ \A c \in Channel(f) : chunk[c].piece \in Queue(f)
    /\ \A i \in Queue(f) : \E c \in Channel(f) : chunk[c].piece = i
    /\ \A c, d \in Channel(f) : chunk[c].piece = chunk[d].piece => c = d

PiecesOf(f) ==
    /\ \A i \in DOMAIN digest[f] : digest[f][i] = i
    /\ rd[f] = "send" => \A c \in Held(f, "reader") : chunk[c].piece = nread[f]
    /\ pr[f] = "update" => \A c \in Held(f, "worker") : chunk[c].piece = Received(f)
    /\ pr[f] # "panicked" => QueueInOrder(f)
    /\ pr[f] \in Delivered => entries[f] = <<digest[f]>>

PiecesInOrder == \A f \in Files : PiecesOf(f)

(* No channel holds more than its bound. *)
QueuesBounded == \A f \in Files : Cardinality(Channel(f)) <= ChanBound

IInv == /\ TypeOK
        /\ ReadsBounded
        /\ JobsSpawned
        /\ StartsInOrder
        /\ ReaderWindow
        /\ PermitAccounting
        /\ OwnersHold
        /\ OwnersKnown
        /\ ChannelUse
        /\ NothingUnwinds
        /\ DeliveredOnce
        /\ PiecesInOrder
        /\ QueuesBounded
================================================================================
