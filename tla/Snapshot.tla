------------------------------- MODULE Snapshot -------------------------------
(***************************************************************************)
(* snapshot_files (app/commands.rs): the thread that runs a ScanRunner over *)
(* the files of a directory, waits for it, and then takes the collected     *)
(* entries out of the Arc it shares with the consumer.                      *)
(*                                                                          *)
(* The entries live in a Mutex that two values refer to: the local variable *)
(* of snapshot_files and the closure inside the DigestConsumer.  The        *)
(* consumer itself is behind an Arc that the scheduler holds until it       *)
(* returns, and that each reader and worker job holds until its closure     *)
(* ends.  The closure of a worker calls add_permit BEFORE it drops the Arc. *)
(***************************************************************************)
EXTENDS ScanRunner

VARIABLES main,   \* where snapshot_files is
          vals    \* the entries it took out: for each file, those pushed

snapshotVars == <<vars, main, vals>>

(* Some clone of Arc<DigestConsumer> is alive. *)
ConsumerShared == \/ sched # "done"
                  \/ \E f \in Files : \/ rd[f] \notin {"idle", "done", "panicked"}
                                     \/ pr[f] \notin {"idle", "done", "panicked"}

SnapshotInit == /\ Init
                /\ main = "joining"
                /\ vals = <<>>

(* wait_for_finish: the join returns when the scheduler thread has ended. *)
WaitForFinish == /\ main = "joining"
                 /\ sched = "done"
                 /\ main' = "joined"
                 /\ UNCHANGED <<vars, vals>>

(* Arc::into_inner(mutex) is None while a clone of the Arc is alive, and then *)
(* expect panics.                                                            *)
IntoInner == /\ main = "joined"
             /\ \/ /\ ~ConsumerShared
                   /\ main' = "sorting"
                   /\ vals' = entries
                \/ /\ ConsumerShared
                   /\ main' = "panicked"
                   /\ UNCHANGED vals
             /\ UNCHANGED vars

(* The chunk is sorted, and its first and last entries are printed: unwrap   *)
(* panics when there are none.                                               *)
SortAndPrint == /\ main = "sorting"
                /\ main' = IF \A f \in Files : vals[f] = <<>> THEN "panicked" ELSE "printed"
                /\ UNCHANGED <<vars, vals>>

SnapshotDone == /\ Terminated
                /\ main \in {"printed", "panicked"}
                /\ UNCHANGED snapshotVars

(* snapshot_files never stops its runner. *)
Runner == /\ \/ Scheduler
             \/ \E f \in Files : Reader(f) \/ Worker(f)
          /\ UNCHANGED <<main, vals>>

Main == WaitForFinish \/ IntoInner \/ SortAndPrint

SnapshotNext == Runner \/ Main \/ SnapshotDone

SnapshotSpec == /\ SnapshotInit
                /\ [][SnapshotNext]_snapshotVars
                /\ WF_snapshotVars(Main)
                /\ WF_snapshotVars(Runner)

--------------------------------------------------------------------------------
(* The entries taken out are those of all the files of the directory, each   *)
(* once and with everything that was read of it, although they are taken out *)
(* while threads of both pools may still be running.                         *)
SnapshotComplete == main \in {"sorting", "printed"} =>
    \A f \in Files : vals[f] = << [i \in 1 .. nread[f] |-> i] >>

(* "More than one mutex reference" (commands.rs): the message of the expect  *)
(* says that no other reference is left once the runner has been waited for. *)
OnlyReference == main = "joined" => ~ConsumerShared

(* snapshot_files always comes to an end. *)
SnapshotEnds == <>(main \in {"printed", "panicked"})
================================================================================
