---------------------------- MODULE ScanRunnerProofs ----------------------------
(***************************************************************************)
(* Proofs about ScanRunner, for every number of files, chunks, permits and  *)
(* threads, every channel bound, and with or without panicking callbacks:   *)
(* the inductive invariant, and what it gives the runner's users, which are  *)
(* faithful digests, queues and chunks that are kept, the proofs that its     *)
(* steps are those of the abstract specifications Semaphore, LendingPool and  *)
(* HashFiles, and what snapshot_files gets from it.                          *)
(***************************************************************************)
EXTENDS ScanRunnerInvariant, Snapshot, FiniteSetTheorems, TLAPS

(* Both pools have at least one thread, whatever the configuration. *)
LEMMA PoolsNotEmpty == read_threads \in Nat \ {0} /\ hash_threads \in Nat \ {0}
  BY ThreadsAssumption DEF read_threads, hash_threads, AtLeastOne

--------------------------------------------------------------------------------
(* Types, with the facts about jobs and reads that make them inductive. *)
Typed == TypeOK /\ ReadsBounded /\ JobsSpawned

LEMMA TypedInit == Init => Typed
  BY SizesAssumption DEF Init, Typed, TypeOK, ReadsBounded, JobsSpawned, ReaderSpawned,
     WorkerSpawned, Nowhere, Place, Places, Files, SchedulerStates, ReaderStates, WorkerStates

LEMMA TypedScheduler == Typed /\ Scheduler => Typed'
  <1> SUFFICES ASSUME Typed, Scheduler PROVE Typed'
    OBVIOUS
  <1> USE SizesAssumption DEF Typed, TypeOK, ReadsBounded, JobsSpawned, ReaderSpawned,
          WorkerSpawned, Files, jobs, SchedulerStates, ReaderStates, WorkerStates
  <1>1. CASE CheckFlag BY <1>1 DEF CheckFlag
  <1>2. CASE NextFile
    <2>1. CASE cur < NFiles /\ cur' = cur + 1 /\ sched' = "permit"
      BY <1>2, <2>1 DEF NextFile
    <2>2. CASE cur' = cur /\ sched' = "drain"
      BY <1>2, <2>2 DEF NextFile
    <2> QED BY <1>2, <2>1, <2>2 DEF NextFile
  <1>3. CASE WaitForPermit BY <1>3 DEF WaitForPermit
  <1>4. CASE SpawnReader
    <2>1. cur \in Files /\ rd[cur] = "idle" BY <1>4 DEF SpawnReader
    <2> QED BY <1>4, <2>1 DEF SpawnReader
  <1>5. CASE SpawnWorker BY <1>5 DEF SpawnWorker
  <1>6. CASE Drain BY <1>6 DEF Drain
  <1> QED BY <1>1, <1>2, <1>3, <1>4, <1>5, <1>6 DEF Scheduler

LEMMA TypedReader == ASSUME Typed, NEW f \in Files, Reader(f) PROVE Typed'
  <1> USE SizesAssumption DEF Typed, TypeOK, ReadsBounded, JobsSpawned, ReaderSpawned,
          WorkerSpawned, Files, SchedulerStates, ReaderStates, WorkerStates
  <1>1. CASE StartReader(f) BY <1>1 DEF StartReader
  <1>2. CASE Open(f) BY ZenonT(60), <1>2 DEF Open
  <1>3. CASE Lend(f)
    <2>1. chunk' \in [Chunks -> Places]
      BY <1>3 DEF Lend, Free, Held, Places, Place, Nowhere
    <2> QED BY <1>3, <2>1 DEF Lend
  <1>4. CASE Read(f)
    <2>1. nread[f] + 1 \in 0 .. MaxReads BY SMTT(30), <1>4 DEF Read
    <2>2. chunk' \in [Chunks -> Places]
      BY <1>4, <2>1 DEF Read, Held, Places, Place
    <2>3. PICK r \in {"more", "eof", "err"} : /\ r = "more" => nread[f] + 1 < MaxReads
                                              /\ res' = [res EXCEPT ![f] = r]
      BY <1>4 DEF Read
    <2>4. /\ rd' = [rd EXCEPT ![f] = "send"] /\ rd[f] = "read"
          /\ nread' = [nread EXCEPT ![f] = nread[f] + 1]
          /\ UNCHANGED <<flag, sched, cur, permits, pr, digest, entries, reported>>
      BY <1>4 DEF Read
    <2>5. TypeOK' BY <2>1, <2>2, <2>3, <2>4
    <2>6. ReadsBounded' BY <2>1, <2>3, <2>4
    <2>7. JobsSpawned' BY <2>4
    <2> QED BY <2>5, <2>6, <2>7
  <1>5. CASE Send(f)
    <2>1. chunk' \in [Chunks -> Places]
      BY <1>5 DEF Send, Free, Held, Places, Place, Nowhere
    <2> QED BY <1>5, <2>1 DEF Send, AfterSend
  <1>6. CASE Rendezvous(f)
    <2>1. chunk' \in [Chunks -> Places]
      BY <1>6 DEF Rendezvous, Free, Held, Places, Place, Nowhere
    <2> QED BY <1>6, <2>1 DEF Rendezvous, AfterSend
  <1>7. CASE SendFails(f)
    <2>1. chunk' \in [Chunks -> Places]
      BY <1>7 DEF SendFails, Free, Held, Places, Place, Nowhere
    <2> QED BY <1>7, <2>1 DEF SendFails
  <1>8. CASE ReadFileReturns(f) BY <1>8 DEF ReadFileReturns
  <1>9. CASE OnError(f) BY <1>9 DEF OnError
  <1>10. CASE ReleaseReader(f) BY <1>10 DEF ReleaseReader
  <1>11. CASE ReaderPanics(f) BY <1>11 DEF ReaderPanics
  <1> QED BY <1>1, <1>2, <1>3, <1>4, <1>5, <1>6, <1>7, <1>8, <1>9, <1>10, <1>11 DEF Reader

LEMMA TypedWorker == ASSUME Typed, NEW f \in Files, Worker(f) PROVE Typed'
  <1> USE SizesAssumption DEF Typed, TypeOK, ReadsBounded, JobsSpawned, ReaderSpawned,
          WorkerSpawned, Files, SchedulerStates, ReaderStates, WorkerStates
  <1>1. CASE StartWorker(f) BY <1>1 DEF StartWorker
  <1>2. CASE StartFile(f) BY <1>2 DEF StartFile
  <1>3. CASE Recv(f)
    <2>1. chunk' \in [Chunks -> Places]
      BY <1>3 DEF Recv, Channel, Held, Places, Place, Nowhere
    <2> QED BY <1>3, <2>1 DEF Recv
  <1>4. CASE RecvEnds(f) BY <1>4 DEF RecvEnds
  <1>5. CASE UpdateFile(f)
    <2>1. digest' \in [Files -> Seq(0 .. MaxReads)]
      BY <1>5 DEF UpdateFile, Held, Places
    <2> QED BY <1>5, <2>1 DEF UpdateFile
  <1>6. CASE GiveBack(f)
    <2>1. chunk' \in [Chunks -> Places]
      BY <1>6 DEF GiveBack, Channel, Held, Places, Place, Nowhere
    <2> QED BY <1>6, <2>1 DEF GiveBack
  <1>7. CASE FinishConsume(f)
    <2>1. entries' \in [Files -> Seq(Seq(0 .. MaxReads))]
      BY <1>7 DEF FinishConsume
    <2> QED BY <1>7, <2>1 DEF FinishConsume
  <1>8. CASE AddPermit(f) BY <1>8 DEF AddPermit
  <1>9. CASE ReleaseWorker(f) BY <1>9 DEF ReleaseWorker
  <1>10. CASE WorkerPanics(f)
    <2>1. chunk' \in [Chunks -> Places]
      BY <1>10 DEF WorkerPanics, Channel, Held, Places, Place, Nowhere
    <2> QED BY <1>10, <2>1 DEF WorkerPanics
  <1> QED BY <1>1, <1>2, <1>3, <1>4, <1>5, <1>6, <1>7, <1>8, <1>9, <1>10 DEF Worker

LEMMA TypedStep == Typed /\ [Next]_vars => Typed'
  <1> SUFFICES ASSUME Typed, [Next]_vars PROVE Typed'
    OBVIOUS
  <1>1. CASE Scheduler BY <1>1, TypedScheduler
  <1>2. CASE SignalStop
    BY <1>2 DEF SignalStop, Typed, TypeOK, ReadsBounded, JobsSpawned, ReaderSpawned, WorkerSpawned, jobs
  <1>3. ASSUME NEW f \in Files, Reader(f) PROVE Typed'
    BY <1>3, TypedReader
  <1>4. ASSUME NEW f \in Files, Worker(f) PROVE Typed'
    BY <1>4, TypedWorker
  <1>5. CASE UNCHANGED vars
    BY <1>5 DEF vars, Typed, TypeOK, ReadsBounded, JobsSpawned, ReaderSpawned, WorkerSpawned, jobs
  <1> QED BY <1>1, <1>2, <1>3, <1>4, <1>5 DEF Next

(* Every value a variable takes has its type. *)
THEOREM TypeCorrect == Spec => []TypeOK
  <1>1. Typed => TypeOK BY DEF Typed
  <1> QED BY TypedInit, TypedStep, <1>1, PTL DEF Spec

--------------------------------------------------------------------------------
(* Between its start and its end a job only moves among the states of a job *)
(* that has started.                                                        *)
Unstarted == {"idle", "queued"}
Ended == {"done", "panicked"}

LEMMA ReaderMoves ==
  ASSUME TypeOK, NEW f \in Files, Reader(f), ~StartReader(f)
  PROVE  /\ rd[f] \notin Unstarted \union Ended
         /\ \E x \in ReaderStates \ Unstarted : rd' = [rd EXCEPT ![f] = x]
         /\ pr' = pr \/ (pr[f] = "recv" /\ pr' = [pr EXCEPT ![f] = "update"])
         /\ UNCHANGED <<sched, cur, permits, entries>>
  <1> USE DEF Unstarted, Ended, ReaderStates
  <1>1. CASE Open(f) BY <1>1 DEF Open
  <1>2. CASE Lend(f) BY <1>2 DEF Lend
  <1>3. CASE Read(f) BY <1>3 DEF Read
  <1>4. CASE Send(f) BY <1>4 DEF Send, AfterSend
  <1>5. CASE Rendezvous(f) BY <1>5 DEF Rendezvous, AfterSend
  <1>6. CASE SendFails(f) BY <1>6 DEF SendFails
  <1>7. CASE ReadFileReturns(f) BY <1>7 DEF ReadFileReturns
  <1>8. CASE OnError(f) BY <1>8 DEF OnError
  <1>9. CASE ReleaseReader(f) BY <1>9 DEF ReleaseReader
  <1>10. CASE ReaderPanics(f) BY <1>10 DEF ReaderPanics
  <1> QED BY <1>1, <1>2, <1>3, <1>4, <1>5, <1>6, <1>7, <1>8, <1>9, <1>10 DEF Reader

LEMMA WorkerMoves ==
  ASSUME TypeOK, NEW f \in Files, Worker(f), ~StartWorker(f)
  PROVE  /\ pr[f] \notin Unstarted \union Ended
         /\ \E x \in WorkerStates \ Unstarted : pr' = [pr EXCEPT ![f] = x]
         /\ UNCHANGED <<sched, cur, rd>>
  <1> USE DEF Unstarted, Ended, WorkerStates
  <1>1. CASE StartFile(f) BY <1>1 DEF StartFile
  <1>2. CASE Recv(f) BY <1>2 DEF Recv
  <1>3. CASE RecvEnds(f) BY <1>3 DEF RecvEnds
  <1>4. CASE UpdateFile(f) BY <1>4 DEF UpdateFile
  <1>5. CASE GiveBack(f) BY <1>5 DEF GiveBack
  <1>6. CASE FinishConsume(f) BY <1>6 DEF FinishConsume
  <1>7. CASE AddPermit(f) BY <1>7 DEF AddPermit
  <1>8. CASE ReleaseWorker(f) BY <1>8 DEF ReleaseWorker
  <1>9. CASE WorkerPanics(f) BY <1>9 DEF WorkerPanics
  <1> QED BY <1>1, <1>2, <1>3, <1>4, <1>5, <1>6, <1>7, <1>8, <1>9 DEF Worker

LEMMA StartsInOrderStep == Typed /\ StartsInOrder /\ [Next]_vars => StartsInOrder'
  <1> SUFFICES ASSUME Typed, StartsInOrder, [Next]_vars PROVE StartsInOrder'
    OBVIOUS
  <1> USE DEF Typed, TypeOK, Files, StartsInOrder
  <1>1. CASE Scheduler
    <2>1. CASE SpawnReader
      BY <1>1, <2>1, SizesAssumption DEF SpawnReader, JobsSpawned, ReaderSpawned
    <2>2. CASE SpawnWorker
      <3>1. cur \in Files /\ \A g \in Files : g > cur => pr[g] = "idle"
        BY <2>2, SizesAssumption DEF SpawnWorker, JobsSpawned, WorkerSpawned
      <3>2. rd' = rd /\ pr' = [pr EXCEPT ![cur] = "queued"]
        BY <2>2 DEF SpawnWorker
      <3> QED BY <3>1, <3>2
    <2>3. CASE UNCHANGED jobs BY <2>3 DEF jobs
    <2> QED BY <1>1, <2>1, <2>2, <2>3
         DEF Scheduler, CheckFlag, NextFile, WaitForPermit, Drain
  <1>2. ASSUME NEW f \in Files, Reader(f) PROVE StartsInOrder'
    <2>1. CASE StartReader(f) BY <2>1 DEF StartReader
    <2>2. CASE ~StartReader(f)
      <3>1. \A g \in Files :
              /\ rd'[g] = rd[g] \/ (rd[g] \notin Unstarted /\ rd'[g] \notin Unstarted)
              /\ pr'[g] = pr[g] \/ (pr[g] \notin Unstarted /\ pr'[g] \notin Unstarted)
        <4>1. /\ rd[f] \notin Unstarted
              /\ \E x \in ReaderStates \ Unstarted : rd' = [rd EXCEPT ![f] = x]
          BY <1>2, <2>2, ReaderMoves
        <4>2. \/ pr' = pr
              \/ pr[f] = "recv" /\ pr' = [pr EXCEPT ![f] = "update"]
          BY <1>2, <2>2, ReaderMoves
        <4> QED BY <4>1, <4>2 DEF Unstarted
      <3> QED BY <3>1 DEF Unstarted
    <2> QED BY <2>1, <2>2
  <1>3. ASSUME NEW f \in Files, Worker(f) PROVE StartsInOrder'
    <2>1. CASE StartWorker(f) BY <2>1 DEF StartWorker
    <2>2. CASE ~StartWorker(f) BY <1>3, <2>2, WorkerMoves DEF Unstarted
    <2> QED BY <2>1, <2>2
  <1>4. CASE UNCHANGED jobs BY <1>4 DEF jobs
  <1> QED BY <1>1, <1>2, <1>3, <1>4 DEF Next, vars, SignalStop

LEMMA FilesFinite == IsFiniteSet(Files)
  BY SizesAssumption, FS_Interval DEF Files

LEMMA SmallerSet ==
  ASSUME NEW S, IsFiniteSet(S), NEW T, T \subseteq S, NEW n \in Nat, Cardinality(S) < n
  PROVE  Cardinality(T) < n
  <1>1. IsFiniteSet(T) /\ Cardinality(T) <= Cardinality(S) BY FS_Subset
  <1>2. Cardinality(T) \in Nat /\ Cardinality(S) \in Nat BY <1>1, FS_CardinalityType
  <1> QED BY <1>1, <1>2

LEMMA ReaderWindowStep ==
  Typed /\ StartsInOrder /\ ReaderWindow /\ [Next]_vars => ReaderWindow'
  <1> SUFFICES ASSUME Typed, StartsInOrder, ReaderWindow, [Next]_vars,
                      NEW g \in Files, rd'[g] \notin Unstarted
               PROVE  Cardinality(ActiveBefore(g)') < read_threads
    BY DEF ReaderWindow, Unstarted
  <1> USE DEF Typed, TypeOK
  <1>1. IsFiniteSet(ActiveBefore(g)) /\ IsFiniteSet(ActiveReaders)
    BY FilesFinite, FS_Subset DEF ActiveBefore, ActiveReaders
  <1>2. ASSUME rd[g] \notin Unstarted, ActiveBefore(g)' \subseteq ActiveBefore(g)
        PROVE  Cardinality(ActiveBefore(g)') < read_threads
    <2>1. Cardinality(ActiveBefore(g)) < read_threads
      BY <1>2 DEF ReaderWindow, Unstarted
    <2> QED BY <2>1, <1>1, <1>2, SmallerSet, PoolsNotEmpty
  <1>3. CASE Scheduler
    <2>1. rd'[g] = rd[g] /\ ActiveReaders' \subseteq ActiveReaders
      BY <1>3 DEF Scheduler, CheckFlag, NextFile, WaitForPermit, SpawnReader,
         SpawnWorker, Drain, jobs, ActiveReaders, Unstarted
    <2> QED BY <2>1, <1>2 DEF ActiveBefore
  <1>4. ASSUME NEW f \in Files, Reader(f)
        PROVE  Cardinality(ActiveBefore(g)') < read_threads
    <2>1. CASE StartReader(f)
      <3>1. CASE f = g
        <4>1. ActiveBefore(g)' \subseteq ActiveReaders
          BY <2>1, <3>1 DEF StartReader, ActiveBefore, ActiveReaders, Files
        <4>2. Cardinality(ActiveReaders) < read_threads
          BY <2>1 DEF StartReader
        <4> QED BY <4>1, <4>2, <1>1, SmallerSet, PoolsNotEmpty
      <3>2. CASE f # g
        <4>1. rd[g] \notin Unstarted BY <2>1, <3>2 DEF StartReader
        <4>2. ~(f < g)
          BY <2>1, <4>1 DEF StartReader, StartsInOrder, Unstarted
        <4>3. ActiveBefore(g)' \subseteq ActiveBefore(g)
          BY <2>1, <4>2 DEF StartReader, ActiveBefore, ActiveReaders
        <4> QED BY <4>1, <4>3, <1>2
      <3> QED BY <3>1, <3>2
    <2>2. CASE ~StartReader(f)
      <3>1. rd[g] \notin Unstarted /\ ActiveReaders' \subseteq ActiveReaders
        BY <1>4, <2>2, ReaderMoves DEF Unstarted, Ended, ActiveReaders
      <3> QED BY <3>1, <1>2 DEF ActiveBefore
    <2> QED BY <2>1, <2>2
  <1>5. CASE UNCHANGED rd BY <1>5, <1>2 DEF ActiveBefore, ActiveReaders
  <1>6. ASSUME NEW f \in Files, Worker(f) PROVE UNCHANGED rd
    BY <1>6, WorkerMoves DEF StartWorker
  <1> QED BY <1>3, <1>4, <1>5, <1>6 DEF Next, vars, SignalStop, jobs

(* Each step but three leaves the unsettled files and the permits alone. *)
(* A worker settles its file, by add_permit, and never otherwise. *)
Settled == {"release", "done"}

LEMMA WorkerSettles ==
  ASSUME TypeOK, NEW f \in Files, Worker(f), ~AddPermit(f)
  PROVE  /\ UNCHANGED <<sched, cur, permits>>
         /\ \A g \in Files : pr'[g] \in Settled <=> pr[g] \in Settled
  <1> USE DEF TypeOK, Settled, WorkerStates
  <1>1. CASE StartWorker(f) BY <1>1 DEF StartWorker
  <1>2. CASE StartFile(f) BY <1>2 DEF StartFile
  <1>3. CASE Recv(f) BY <1>3 DEF Recv
  <1>4. CASE RecvEnds(f) BY <1>4 DEF RecvEnds
  <1>5. CASE UpdateFile(f) BY <1>5 DEF UpdateFile
  <1>6. CASE GiveBack(f) BY <1>6 DEF GiveBack
  <1>7. CASE FinishConsume(f) BY <1>7 DEF FinishConsume
  <1>8. CASE ReleaseWorker(f) BY <1>8 DEF ReleaseWorker
  <1>9. CASE WorkerPanics(f) BY <1>9 DEF WorkerPanics
  <1> QED BY <1>1, <1>2, <1>3, <1>4, <1>5, <1>6, <1>7, <1>8, <1>9 DEF Worker

LEMMA SameUnsettled ==
  ASSUME TypeOK, UNCHANGED <<sched, cur>>,
         \A g \in Files : pr'[g] \in Settled <=> pr[g] \in Settled
  PROVE  Unsettled' = Unsettled
  <1>1. Admitted' = Admitted /\ Admitted \subseteq Files
    BY SizesAssumption DEF TypeOK, Admitted, Files
  <1> QED BY <1>1 DEF Unsettled, Settled

LEMMA PermitStep == Typed /\ PermitAccounting /\ [Next]_vars => PermitAccounting'
  <1> SUFFICES ASSUME Typed, PermitAccounting, [Next]_vars PROVE PermitAccounting'
    OBVIOUS
  <1> USE SizesAssumption DEF Typed, TypeOK
  <1>1. IsFiniteSet(Unsettled) /\ Cardinality(Unsettled) \in Nat
    <2>1. Unsettled \subseteq Files BY DEF Unsettled, Admitted, Files
    <2> QED BY <2>1, FilesFinite, FS_Subset, FS_CardinalityType
  <1>2. CASE UNCHANGED <<permits, Unsettled>> /\ (sched = "done" <=> sched' = "done")
    BY <1>2 DEF PermitAccounting
  <1>3. CASE Scheduler
    <2>1. CASE CheckFlag
      BY <1>2, <2>1 DEF CheckFlag, Unsettled, Admitted, jobs
    <2>2. CASE NextFile
      <3>1. Unsettled' = Unsettled
        BY <2>2 DEF NextFile, Unsettled, Admitted, jobs
      <3> QED BY <1>2, <2>2, <3>1 DEF NextFile
    <2>3. CASE WaitForPermit
      <3>1. cur \in Files /\ pr[cur] = "idle"
        BY <2>3 DEF WaitForPermit, JobsSpawned, WorkerSpawned, Files
      <3>2. Unsettled' = Unsettled \union {cur} /\ cur \notin Unsettled
        BY <2>3, <3>1 DEF WaitForPermit, Unsettled, Admitted, Files, jobs
      <3>3. Cardinality(Unsettled') = Cardinality(Unsettled) + 1
        BY <1>1, <3>2, FS_AddElement
      <3> QED BY <1>1, <2>3, <3>3 DEF WaitForPermit, PermitAccounting
    <2>4. CASE SpawnReader
      BY <1>2, <2>4 DEF SpawnReader, Unsettled, Admitted
    <2>5. CASE SpawnWorker
      <3>1. cur \in Files /\ pr[cur] = "idle"
        BY <2>5 DEF SpawnWorker, JobsSpawned, WorkerSpawned, Files
      <3>2. Unsettled' = Unsettled
        BY <2>5, <3>1 DEF SpawnWorker, Unsettled, Admitted, Files
      <3> QED BY <1>2, <2>5, <3>2 DEF SpawnWorker
    <2>6. CASE Drain
      <3>1. Unsettled' = Unsettled
        BY <2>6 DEF Drain, Unsettled, Admitted, jobs
      <3> QED BY <1>1, <2>6, <3>1 DEF Drain, PermitAccounting
    <2> QED BY <1>3, <2>1, <2>2, <2>3, <2>4, <2>5, <2>6 DEF Scheduler
  <1>4. ASSUME NEW f \in Files, Reader(f) PROVE PermitAccounting'
    <2>1. CASE StartReader(f)
      BY <1>2, <2>1 DEF StartReader, Unsettled, Admitted
    <2>2. CASE ~StartReader(f)
      <3>1. /\ pr' = pr \/ (pr[f] = "recv" /\ pr' = [pr EXCEPT ![f] = "update"])
            /\ UNCHANGED <<sched, cur, permits>>
        BY <1>4, <2>2, ReaderMoves
      <3>2. \A g \in Files : pr'[g] \in Settled <=> pr[g] \in Settled
        BY <3>1 DEF Settled
      <3> QED BY <1>2, <3>1, <3>2, SameUnsettled
    <2> QED BY <2>1, <2>2
  <1>5. ASSUME NEW f \in Files, Worker(f) PROVE PermitAccounting'
    <2>1. CASE AddPermit(f)
      <3>1. f \in Unsettled
        BY <2>1 DEF AddPermit, Unsettled, Admitted, JobsSpawned, WorkerSpawned, Files
      <3>2. Unsettled' = Unsettled \ {f}
        BY <2>1, <3>1 DEF AddPermit, Unsettled, Admitted, Files
      <3>3. Cardinality(Unsettled') = Cardinality(Unsettled) - 1
        BY <1>1, <3>1, <3>2, FS_RemoveElement
      <3>4. Cardinality(Unsettled) # 0
        BY <1>1, <3>1, FS_EmptySet
      <3> QED BY <1>1, <2>1, <3>3, <3>4 DEF AddPermit, PermitAccounting
    <2>2. CASE ~AddPermit(f)
      <3>1. /\ UNCHANGED <<sched, cur, permits>>
            /\ \A g \in Files : pr'[g] \in Settled <=> pr[g] \in Settled
        BY <1>5, <2>2, WorkerSettles
      <3> QED BY <1>2, <3>1, SameUnsettled
    <2> QED BY <2>1, <2>2
  <1>6. CASE UNCHANGED <<sched, cur, permits, pr>>
    BY <1>2, <1>6 DEF Unsettled, Admitted
  <1> QED BY <1>3, <1>4, <1>5, <1>6 DEF Next, vars, jobs, SignalStop

--------------------------------------------------------------------------------
(* Chunks and their owners. *)
Owned == Typed /\ OwnersHold /\ OwnersKnown /\ ChannelUse

(* A step that moves no chunk, and leaves every job inside or outside the   *)
(* part in which it holds one, keeps the owners.                            *)
LEMMA OwnersFrame ==
  ASSUME OwnersHold, OwnersKnown, UNCHANGED chunk,
         \A g \in Files : /\ rd'[g] \in ReaderHolds <=> rd[g] \in ReaderHolds
                          /\ pr'[g] \in WorkerHolds <=> pr[g] \in WorkerHolds
  PROVE  OwnersHold' /\ OwnersKnown'
  BY DEF OwnersHold, OwnersKnown, Held

LEMMA OwnersReader ==
  ASSUME Owned, NEW f \in Files, Reader(f)
  PROVE  OwnersHold' /\ OwnersKnown'
  <1> USE DEF Owned, Typed, TypeOK
  <1>1. CASE \/ StartReader(f) \/ Open(f) \/ ReadFileReturns(f)
             \/ OnError(f) \/ ReleaseReader(f) \/ ReaderPanics(f)
    <2>1. UNCHANGED <<chunk, pr>>
      BY <1>1 DEF StartReader, Open, ReadFileReturns, OnError, ReleaseReader, ReaderPanics
    <2>2. \A g \in Files : rd'[g] \in ReaderHolds <=> rd[g] \in ReaderHolds
      BY <1>1 DEF StartReader, Open, ReadFileReturns, OnError, ReleaseReader,
         ReaderPanics, ReaderHolds
    <2> QED BY <2>1, <2>2, OwnersFrame
  <1>2. CASE Lend(f)
    <2>1. PICK c \in Free : chunk' = [chunk EXCEPT ![c] = Place("reader", f, 0)]
      BY <1>2 DEF Lend
    <2>2. rd' = [rd EXCEPT ![f] = "read"] /\ rd[f] = "lend" /\ pr' = pr
      BY <1>2 DEF Lend
    <2>3. Held(f, "reader") = {} /\ c \in Chunks
      BY <2>1, <2>2 DEF OwnersHold, ReaderHolds, Free
    <2>4. Held(f, "reader")' = {c}
      BY <2>1, <2>3 DEF Held, Place, Places
    <2>5. \A g \in Files : /\ g # f => Held(g, "reader")' = Held(g, "reader")
                           /\ Held(g, "worker")' = Held(g, "worker")
      BY <2>1 DEF Held, Free, Place, Places
    <2>6. \E d \in Chunks : Held(f, "reader")' = {d} BY <2>3, <2>4
    <2>7. OwnersHold'
      BY <2>2, <2>5, <2>6 DEF OwnersHold, ReaderHolds, WorkerHolds
    <2>8. OwnersKnown' BY <2>1 DEF OwnersKnown, Place, Free
    <2> QED BY <2>7, <2>8
  <1>3. CASE Read(f)
    <2>1. PICK c \in Held(f, "reader") :
             chunk' = [chunk EXCEPT ![c] = Place("reader", f, nread[f] + 1)]
      BY <1>3 DEF Read
    <2>2. rd' = [rd EXCEPT ![f] = "send"] /\ rd[f] = "read" /\ pr' = pr
      BY <1>3 DEF Read
    <2>3. \A g \in Files : /\ Held(g, "reader")' = Held(g, "reader")
                           /\ Held(g, "worker")' = Held(g, "worker")
      BY <2>1 DEF Held, Place, Places
    <2>4. OwnersHold'
      BY ZenonT(60), <2>2, <2>3 DEF OwnersHold, ReaderHolds
    <2>5. OwnersKnown' BY <2>1 DEF OwnersKnown, Place, Held
    <2> QED BY <2>4, <2>5
  <1>4. CASE Send(f)
    <2>1. PICK c \in Held(f, "reader") :
             chunk' = [chunk EXCEPT ![c] = Place("channel", f, chunk[c].piece)]
      BY <1>4 DEF Send
    <2>2. /\ rd[f] = "send" /\ pr' = pr
          /\ rd' = [rd EXCEPT ![f] = AfterSend(f)]
      BY <1>4 DEF Send
    <2>3. Held(f, "reader") = {c}
      BY <2>1, <2>2 DEF OwnersHold, ReaderHolds
    <2>4. Held(f, "reader")' = {}
      BY <2>1, <2>3 DEF Held, Place, Places
    <2>5. \A g \in Files : /\ g # f => Held(g, "reader")' = Held(g, "reader")
                           /\ Held(g, "worker")' = Held(g, "worker")
      BY <2>1 DEF Held, Place, Places
    <2>6. OwnersHold'
      BY ZenonT(60), <2>2, <2>4, <2>5 DEF OwnersHold, ReaderHolds, AfterSend
    <2>7. OwnersKnown' BY <2>1 DEF OwnersKnown, Place, Held
    <2> QED BY <2>6, <2>7
  <1>5. CASE Rendezvous(f)
    <2>1. PICK c \in Held(f, "reader") :
             chunk' = [chunk EXCEPT ![c] = Place("worker", f, chunk[c].piece)]
      BY <1>5 DEF Rendezvous
    <2>2. /\ rd[f] = "send" /\ pr[f] = "recv"
          /\ rd' = [rd EXCEPT ![f] = AfterSend(f)]
          /\ pr' = [pr EXCEPT ![f] = "update"]
      BY <1>5 DEF Rendezvous
    <2>3. Held(f, "reader") = {c} /\ Held(f, "worker") = {}
      BY <2>1, <2>2 DEF OwnersHold, ReaderHolds, WorkerHolds
    <2>4. Held(f, "reader")' = {} /\ Held(f, "worker")' = {c}
      BY <2>1, <2>3 DEF Held, Place, Places
    <2>5. \A g \in Files : g # f => /\ Held(g, "reader")' = Held(g, "reader")
                                    /\ Held(g, "worker")' = Held(g, "worker")
      BY <2>1 DEF Held, Place, Places
    <2>6. c \in Chunks BY <2>1 DEF Held
    <2>7. OwnersHold'
      BY <2>2, <2>4, <2>5, <2>6 DEF OwnersHold, ReaderHolds, WorkerHolds, AfterSend
    <2>8. OwnersKnown' BY <2>1 DEF OwnersKnown, Place, Held
    <2> QED BY <2>7, <2>8
  <1>6. CASE SendFails(f)
    <2>1. /\ rd' = [rd EXCEPT ![f] = "panicked"] /\ pr' = pr
          /\ chunk' = [c \in Chunks |-> IF c \in Held(f, "reader") THEN Nowhere("lost")
                                         ELSE chunk[c]]
      BY <1>6 DEF SendFails
    <2>2. Held(f, "reader")' = {}
      BY <2>1 DEF Held, Nowhere, Place
    <2>3. \A g \in Files : /\ g # f => Held(g, "reader")' = Held(g, "reader")
                           /\ Held(g, "worker")' = Held(g, "worker")
      BY <2>1 DEF Held, Nowhere, Place
    <2>4. OwnersHold' BY ZenonT(60), <2>1, <2>2, <2>3 DEF OwnersHold, ReaderHolds
    <2>5. OwnersKnown' BY <2>1 DEF OwnersKnown, Nowhere, Place
    <2> QED BY <2>4, <2>5
  <1> QED BY <1>1, <1>2, <1>3, <1>4, <1>5, <1>6 DEF Reader

LEMMA OwnersWorker ==
  ASSUME Owned, NEW f \in Files, Worker(f)
  PROVE  OwnersHold' /\ OwnersKnown'
  <1> USE DEF Owned, Typed, TypeOK
  <1>1. CASE \/ StartWorker(f) \/ StartFile(f) \/ RecvEnds(f) \/ UpdateFile(f)
             \/ FinishConsume(f) \/ AddPermit(f) \/ ReleaseWorker(f)
    <2>1. UNCHANGED <<chunk, rd>>
      BY <1>1 DEF StartWorker, StartFile, RecvEnds, UpdateFile, FinishConsume,
         AddPermit, ReleaseWorker
    <2>2. \A g \in Files : pr'[g] \in WorkerHolds <=> pr[g] \in WorkerHolds
      BY <1>1 DEF StartWorker, StartFile, RecvEnds, UpdateFile, FinishConsume,
         AddPermit, ReleaseWorker, WorkerHolds
    <2> QED BY <2>1, <2>2, OwnersFrame
  <1>2. CASE Recv(f)
    <2>1. PICK c \in Channel(f) :
             chunk' = [chunk EXCEPT ![c] = Place("worker", f, chunk[c].piece)]
      BY <1>2 DEF Recv
    <2>2. /\ pr[f] = "recv" /\ rd' = rd
          /\ pr' = [pr EXCEPT ![f] = "update"]
      BY <1>2 DEF Recv
    <2>3. Held(f, "worker") = {} /\ c \in Chunks
      BY <2>2 DEF OwnersHold, WorkerHolds, Channel, Held
    <2>4. Held(f, "worker")' = {c}
      BY <2>1, <2>3 DEF Held, Place, Places
    <2>5. \A g \in Files : /\ g # f => Held(g, "worker")' = Held(g, "worker")
                           /\ Held(g, "reader")' = Held(g, "reader")
      BY <2>1 DEF Held, Channel, Place, Places
    <2>6. OwnersHold'
      BY ZenonT(60), <2>2, <2>3, <2>4, <2>5 DEF OwnersHold, WorkerHolds
    <2>7. OwnersKnown' BY <2>1 DEF OwnersKnown, Place
    <2> QED BY <2>6, <2>7
  <1>3. CASE GiveBack(f)
    <2>1. PICK c \in Held(f, "worker") : \E at \in {"free", "lost"} :
             chunk' = [chunk EXCEPT ![c] = Nowhere(at)]
      BY <1>3 DEF GiveBack
    <2>2. /\ pr[f] = "give" /\ rd' = rd
          /\ pr' = [pr EXCEPT ![f] = "recv"]
      BY <1>3 DEF GiveBack
    <2>3. Held(f, "worker") = {c}
      BY <2>1, <2>2 DEF OwnersHold, WorkerHolds
    <2>4. Held(f, "worker")' = {}
      BY <2>1, <2>3 DEF Held, Nowhere, Place, Places
    <2>5. \A g \in Files : /\ g # f => Held(g, "worker")' = Held(g, "worker")
                           /\ Held(g, "reader")' = Held(g, "reader")
      BY <2>1 DEF Held, Nowhere, Place, Places
    <2>6. OwnersHold'
      BY ZenonT(60), <2>2, <2>4, <2>5 DEF OwnersHold, WorkerHolds
    <2>7. OwnersKnown' BY <2>1 DEF OwnersKnown, Nowhere, Place
    <2> QED BY <2>6, <2>7
  <1>4. CASE WorkerPanics(f)
    <2>1. /\ pr' = [pr EXCEPT ![f] = "panicked"] /\ rd' = rd
          /\ chunk' = [c \in Chunks |-> IF c \in Held(f, "worker") \union Channel(f)
                                         THEN Nowhere("lost") ELSE chunk[c]]
      BY <1>4 DEF WorkerPanics
    <2>2. Held(f, "worker")' = {}
      BY <2>1 DEF Held, Nowhere, Place
    <2>3. \A g \in Files : /\ g # f => Held(g, "worker")' = Held(g, "worker")
                           /\ Held(g, "reader")' = Held(g, "reader")
      BY <2>1 DEF Held, Channel, Nowhere, Place
    <2>4. OwnersHold' BY ZenonT(60), <2>1, <2>2, <2>3 DEF OwnersHold, WorkerHolds
    <2>5. OwnersKnown' BY <2>1 DEF OwnersKnown, Nowhere, Place
    <2> QED BY <2>4, <2>5
  <1> QED BY <1>1, <1>2, <1>3, <1>4 DEF Worker

LEMMA OwnersStep ==
  Owned /\ [Next]_vars => OwnersHold' /\ OwnersKnown'
  <1> SUFFICES ASSUME Owned, [Next]_vars PROVE OwnersHold' /\ OwnersKnown'
    OBVIOUS
  <1> USE DEF Owned, Typed, TypeOK
  <1>1. CASE Scheduler
    <2>1. /\ UNCHANGED chunk
          /\ \A g \in Files : /\ rd'[g] \in ReaderHolds <=> rd[g] \in ReaderHolds
                              /\ pr'[g] \in WorkerHolds <=> pr[g] \in WorkerHolds
      BY <1>1 DEF Scheduler, CheckFlag, NextFile, WaitForPermit, SpawnReader,
         SpawnWorker, Drain, jobs, ReaderHolds, WorkerHolds, JobsSpawned,
         ReaderSpawned, WorkerSpawned
    <2> QED BY <2>1, OwnersFrame
  <1>2. CASE UNCHANGED <<chunk, rd, pr>> BY <1>2, OwnersFrame
  <1> QED BY <1>1, <1>2, OwnersReader, OwnersWorker DEF Next, vars, jobs, SignalStop

(* What a channel holds was sent by a reader that has started, to a worker  *)
(* that still receives.                                                     *)
LEMMA ChannelUseReader ==
  ASSUME Owned, NEW f \in Files, Reader(f)
  PROVE  ChannelUse'
  <1> USE DEF Owned, Typed, TypeOK
  <1>1. CASE \/ StartReader(f) \/ Open(f) \/ ReadFileReturns(f)
             \/ OnError(f) \/ ReleaseReader(f) \/ ReaderPanics(f)
    <2>1. /\ pr' = pr
          /\ \A g \in Files : Channel(g)' = Channel(g)
          /\ \A g \in Files \ {f} : rd'[g] = rd[g]
      BY <1>1 DEF StartReader, Open, ReadFileReturns, OnError, ReleaseReader,
         ReaderPanics, Channel, Held
    <2>2. \/ rd[f] = "queued" /\ rd'[f] = "open"
          \/ rd[f] = "open" /\ rd'[f] \in {"lend", "return"}
          \/ /\ rd[f] \in {"return", "report", "release"}
             /\ rd'[f] \in {"report", "release", "done", "panicked"}
      BY <1>1 DEF StartReader, Open, ReadFileReturns, OnError, ReleaseReader, ReaderPanics
    <2> QED BY <2>1, <2>2 DEF ChannelUse, SenderAlive
  <1>2. ASSUME rd[f] \in {"lend", "read", "send"},
               rd'[f] \in {"read", "send", "lend", "return", "panicked"},
               \A g \in Files \ {f} : rd'[g] = rd[g],
               \A g \in Files : pr'[g] = pr[g] \/ (pr[g] = "recv" /\ pr'[g] = "update"),
               \A g \in Files : Channel(g)' \subseteq Channel(g) \/ (g = f /\ ReceiverAlive(f))
        PROVE  ChannelUse'
    BY <1>2 DEF ChannelUse, SenderAlive, ReceiverAlive, WorkerStates
  <1>3. CASE Lend(f)
    BY <1>2, <1>3 DEF Lend, Channel, Held, Free, Place, Places
  <1>4. CASE Read(f)
    BY <1>2, <1>4 DEF Read, Channel, Held, Place, Places
  <1>5. CASE Send(f)
    BY <1>2, <1>5 DEF Send, Channel, Held, Place, Places, AfterSend
  <1>6. CASE Rendezvous(f)
    BY <1>2, <1>6 DEF Rendezvous, Channel, Held, Place, Places, AfterSend
  <1>7. CASE SendFails(f)
    BY <1>2, <1>7 DEF SendFails, Channel, Held, Place, Places, Nowhere
  <1> QED BY <1>1, <1>3, <1>4, <1>5, <1>6, <1>7 DEF Reader

LEMMA ChannelUseWorker ==
  ASSUME Owned, NEW f \in Files, Worker(f)
  PROVE  ChannelUse'
  <1> USE DEF Owned, Typed, TypeOK, ChannelUse, SenderAlive
  <1>1. CASE \/ StartWorker(f) \/ StartFile(f) \/ RecvEnds(f) \/ UpdateFile(f)
             \/ FinishConsume(f) \/ AddPermit(f) \/ ReleaseWorker(f)
    BY <1>1 DEF StartWorker, StartFile, RecvEnds, UpdateFile, FinishConsume,
       AddPermit, ReleaseWorker, Channel, Held
  <1>2. CASE Recv(f)
    <2>1. \A g \in Files : Channel(g)' \subseteq Channel(g)
      BY <1>2 DEF Recv, Channel, Held, Place, Places
    <2> QED BY <1>2, <2>1 DEF Recv
  <1>3. CASE GiveBack(f)
    <2>1. PICK c \in Held(f, "worker") : \E at \in {"free", "lost"} :
             chunk' = [chunk EXCEPT ![c] = Nowhere(at)]
      BY <1>3 DEF GiveBack
    <2>2. \A g \in Files : Channel(g)' \subseteq Channel(g)
      BY <2>1 DEF Channel, Held, Nowhere, Place, Places
    <2> QED BY <1>3, <2>2 DEF GiveBack
  <1>4. CASE WorkerPanics(f)
    <2>1. Channel(f)' = {} /\ \A g \in Files : Channel(g)' \subseteq Channel(g)
      BY <1>4 DEF WorkerPanics, Channel, Held, Nowhere, Place
    <2> QED BY <1>4, <2>1 DEF WorkerPanics
  <1> QED BY <1>1, <1>2, <1>3, <1>4 DEF Worker

LEMMA ChannelUseStep == Owned /\ [Next]_vars => ChannelUse'
  <1> SUFFICES ASSUME Owned, [Next]_vars PROVE ChannelUse'
    OBVIOUS
  <1> USE DEF Owned, Typed, TypeOK, ChannelUse, SenderAlive
  <1>1. CASE Scheduler
    <2>1. \A g \in Files : Channel(g)' = Channel(g)
      BY <1>1 DEF Scheduler, CheckFlag, NextFile, WaitForPermit, SpawnReader,
         SpawnWorker, Drain, Channel, Held
    <2> QED BY <1>1, <2>1 DEF Scheduler, CheckFlag, NextFile, WaitForPermit, SpawnReader,
         SpawnWorker, Drain, jobs, JobsSpawned, ReaderSpawned, WorkerSpawned
  <1>2. CASE UNCHANGED <<chunk, rd, pr>>
    BY <1>2 DEF Channel, Held
  <1> QED BY <1>1, <1>2, ChannelUseReader, ChannelUseWorker DEF Next, vars, jobs, SignalStop

LEMMA PoolHasRoom ==
  ASSUME TypeOK, NEW f \in Files, Held(f, "worker") # {}
  PROVE  Cardinality(Free) < Cardinality(Chunks)
  <1>1. PICK c \in Chunks : chunk[c].at = "worker" BY DEF Held
  <1>2. Free \subseteq Chunks \ {c} BY <1>1 DEF Free
  <1>3. /\ IsFiniteSet(Chunks \ {c})
        /\ Cardinality(Chunks \ {c}) = Cardinality(Chunks) - 1
    BY ChunksAssumption, FS_RemoveElement
  <1>4. Cardinality(Free) <= Cardinality(Chunks \ {c}) /\ IsFiniteSet(Free)
    BY <1>2, <1>3, FS_Subset
  <1>5. /\ Cardinality(Free) \in Nat /\ Cardinality(Chunks) \in Nat
    BY <1>4, ChunksAssumption, FS_CardinalityType
  <1> QED BY <1>3, <1>4, <1>5

LEMMA NothingUnwindsStep == Owned /\ NothingUnwinds /\ [Next]_vars => NothingUnwinds'
  <1> SUFFICES ASSUME Owned, NothingUnwinds, [Next]_vars PROVE NothingUnwinds'
    OBVIOUS
  <1> USE DEF Owned, Typed, TypeOK, NothingUnwinds, NoWorkerPanicked
  <1>1. CASE Scheduler
    <2>1. UNCHANGED chunk
      BY <1>1 DEF Scheduler, CheckFlag, NextFile, WaitForPermit, SpawnReader, SpawnWorker, Drain
    <2>2. \A g \in Files : /\ rd[g] # "panicked" => rd'[g] # "panicked"
                           /\ (pr[g] = "panicked") <=> (pr'[g] = "panicked")
      BY SMTT(30), <1>1, SizesAssumption DEF Scheduler, CheckFlag, NextFile, WaitForPermit,
         SpawnReader, SpawnWorker, Drain, jobs, JobsSpawned, WorkerSpawned, Files
    <2> QED BY <2>1, <2>2
  <1>2. ASSUME NEW f \in Files, Reader(f) PROVE NothingUnwinds'
    <2>1. CASE StartReader(f) BY <2>1 DEF StartReader
    <2>2. CASE Open(f) BY <2>2 DEF Open
    <2>3. CASE Lend(f) BY <2>3 DEF Lend, Place
    <2>4. CASE Read(f) BY <2>4 DEF Read, Place
    <2>5. CASE Send(f) BY <2>5 DEF Send, Place, AfterSend
    <2>6. CASE Rendezvous(f) BY <2>6 DEF Rendezvous, Place, AfterSend
    <2>7. CASE SendFails(f)
      <3>1. pr[f] = "panicked" /\ pr' = pr
        BY <2>7 DEF SendFails, ReceiverAlive, ChannelUse, SenderAlive
      <3>2. ConsumerPanics BY <3>1
      <3> QED BY <3>1, <3>2
    <2>8. CASE ReadFileReturns(f) BY <2>8 DEF ReadFileReturns
    <2>9. CASE OnError(f) BY <2>9 DEF OnError
    <2>10. CASE ReleaseReader(f) BY <2>10 DEF ReleaseReader
    <2>11. CASE ReaderPanics(f) BY <2>11 DEF ReaderPanics
    <2> QED BY <1>2, <2>1, <2>2, <2>3, <2>4, <2>5, <2>6, <2>7, <2>8, <2>9, <2>10, <2>11
         DEF Reader
  <1>3. ASSUME NEW f \in Files, Worker(f) PROVE NothingUnwinds'
    <2>1. CASE StartWorker(f) BY <2>1 DEF StartWorker
    <2>2. CASE StartFile(f) BY <2>2 DEF StartFile
    <2>3. CASE Recv(f) BY <2>3 DEF Recv, Place
    <2>4. CASE RecvEnds(f) BY <2>4 DEF RecvEnds
    <2>5. CASE UpdateFile(f) BY <2>5 DEF UpdateFile
    <2>6. CASE GiveBack(f)
      <3>1. Held(f, "worker") # {} BY <2>6 DEF GiveBack
      <3>2. Cardinality(Free) < Cardinality(Chunks) BY <3>1, PoolHasRoom
      <3>3. \E c \in Held(f, "worker") : chunk' = [chunk EXCEPT ![c] = Nowhere("free")]
        BY <2>6, <3>2 DEF GiveBack
      <3>4. \A c \in Chunks : chunk'[c].at = "lost" => chunk[c].at = "lost"
        BY <3>3 DEF Nowhere, Place
      <3>5. rd' = rd /\ pr[f] = "give" /\ pr' = [pr EXCEPT ![f] = "recv"]
        BY <2>6 DEF GiveBack
      <3> QED BY <3>4, <3>5
    <2>7. CASE FinishConsume(f) BY <2>7 DEF FinishConsume
    <2>8. CASE AddPermit(f) BY <2>8 DEF AddPermit
    <2>9. CASE ReleaseWorker(f) BY <2>9 DEF ReleaseWorker
    <2>10. CASE WorkerPanics(f)
      <3>1. ConsumerPanics /\ rd' = rd /\ pr'[f] = "panicked" BY <2>10 DEF WorkerPanics
      <3> QED BY <3>1
    <2> QED BY <1>3, <2>1, <2>2, <2>3, <2>4, <2>5, <2>6, <2>7, <2>8, <2>9, <2>10
         DEF Worker
  <1>4. CASE UNCHANGED <<chunk, rd, pr>> BY <1>4
  <1> QED BY <1>1, <1>2, <1>3, <1>4 DEF Next, vars, jobs, SignalStop

LEMMA DeliveredOnceStep == Typed /\ DeliveredOnce /\ [Next]_vars => DeliveredOnce'
  <1> SUFFICES ASSUME Typed, DeliveredOnce, [Next]_vars PROVE DeliveredOnce'
    OBVIOUS
  <1> USE DEF Typed, TypeOK, DeliveredOnce, Delivered
  <1>1. CASE Scheduler
    <2>1. /\ entries' = entries
          /\ \A g \in Files : pr'[g] = pr[g] \/ (pr[g] = "idle" /\ pr'[g] = "queued")
      BY SMTT(30), <1>1, SizesAssumption DEF Scheduler, CheckFlag, NextFile, WaitForPermit,
         SpawnReader, SpawnWorker, Drain, jobs, JobsSpawned, WorkerSpawned, Files
    <2> QED BY <2>1
  <1>2. ASSUME NEW f \in Files, Reader(f) PROVE DeliveredOnce'
    <2>1. CASE StartReader(f) BY <2>1 DEF StartReader
    <2>2. CASE ~StartReader(f)
      <3>1. /\ entries' = entries
            /\ pr' = pr \/ (pr[f] = "recv" /\ pr' = [pr EXCEPT ![f] = "update"])
        BY <1>2, <2>2, ReaderMoves
      <3> QED BY <3>1
    <2> QED BY <2>1, <2>2
  <1>3. ASSUME NEW f \in Files, Worker(f) PROVE DeliveredOnce'
    <2>1. CASE StartWorker(f) BY <2>1 DEF StartWorker
    <2>2. CASE StartFile(f) BY <2>2 DEF StartFile
    <2>3. CASE Recv(f) BY <2>3 DEF Recv
    <2>4. CASE RecvEnds(f) BY <2>4 DEF RecvEnds
    <2>5. CASE UpdateFile(f) BY <2>5 DEF UpdateFile
    <2>6. CASE GiveBack(f) BY <2>6 DEF GiveBack
    <2>7. CASE FinishConsume(f)
      <3>1. entries[f] = <<>> /\ pr' = [pr EXCEPT ![f] = "signal"]
        BY <2>7 DEF FinishConsume
      <3>2. entries' = [entries EXCEPT ![f] = <<digest[f]>>]
        BY <2>7, <3>1 DEF FinishConsume
      <3> QED BY <3>1, <3>2
    <2>8. CASE AddPermit(f) BY <2>8 DEF AddPermit
    <2>9. CASE ReleaseWorker(f) BY <2>9 DEF ReleaseWorker
    <2>10. CASE WorkerPanics(f) BY <2>10 DEF WorkerPanics
    <2> QED BY <1>3, <2>1, <2>2, <2>3, <2>4, <2>5, <2>6, <2>7, <2>8, <2>9, <2>10 DEF Worker
  <1>4. CASE UNCHANGED <<entries, pr>> BY <1>4
  <1> QED BY <1>1, <1>2, <1>3, <1>4 DEF Next, vars, jobs, SignalStop


--------------------------------------------------------------------------------
(* A chunk that a job of f may take or change. *)
Reach(c, f) == chunk[c].at \in {"free", "lost"} \/ chunk[c].file = f

(* A step of one file's jobs leaves the pieces of the other files alone. *)
LEMMA PiecesFrame ==
  ASSUME Typed, PiecesInOrder, NEW f \in Files,
         \A c \in Chunks : chunk'[c] = chunk[c] \/ (Reach(c, f) /\ Reach(c, f)'),
         \A g \in Files \ {f} : /\ rd'[g] = rd[g] /\ pr'[g] = pr[g] /\ nread'[g] = nread[g]
                                /\ digest'[g] = digest[g] /\ entries'[g] = entries[g],
         PiecesOf(f)'
  PROVE  PiecesInOrder'
  <1> SUFFICES ASSUME NEW g \in Files \ {f} PROVE PiecesOf(g)'
    BY DEF PiecesInOrder
  <1>1. \A at \in {"reader", "channel", "worker"} :
           /\ Held(g, at)' = Held(g, at)
           /\ \A c \in Held(g, at) : chunk'[c].piece = chunk[c].piece
    BY DEF Held, Reach
  <1>2. Received(g)' = Received(g) /\ Sent(g)' = Sent(g) BY DEF Received, Sent
  <1>3. /\ Channel(g)' = Channel(g)
        /\ \A c \in Channel(g) : chunk'[c].piece = chunk[c].piece
    BY <1>1 DEF Channel
  <1>4. QueueInOrder(g) => QueueInOrder(g)' BY <1>2, <1>3 DEF QueueInOrder, Queue
  <1> QED BY <1>1, <1>2, <1>4 DEF PiecesInOrder, PiecesOf

(* What neither adds to nor takes from a file's channel keeps it in order. *)
LEMMA QueueFrame ==
  ASSUME NEW f \in Files, QueueInOrder(f),
         Received(f)' = Received(f), Sent(f)' = Sent(f), Channel(f)' = Channel(f),
         \A c \in Channel(f) : chunk'[c].piece = chunk[c].piece
  PROVE  QueueInOrder(f)'
  BY DEF QueueInOrder, Queue

(* The types of the counts. *)
LEMMA PieceCounts ==
  ASSUME Typed, NEW f \in Files
  PROVE  /\ digest[f] \in Seq(0 .. MaxReads) /\ Len(digest[f]) \in Nat
         /\ Received(f) \in Nat /\ Sent(f) \in Int /\ nread[f] \in Nat
  <1>1. digest[f] \in Seq(0 .. MaxReads) /\ nread[f] \in 0 .. MaxReads BY DEF Typed, TypeOK
  <1>2. Len(digest[f]) \in Nat BY <1>1
  <1>3. nread[f] \in Nat BY <1>1, SizesAssumption
  <1>4. Received(f) \in Nat
    <2> DEFINE n == Len(digest[f])
    <2>1. n \in Nat BY <1>2
    <2>2. Received(f) = n + (IF pr[f] = "update" THEN 1 ELSE 0) BY DEF Received
    <2> HIDE DEF n
    <2> QED BY <2>1, <2>2
  <1>5. Sent(f) \in Int BY <1>3 DEF Sent
  <1> QED BY <1>1, <1>2, <1>3, <1>4, <1>5

LEMMA ChannelFinite ==
  ASSUME NEW f PROVE IsFiniteSet(Channel(f)) /\ Cardinality(Channel(f)) \in Nat
  <1>1. Channel(f) \subseteq Chunks BY DEF Channel, Held
  <1> QED BY <1>1, ChunksAssumption, FS_Subset, FS_CardinalityType

Ordered == Owned /\ DeliveredOnce /\ PiecesInOrder /\ QueuesBounded

LEMMA PiecesReader ==
  ASSUME Ordered, NEW f \in Files, Reader(f)
  PROVE  PiecesInOrder'
  <1> USE DEF Ordered, Owned, Typed, TypeOK
  <1>1. /\ PiecesOf(f) /\ PiecesInOrder /\ Typed
        /\ Len(digest[f]) \in Nat /\ Received(f) \in Nat /\ Sent(f) \in Int /\ nread[f] \in Nat
    BY PieceCounts DEF PiecesInOrder
  <1>2. digest' = digest /\ entries' = entries
    BY DEF Reader, StartReader, Open, Lend, Read, Send, Rendezvous, SendFails,
       ReadFileReturns, OnError, ReleaseReader, ReaderPanics
  <1>3. \A g \in Files \ {f} : rd'[g] = rd[g] /\ pr'[g] = pr[g] /\ nread'[g] = nread[g]
    BY DEF Reader, StartReader, Open, Lend, Read, Send, Rendezvous, SendFails,
       ReadFileReturns, OnError, ReleaseReader, ReaderPanics
  <1>4. SUFFICES /\ \A c \in Chunks : chunk'[c] = chunk[c] \/ (Reach(c, f) /\ Reach(c, f)')
                 /\ PiecesOf(f)'
    BY <1>1, <1>2, <1>3, PiecesFrame
  <1>5. CASE \/ StartReader(f) \/ Open(f) \/ ReadFileReturns(f)
             \/ OnError(f) \/ ReleaseReader(f) \/ ReaderPanics(f)
    <2>1. UNCHANGED <<chunk, nread, pr>>
      BY <1>5 DEF StartReader, Open, ReadFileReturns, OnError, ReleaseReader, ReaderPanics
    <2>2. rd[f] # "send" /\ rd'[f] # "send"
      BY <1>5 DEF StartReader, Open, ReadFileReturns, OnError, ReleaseReader, ReaderPanics
    <2>3. \A at : Held(f, at)' = Held(f, at) BY <2>1 DEF Held
    <2>4. Received(f)' = Received(f) /\ Sent(f)' = Sent(f)
      BY <1>2, <2>1, <2>2 DEF Received, Sent
    <2>5. QueueInOrder(f) => QueueInOrder(f)' BY <2>1, <2>3, <2>4, QueueFrame DEF Channel
    <2>6. PiecesOf(f)'
      BY <1>1, <1>2, <2>1, <2>2, <2>3, <2>4, <2>5 DEF PiecesOf
    <2> QED BY <2>1, <2>6
  <1>6. CASE Lend(f)
    <2>1. PICK c \in Free : chunk' = [chunk EXCEPT ![c] = Place("reader", f, 0)]
      BY <1>6 DEF Lend
    <2>2. /\ rd[f] = "lend" /\ rd'[f] = "read"
          /\ pr' = pr /\ nread' = nread
      BY <1>6 DEF Lend
    <2>3. \A at \in {"channel", "worker"} :
             /\ Held(f, at)' = Held(f, at)
             /\ \A d \in Held(f, at) : chunk'[d] = chunk[d]
      BY <2>1 DEF Held, Free, Place, Places
    <2>4. Received(f)' = Received(f) /\ Sent(f)' = Sent(f)
      BY <1>2, <2>2 DEF Received, Sent
    <2>5. QueueInOrder(f) => QueueInOrder(f)' BY <2>3, <2>4, QueueFrame DEF Channel
    <2>6. PiecesOf(f)'
      BY <1>1, <1>2, <2>2, <2>3, <2>4, <2>5 DEF PiecesOf
    <2> QED BY <2>1, <2>6 DEF Reach, Free, Place
  <1>7. CASE Read(f)
    <2>1. PICK c \in Held(f, "reader") :
             chunk' = [chunk EXCEPT ![c] = Place("reader", f, nread[f] + 1)]
      BY <1>7 DEF Read
    <2>2. /\ rd[f] = "read" /\ rd'[f] = "send"
          /\ pr' = pr /\ nread'[f] = nread[f] + 1
      BY <1>7 DEF Read
    <2>3. \A at \in {"channel", "worker"} :
             /\ Held(f, at)' = Held(f, at)
             /\ \A d \in Held(f, at) : chunk'[d] = chunk[d]
      BY <2>1 DEF Held, Place, Places
    <2>4. Held(f, "reader") = {c}
      BY <2>1, <2>2 DEF OwnersHold, ReaderHolds
    <2>5. \A d \in Held(f, "reader")' : chunk'[d].piece = nread'[f]
      BY <2>1, <2>2, <2>4 DEF Held, Place, Places
    <2>6. Received(f)' = Received(f) /\ Sent(f)' = Sent(f)
      BY <1>1, <1>2, <2>2 DEF Received, Sent
    <2>7. QueueInOrder(f) => QueueInOrder(f)' BY <2>3, <2>6, QueueFrame DEF Channel
    <2>8. PiecesOf(f)'
      BY <1>1, <1>2, <2>2, <2>3, <2>5, <2>6, <2>7 DEF PiecesOf
    <2> QED BY <2>1, <2>8 DEF Reach, Held, Place
  <1>8. CASE Send(f)
    <2>1. PICK c \in Held(f, "reader") :
             chunk' = [chunk EXCEPT ![c] = Place("channel", f, chunk[c].piece)]
      BY <1>8 DEF Send
    <2>2. /\ rd[f] = "send" /\ rd'[f] # "send"
          /\ pr' = pr /\ nread' = nread
      BY <1>8 DEF Send, AfterSend
    <2>3. /\ Held(f, "worker")' = Held(f, "worker")
          /\ \A d \in Held(f, "worker") : chunk'[d] = chunk[d]
      BY <2>1 DEF Held, Place, Places
    <2>4. /\ Channel(f)' = Channel(f) \union {c}
          /\ \A d \in Channel(f) : chunk'[d] = chunk[d]
          /\ chunk'[c].piece = nread[f]
      BY <1>1, <2>1, <2>2 DEF Channel, Held, Place, Places, PiecesOf
    <2>5. Received(f)' = Received(f) /\ Sent(f)' = Sent(f) + 1 /\ Sent(f)' = nread[f]
      BY <1>1, <1>2, <2>2 DEF Received, Sent
    <2>6. QueueInOrder(f) => QueueInOrder(f)'
      <3> SUFFICES ASSUME QueueInOrder(f) PROVE QueueInOrder(f)'
        OBVIOUS
      <3>1. Queue(f)' = Queue(f) \union {nread[f]} /\ nread[f] \notin Queue(f)
        BY <1>1, <2>5 DEF QueueInOrder, Queue
      <3>2. Received(f)' <= Sent(f)' BY <1>1, <2>5 DEF QueueInOrder
      <3>3. \A d \in Channel(f)' : chunk'[d].piece \in Queue(f)'
        BY <2>4, <3>1 DEF QueueInOrder
      <3>4. \A i \in Queue(f)' : \E d \in Channel(f)' : chunk'[d].piece = i
        BY <2>4, <3>1 DEF QueueInOrder
      <3>5. \A d, e \in Channel(f)' : chunk'[d].piece = chunk'[e].piece => d = e
        BY ZenonT(60), <2>4, <3>1 DEF QueueInOrder
      <3> QED BY <3>2, <3>3, <3>4, <3>5 DEF QueueInOrder
    <2>7. PiecesOf(f)'
      BY <1>1, <1>2, <2>2, <2>3, <2>5, <2>6 DEF PiecesOf
    <2> QED BY <2>1, <2>7 DEF Reach, Held, Place
  <1>9. CASE Rendezvous(f)
    <2>1. PICK c \in Held(f, "reader") :
             chunk' = [chunk EXCEPT ![c] = Place("worker", f, chunk[c].piece)]
      BY <1>9 DEF Rendezvous
    <2>2. /\ rd[f] = "send" /\ rd'[f] # "send" /\ pr[f] = "recv" /\ pr'[f] = "update"
          /\ ChanBound = 0 /\ nread' = nread
      BY <1>9 DEF Rendezvous, AfterSend
    <2>3. Channel(f) = {} /\ Channel(f)' = {}
      <3>1. Cardinality(Channel(f)) = 0 BY <2>2, ChannelFinite DEF QueuesBounded
      <3>2. Channel(f) = {} BY <3>1, ChannelFinite, FS_EmptySet
      <3> QED BY <2>1, <3>2 DEF Channel, Held, Place, Places
    <2>4. Received(f) = Len(digest[f]) /\ Sent(f) = nread[f] - 1
      BY <2>2 DEF Received, Sent
    <2>5. Received(f) = Sent(f)
      <3>1. Received(f) <= Sent(f) BY <1>1, <2>2 DEF PiecesOf, QueueInOrder
      <3>2. \A i \in Received(f) + 1 .. Sent(f) : FALSE
        BY <1>1, <2>2, <2>3 DEF PiecesOf, QueueInOrder, Queue
      <3>3. Received(f) < Sent(f) => Received(f) + 1 \in Received(f) + 1 .. Sent(f) BY <1>1
      <3> QED BY <1>1, <3>1, <3>2, <3>3
    <2>6. Received(f)' = nread[f] /\ Sent(f)' = nread[f]
      BY <1>1, <1>2, <2>2, <2>4, <2>5 DEF Received, Sent
    <2>7. Held(f, "worker") = {} BY <2>2 DEF OwnersHold, WorkerHolds
    <2>8. \A d \in Held(f, "worker")' : chunk'[d].piece = nread[f]
      BY <1>1, <2>1, <2>2, <2>7 DEF Held, Place, Places, PiecesOf
    <2>9. nread[f] + 1 .. nread[f] = {} BY <1>1
    <2>10. QueueInOrder(f)' BY <1>1, <2>3, <2>6, <2>9 DEF QueueInOrder, Queue
    <2>11. PiecesOf(f)'
      BY <1>1, <1>2, <2>2, <2>6, <2>8, <2>10 DEF PiecesOf, Delivered
    <2> QED BY <2>1, <2>11 DEF Reach, Held, Place
  <1>10. CASE SendFails(f)
    <2>1. /\ rd[f] = "send" /\ rd'[f] = "panicked" /\ pr' = pr /\ nread' = nread
          /\ chunk' = [c \in Chunks |-> IF c \in Held(f, "reader") THEN Nowhere("lost")
                                         ELSE chunk[c]]
      BY <1>10 DEF SendFails
    <2>2. pr[f] = "panicked"
      BY <1>10 DEF SendFails, ReceiverAlive, ChannelUse, SenderAlive
    <2>3. PiecesOf(f)'
      BY <1>1, <1>2, <2>1, <2>2 DEF PiecesOf, Delivered
    <2> QED BY <2>1, <2>3 DEF Reach, Held, Place, Nowhere
  <1> QED BY <1>5, <1>6, <1>7, <1>8, <1>9, <1>10 DEF Reader

LEMMA PiecesWorker ==
  ASSUME Ordered, NEW f \in Files, Worker(f)
  PROVE  PiecesInOrder'
  <1> USE DEF Ordered, Owned, Typed, TypeOK
  <1>1. /\ PiecesOf(f) /\ PiecesInOrder /\ Typed /\ digest[f] \in Seq(0 .. MaxReads)
        /\ Len(digest[f]) \in Nat /\ Received(f) \in Nat /\ Sent(f) \in Int /\ nread[f] \in Nat
    BY PieceCounts DEF PiecesInOrder
  <1>2. rd' = rd /\ nread' = nread
    BY DEF Worker, StartWorker, StartFile, Recv, RecvEnds, UpdateFile, GiveBack,
       FinishConsume, AddPermit, ReleaseWorker, WorkerPanics
  <1>3. \A g \in Files \ {f} : pr'[g] = pr[g] /\ digest'[g] = digest[g] /\ entries'[g] = entries[g]
    BY DEF Worker, StartWorker, StartFile, Recv, RecvEnds, UpdateFile, GiveBack,
       FinishConsume, AddPermit, ReleaseWorker, WorkerPanics
  <1>4. SUFFICES /\ \A c \in Chunks : chunk'[c] = chunk[c] \/ (Reach(c, f) /\ Reach(c, f)')
                 /\ PiecesOf(f)'
    BY <1>1, <1>2, <1>3, PiecesFrame
  <1>5. CASE \/ StartWorker(f) \/ StartFile(f) \/ RecvEnds(f) \/ AddPermit(f) \/ ReleaseWorker(f)
    <2>1. UNCHANGED <<chunk, digest, entries>>
      BY <1>5 DEF StartWorker, StartFile, RecvEnds, AddPermit, ReleaseWorker
    <2>2. /\ pr[f] # "update" /\ pr'[f] # "update" /\ pr[f] # "panicked" /\ pr'[f] # "panicked"
          /\ pr'[f] \in Delivered => pr[f] \in Delivered
      BY <1>5 DEF StartWorker, StartFile, RecvEnds, AddPermit, ReleaseWorker, Delivered
    <2>3. \A at : Held(f, at)' = Held(f, at) BY <2>1 DEF Held
    <2>4. Received(f)' = Received(f) /\ Sent(f)' = Sent(f)
      BY <1>2, <2>1, <2>2 DEF Received, Sent
    <2>5. QueueInOrder(f) => QueueInOrder(f)' BY <2>1, <2>3, <2>4, QueueFrame DEF Channel
    <2>6. PiecesOf(f)'
      BY <1>1, <1>2, <2>1, <2>2, <2>3, <2>4, <2>5 DEF PiecesOf
    <2> QED BY <2>1, <2>6
  <1>6. CASE Recv(f)
    <2>1. PICK c \in Channel(f) :
             /\ \A d \in Channel(f) : chunk[c].piece <= chunk[d].piece
             /\ chunk' = [chunk EXCEPT ![c] = Place("worker", f, chunk[c].piece)]
      BY <1>6 DEF Recv
    <2>2. /\ pr[f] = "recv" /\ pr'[f] = "update" /\ UNCHANGED <<digest, entries>>
      BY <1>6 DEF Recv
    <2>3. QueueInOrder(f) BY <1>1, <2>2 DEF PiecesOf
    <2>4. chunk[c].piece = Received(f) + 1 /\ Received(f) + 1 <= Sent(f)
      <3>1. chunk[c].piece \in Received(f) + 1 .. Sent(f) BY <2>1, <2>3 DEF QueueInOrder, Queue
      <3>2. Received(f) + 1 \in Queue(f) BY <1>1, <3>1 DEF Queue
      <3>3. PICK d \in Channel(f) : chunk[d].piece = Received(f) + 1
        BY <2>3, <3>2 DEF QueueInOrder
      <3>4. chunk[c].piece <= Received(f) + 1 BY <2>1, <3>3
      <3> QED BY <1>1, <3>1, <3>4
    <2>5. Received(f)' = Received(f) + 1 /\ Sent(f)' = Sent(f)
      BY <1>1, <1>2, <2>2 DEF Received, Sent
    <2>6. /\ Channel(f)' = Channel(f) \ {c}
          /\ \A d \in Channel(f) \ {c} : chunk'[d] = chunk[d]
      BY <2>1 DEF Channel, Held, Place, Places
    <2>7. Queue(f)' = Queue(f) \ {chunk[c].piece} BY <1>1, <2>4, <2>5 DEF Queue
    <2>8. Received(f)' <= Sent(f)' BY <1>1, <2>4, <2>5
    <2>9. QueueInOrder(f)' BY <2>1, <2>3, <2>6, <2>7, <2>8 DEF QueueInOrder
    <2>10. \A d \in Held(f, "worker")' : chunk'[d].piece = Received(f)'
      <3>1. Held(f, "worker") = {} BY <2>2 DEF OwnersHold, WorkerHolds
      <3>2. \A d \in Held(f, "worker")' : d = c BY <2>1, <3>1 DEF Held
      <3>3. chunk'[c].piece = Received(f) + 1 BY <2>1, <2>4 DEF Channel, Held, Place, Places
      <3> QED BY <2>5, <3>2, <3>3
    <2>11. \A d \in Held(f, "reader")' : d \in Held(f, "reader") /\ chunk'[d] = chunk[d]
      BY <2>1 DEF Held, Channel, Place, Places
    <2>12. PiecesOf(f)'
      BY <1>1, <1>2, <2>2, <2>9, <2>10, <2>11 DEF PiecesOf, Delivered
    <2> QED BY <2>1, <2>12 DEF Reach, Channel, Held, Place
  <1>7. CASE UpdateFile(f)
    <2>1. PICK c \in Held(f, "worker") : digest' = [digest EXCEPT ![f] = Append(@, chunk[c].piece)]
      BY <1>7 DEF UpdateFile
    <2>2. /\ pr[f] = "update" /\ pr'[f] = "give" /\ UNCHANGED <<chunk, entries>>
      BY <1>7 DEF UpdateFile
    <2>3. chunk[c].piece = Len(digest[f]) + 1
      BY <1>1, <2>1, <2>2 DEF PiecesOf, Received
    <2>4. digest'[f] = Append(digest[f], Len(digest[f]) + 1) BY <2>1, <2>3
    <2>5. /\ Len(digest'[f]) = Len(digest[f]) + 1
          /\ \A i \in DOMAIN digest'[f] : digest'[f][i] = i
      <3>1. \A i \in 1 .. Len(digest[f]) : digest[f][i] = i BY <1>1 DEF PiecesOf
      <3> QED BY <1>1, <2>4, <3>1
    <2>6. Received(f)' = Received(f) /\ Sent(f)' = Sent(f)
      BY <1>1, <1>2, <2>2, <2>5 DEF Received, Sent
    <2>7. \A at : Held(f, at)' = Held(f, at) BY <2>2 DEF Held
    <2>8. QueueInOrder(f) => QueueInOrder(f)' BY <2>2, <2>6, <2>7, QueueFrame DEF Channel
    <2>9. PiecesOf(f)'
      BY <1>1, <1>2, <2>2, <2>5, <2>6, <2>7, <2>8 DEF PiecesOf, Delivered
    <2> QED BY <2>2, <2>9
  <1>8. CASE GiveBack(f)
    <2>1. PICK c \in Held(f, "worker") : \E at \in {"free", "lost"} :
             chunk' = [chunk EXCEPT ![c] = Nowhere(at)]
      BY <1>8 DEF GiveBack
    <2>2. /\ pr[f] = "give" /\ pr'[f] = "recv" /\ UNCHANGED <<digest, entries>>
      BY <1>8 DEF GiveBack
    <2>3. \A at \in {"reader", "channel"} :
             /\ Held(f, at)' = Held(f, at)
             /\ \A d \in Held(f, at) : chunk'[d] = chunk[d]
      BY <2>1 DEF Held, Nowhere, Place, Places
    <2>4. Received(f)' = Received(f) /\ Sent(f)' = Sent(f)
      BY <1>2, <2>2 DEF Received, Sent
    <2>5. QueueInOrder(f) => QueueInOrder(f)' BY <2>3, <2>4, QueueFrame DEF Channel
    <2>6. PiecesOf(f)'
      BY <1>1, <1>2, <2>2, <2>3, <2>4, <2>5 DEF PiecesOf, Delivered
    <2> QED BY <2>1, <2>6 DEF Reach, Held, Nowhere, Place
  <1>9. CASE FinishConsume(f)
    <2>1. /\ pr[f] = "finish" /\ pr'[f] = "signal" /\ UNCHANGED <<chunk, digest>>
          /\ entries'[f] = Append(entries[f], digest[f])
      BY <1>9 DEF FinishConsume
    <2>2. entries[f] = <<>> BY <2>1 DEF DeliveredOnce, Delivered
    <2>3. entries'[f] = <<digest[f]>> BY <2>1, <2>2
    <2>4. \A at : Held(f, at)' = Held(f, at) BY <2>1 DEF Held
    <2>5. Received(f)' = Received(f) /\ Sent(f)' = Sent(f)
      BY <1>2, <2>1 DEF Received, Sent
    <2>6. QueueInOrder(f) => QueueInOrder(f)' BY <2>1, <2>4, <2>5, QueueFrame DEF Channel
    <2>7. PiecesOf(f)'
      BY <1>1, <1>2, <2>1, <2>3, <2>4, <2>5, <2>6 DEF PiecesOf
    <2> QED BY <2>1, <2>7
  <1>10. CASE WorkerPanics(f)
    <2>1. /\ pr'[f] = "panicked" /\ UNCHANGED <<digest, entries>>
          /\ chunk' = [c \in Chunks |-> IF c \in Held(f, "worker") \union Channel(f)
                                         THEN Nowhere("lost") ELSE chunk[c]]
      BY <1>10 DEF WorkerPanics
    <2>2. \A d \in Held(f, "reader")' : d \in Held(f, "reader") /\ chunk'[d] = chunk[d]
      BY <2>1 DEF Held, Channel, Nowhere, Place
    <2>3. PiecesOf(f)'
      BY <1>1, <1>2, <2>1, <2>2 DEF PiecesOf, Delivered
    <2> QED BY <2>1, <2>3 DEF Reach, Channel, Held, Nowhere, Place
  <1> QED BY <1>5, <1>6, <1>7, <1>8, <1>9, <1>10 DEF Worker

LEMMA PiecesStep == Ordered /\ [Next]_vars => PiecesInOrder'
  <1> SUFFICES ASSUME Ordered, [Next]_vars PROVE PiecesInOrder'
    OBVIOUS
  <1>1. ASSUME UNCHANGED <<chunk, nread, digest, entries>>,
               \A g \in Files : /\ rd'[g] = rd[g] \/ (rd[g] = "idle" /\ rd'[g] = "queued")
                                /\ pr'[g] = pr[g] \/ (pr[g] = "idle" /\ pr'[g] = "queued")
        PROVE  PiecesInOrder'
    <2> SUFFICES ASSUME NEW g \in Files PROVE PiecesOf(g)'
      BY DEF PiecesInOrder
    <2>1. \A at : Held(g, at)' = Held(g, at) BY <1>1 DEF Held
    <2>2. Received(g)' = Received(g) /\ Sent(g)' = Sent(g) BY <1>1 DEF Received, Sent
    <2>3. QueueInOrder(g) => QueueInOrder(g)' BY <1>1, <2>1, <2>2, QueueFrame DEF Channel
    <2> QED BY <1>1, <2>1, <2>2, <2>3 DEF Ordered, PiecesInOrder, PiecesOf, Delivered
  <1>2. CASE Scheduler
    <2> USE DEF Ordered, Owned, Typed, TypeOK
    <2>1. CASE SpawnReader
      BY <1>1, <2>1, SizesAssumption DEF SpawnReader, JobsSpawned, ReaderSpawned, Files
    <2>2. CASE SpawnWorker
      BY <1>1, <2>2, SizesAssumption DEF SpawnWorker, JobsSpawned, WorkerSpawned, Files
    <2> QED BY <1>1, <1>2, <2>1, <2>2 DEF Scheduler, CheckFlag, NextFile, WaitForPermit, Drain, jobs
  <1>3. CASE UNCHANGED <<chunk, rd, pr, nread, digest, entries>> BY <1>1, <1>3
  <1> QED BY <1>2, <1>3, PiecesReader, PiecesWorker DEF Next, vars, jobs, SignalStop

--------------------------------------------------------------------------------
(* Only Send adds to a channel, and only below its bound. *)
LEMMA QueuesStep == Owned /\ QueuesBounded /\ [Next]_vars => QueuesBounded'
  <1> SUFFICES ASSUME Owned, QueuesBounded, [Next]_vars, NEW g \in Files
               PROVE  Cardinality(Channel(g)') <= ChanBound
    BY DEF QueuesBounded, Channel
  <1> USE DEF Owned, Typed, TypeOK
  <1>1. Cardinality(Channel(g)) <= ChanBound /\ IsFiniteSet(Channel(g)) /\ Cardinality(Channel(g)) \in Nat
    BY ChannelFinite DEF QueuesBounded
  <1>2. ASSUME Channel(g)' \subseteq Channel(g) PROVE Cardinality(Channel(g)') <= ChanBound
    <2>1. /\ IsFiniteSet(Channel(g)') /\ Cardinality(Channel(g)') \in Nat
          /\ Cardinality(Channel(g)') <= Cardinality(Channel(g))
      BY <1>1, <1>2, FS_Subset, FS_CardinalityType
    <2> QED BY <1>1, <2>1, SizesAssumption
  <1>3. ASSUME NEW f \in Files, Send(f) PROVE Cardinality(Channel(g)') <= ChanBound
    <2>1. PICK c \in Held(f, "reader") :
             chunk' = [chunk EXCEPT ![c] = Place("channel", f, chunk[c].piece)]
      BY <1>3 DEF Send
    <2>2. CASE g # f
      <3>1. Channel(g)' \subseteq Channel(g) BY <2>1, <2>2 DEF Channel, Held, Place, Places
      <3> QED BY <1>2, <3>1
    <2>3. CASE g = f
      <3>1. Channel(g)' = Channel(g) \union {c} BY <2>1, <2>3 DEF Channel, Held, Place, Places
      <3>2. c \notin Channel(g) BY <2>1 DEF Channel, Held
      <3>3. Cardinality(Channel(g) \union {c}) = Cardinality(Channel(g)) + 1
        BY <1>1, <3>2, FS_AddElement
      <3>4. Cardinality(Channel(g)) < ChanBound BY <1>3, <2>3 DEF Send
      <3> QED BY <1>1, <3>1, <3>3, <3>4, SizesAssumption
    <2> QED BY <2>2, <2>3
  <1>4. ASSUME NEW f \in Files, Reader(f), ~Send(f) PROVE Channel(g)' \subseteq Channel(g)
    <2>1. CASE \/ StartReader(f) \/ Open(f) \/ ReadFileReturns(f)
               \/ OnError(f) \/ ReleaseReader(f) \/ ReaderPanics(f)
      BY <2>1 DEF StartReader, Open, ReadFileReturns, OnError, ReleaseReader,
         ReaderPanics, Channel, Held
    <2>2. CASE Lend(f) BY <2>2 DEF Lend, Free, Channel, Held, Place, Places
    <2>3. CASE Read(f) BY <2>3 DEF Read, Channel, Held, Place, Places
    <2>4. CASE Rendezvous(f) BY <2>4 DEF Rendezvous, Channel, Held, Place, Places
    <2>5. CASE SendFails(f) BY <2>5 DEF SendFails, Channel, Held, Nowhere, Place
    <2> QED BY <1>4, <2>1, <2>2, <2>3, <2>4, <2>5 DEF Reader
  <1>5. ASSUME NEW f \in Files, Worker(f) PROVE Channel(g)' \subseteq Channel(g)
    <2>1. CASE \/ StartWorker(f) \/ StartFile(f) \/ RecvEnds(f) \/ UpdateFile(f)
               \/ FinishConsume(f) \/ AddPermit(f) \/ ReleaseWorker(f)
      BY <2>1 DEF StartWorker, StartFile, RecvEnds, UpdateFile, FinishConsume,
         AddPermit, ReleaseWorker, Channel, Held
    <2>2. CASE Recv(f) BY <2>2 DEF Recv, Channel, Held, Place, Places
    <2>3. CASE GiveBack(f)
      <3>1. PICK c \in Held(f, "worker") : \E at \in {"free", "lost"} :
               chunk' = [chunk EXCEPT ![c] = Nowhere(at)]
        BY <2>3 DEF GiveBack
      <3> QED BY <3>1 DEF Channel, Held, Nowhere, Place, Places
    <2>4. CASE WorkerPanics(f) BY <2>4 DEF WorkerPanics, Channel, Held, Nowhere, Place
    <2> QED BY <1>5, <2>1, <2>2, <2>3, <2>4 DEF Worker
  <1>6. CASE Scheduler \/ UNCHANGED chunk
    <2>1. UNCHANGED chunk
      BY <1>6 DEF Scheduler, CheckFlag, NextFile, WaitForPermit, SpawnReader, SpawnWorker, Drain
    <2>2. Channel(g)' = Channel(g) BY <2>1 DEF Channel, Held
    <2> QED BY <1>2, <2>2
  <1> QED BY <1>2, <1>3, <1>4, <1>5, <1>6 DEF Next, vars, SignalStop

--------------------------------------------------------------------------------
LEMMA IInvInit == Init => IInv
  <1> SUFFICES ASSUME Init PROVE IInv
    OBVIOUS
  <1>1. Typed BY TypedInit
  <1>2. StartsInOrder BY DEF Init, StartsInOrder
  <1>3. ReaderWindow BY DEF Init, ReaderWindow
  <1>4. PermitAccounting
    <2>1. Unsettled = {} BY DEF Init, Unsettled, Admitted
    <2> QED BY <2>1, FS_EmptySet, SizesAssumption DEF Init, PermitAccounting
  <1>5. OwnersHold /\ OwnersKnown
    BY DEF Init, OwnersHold, OwnersKnown, ReaderHolds, WorkerHolds, Held, Nowhere, Place
  <1>6. ChannelUse
    BY DEF Init, ChannelUse, Channel, Held, Nowhere, Place
  <1>7. NothingUnwinds /\ DeliveredOnce
    BY DEF Init, NothingUnwinds, DeliveredOnce, Delivered, Nowhere, Place
  <1>8. PiecesInOrder
    <2>1. \A f \in Files, at \in {"reader", "channel", "worker"} : Held(f, at) = {}
      BY DEF Init, Held, Nowhere, Place
    <2>2. \A f \in Files : Received(f) = 0 /\ Sent(f) = 0 BY DEF Init, Received, Sent
    <2>3. 0 + 1 .. 0 = {} OBVIOUS
    <2>4. \A f \in Files : QueueInOrder(f)
      BY <2>1, <2>2, <2>3 DEF QueueInOrder, Queue, Channel
    <2> QED BY <2>1, <2>4 DEF Init, PiecesInOrder, PiecesOf, Delivered
  <1>9. QueuesBounded
    <2>1. \A f \in Files : Channel(f) = {} BY DEF Init, Channel, Held, Nowhere, Place
    <2> QED BY <2>1, FS_EmptySet, SizesAssumption DEF QueuesBounded
  <1> QED BY <1>1, <1>2, <1>3, <1>4, <1>5, <1>6, <1>7, <1>8, <1>9 DEF IInv, Typed

LEMMA IInvStep == IInv /\ [Next]_vars => IInv'
  <1> SUFFICES ASSUME IInv, [Next]_vars PROVE IInv'
    OBVIOUS
  <1>1. Owned /\ Typed BY DEF IInv, Owned, Typed
  <1>2. Typed' BY <1>1, TypedStep
  <1>3. StartsInOrder' BY <1>1, StartsInOrderStep DEF IInv
  <1>4. ReaderWindow' BY <1>1, ReaderWindowStep DEF IInv
  <1>5. PermitAccounting' BY <1>1, PermitStep DEF IInv
  <1>6. OwnersHold' /\ OwnersKnown' BY <1>1, OwnersStep
  <1>7. ChannelUse' BY <1>1, ChannelUseStep
  <1>8. NothingUnwinds' BY <1>1, NothingUnwindsStep DEF IInv
  <1>9. DeliveredOnce' BY <1>1, DeliveredOnceStep DEF IInv
  <1>10. PiecesInOrder' BY <1>1, PiecesStep DEF IInv, Ordered
  <1>11. QueuesBounded' BY <1>1, QueuesStep DEF IInv
  <1> QED BY <1>2, <1>3, <1>4, <1>5, <1>6, <1>7, <1>8, <1>9, <1>10, <1>11 DEF IInv, Typed

(* The inductive invariant holds in every reachable state. *)
THEOREM Invariance == Spec => []IInv
  BY IInvInit, IInvStep, PTL DEF Spec

(* However the workers' add_permit calls interleave with the scheduler, no  *)
(* permit is lost or returned twice.                                        *)
THEOREM PermitsAccounted == Spec => []PermitAccounting
  <1>1. IInv => PermitAccounting BY DEF IInv
  <1> QED BY Invariance, <1>1, PTL

LEMMA IInvComplete == IInv => EntriesComplete
  <1> SUFFICES ASSUME IInv, sched = "done", NEW f \in 1 .. cur PROVE Len(entries[f]) = 1
    BY DEF EntriesComplete
  <1> USE DEF IInv, TypeOK
  <1>1. f \in Files BY SizesAssumption DEF Files
  <1>2. Unsettled \subseteq Files
    BY SizesAssumption DEF Unsettled, Admitted, Files
  <1>3. IsFiniteSet(Unsettled) /\ Cardinality(Unsettled) \in Nat
    BY <1>2, FilesFinite, FS_Subset, FS_CardinalityType
  <1>4. Cardinality(Unsettled) = 0 BY <1>3 DEF PermitAccounting
  <1>5. Unsettled = {} BY <1>3, <1>4, FS_EmptySet
  <1>6. pr[f] \in {"release", "done"} BY <1>5 DEF Unsettled, Admitted
  <1> QED BY <1>1, <1>6 DEF DeliveredOnce, Delivered

(* When the scheduler has ended, every path it took has exactly one entry:   *)
(* no permits are left, so no file is unsettled.                             *)
THEOREM AllDelivered == Spec => []EntriesComplete
  BY Invariance, IInvComplete, PTL

--------------------------------------------------------------------------------
(* Deadlock freedom.  In a blocked state, a reader that is sending is        *)
(* blocked only because its worker has not started.                          *)
LEMMA BlockedSender ==
  ASSUME IInv, Blocked, sched # "done", NEW f \in Files, rd[f] = "send"
  PROVE  pr[f] = "queued"
  <1> USE DEF IInv, TypeOK
  <1>1. ReaderBlocked(f) /\ WorkerBlocked(f) /\ SchedulerBlocked BY DEF Blocked
  <1>2. pr[f] # "idle"
    BY <1>1 DEF SchedulerBlocked, JobsSpawned, ReaderSpawned, WorkerSpawned
  <1>3. pr[f] \notin {"done", "panicked"}
    BY <1>1 DEF ReaderBlocked, ReceiverAlive
  <1>4. ASSUME pr[f] = "recv" PROVE FALSE
    <2>1. Channel(f) = {} /\ ChanBound # 0 BY <1>1, <1>4 DEF WorkerBlocked
    <2>2. Cardinality(Channel(f)) = 0 BY <2>1, FS_EmptySet
    <2>3. Cardinality(Channel(f)) >= ChanBound BY <1>1 DEF ReaderBlocked
    <2> QED BY <2>1, <2>2, <2>3, SizesAssumption
  <1> QED BY <1>1, <1>2, <1>3, <1>4 DEF WorkerBlocked

(* A blocked worker that has started waits for a reader that still has to    *)
(* start or to lend.                                                         *)
LEMMA BlockedWorker ==
  ASSUME IInv, Blocked, sched # "done", NEW f \in ActiveWorkers
  PROVE  f \in Files /\ pr[f] = "recv" /\ rd[f] \in {"queued", "lend"}
  <1> USE DEF IInv, TypeOK
  <1>1. f \in Files /\ ReaderBlocked(f) /\ WorkerBlocked(f) BY DEF Blocked, ActiveWorkers
  <1>2. pr[f] = "recv" BY <1>1 DEF WorkerBlocked, ActiveWorkers
  <1>3. SenderAlive(f) BY <1>1, <1>2 DEF WorkerBlocked
  <1>4. rd[f] # "idle"
    BY <1>1, <1>2 DEF JobsSpawned, ReaderSpawned, WorkerSpawned
  <1>5. rd[f] # "send" BY <1>1, <1>2, BlockedSender
  <1> QED BY <1>1, <1>2, <1>3, <1>4, <1>5 DEF ReaderBlocked, SenderAlive

LEMMA NotEmpty ==
  ASSUME NEW S, NEW n \in Nat \ {0}, Cardinality(S) >= n
  PROVE  S # {}
  <1> SUFFICES ASSUME S = {} PROVE FALSE
    OBVIOUS
  <1>1. Cardinality({}) = 0 BY FS_EmptySet
  <1> QED BY <1>1

(* The one way to halt: the chunks are with files whose worker is queued,    *)
(* and the workers in front of them have readers that wait for a chunk.      *)
LEMMA HaltedState == IInv => HaltsByStarvation
  <1> SUFFICES ASSUME IInv, Blocked, sched # "done", MaxPermits > 0, NoWorkerPanicked
               PROVE  /\ Warned /\ Free = {}
                      /\ \A c \in Chunks : pr[chunk[c].file] = "queued"
                      /\ \A f \in ActiveWorkers : rd[f] \in {"queued", "lend"}
    BY DEF HaltsByStarvation, Halted
  <1> USE DEF IInv, TypeOK
  <1>1. \A f \in Files : ReaderBlocked(f) /\ WorkerBlocked(f)
    BY DEF Blocked
  <1>2. sched \in {"permit", "drain"} BY DEF Blocked, SchedulerBlocked
  <1>3. IsFiniteSet(ActiveWorkers) /\ IsFiniteSet(ActiveReaders)
    BY FilesFinite, FS_Subset DEF ActiveWorkers, ActiveReaders
  <1>4. ActiveWorkers # {}
    <2>1. Unsettled \subseteq Files
      BY SizesAssumption DEF Unsettled, Admitted, Files
    <2>2. Unsettled # {}
      <3>1. Cardinality(Unsettled) # 0
        BY <1>2, SizesAssumption DEF Blocked, SchedulerBlocked, PermitAccounting
      <3> QED BY <3>1, FS_EmptySet
    <2>3. PICK f \in Unsettled : TRUE BY <2>2
    <2>4. pr[f] \notin {"idle", "release", "done", "panicked"} /\ f \in Files
      <3>1. WorkerSpawned(f)
        BY <1>2, <2>1, <2>3, SizesAssumption DEF Unsettled, Admitted, WorkerSpawned, Files
      <3>2. f \in Files BY <2>1, <2>3
      <3>3. pr[f] # "idle" BY <3>1, <3>2 DEF JobsSpawned
      <3> QED BY <2>3, <3>2, <3>3 DEF NoWorkerPanicked, Unsettled
    <2>5. CASE pr[f] = "queued"
      <3>1. Cardinality(ActiveWorkers) >= hash_threads
        BY <1>1, <2>4, <2>5 DEF WorkerBlocked
      <3> QED BY <3>1, NotEmpty, PoolsNotEmpty
    <2>6. CASE pr[f] # "queued" BY <2>4, <2>6 DEF ActiveWorkers
    <2> QED BY <2>5, <2>6
  <1>5. Free = {}
    <2>1. PICK a \in ActiveWorkers : TRUE BY <1>4
    <2>2. a \in Files /\ pr[a] = "recv" /\ rd[a] \in {"queued", "lend"}
      BY BlockedWorker
    <2>3. CASE rd[a] = "lend" BY <1>1, <2>2, <2>3 DEF ReaderBlocked
    <2>4. CASE rd[a] = "queued"
      <3>1. Cardinality(ActiveReaders) >= read_threads
        BY <1>1, <2>2, <2>4 DEF ReaderBlocked
      <3>2. ActiveReaders # {} BY <3>1, NotEmpty, PoolsNotEmpty
      <3>3. PICK b \in ActiveReaders : TRUE BY <3>2
      <3>4. b \in Files /\ rd[b] \notin {"idle", "queued", "done", "panicked"}
        BY DEF ActiveReaders
      <3>5. CASE rd[b] = "send"
        <4>1. pr[b] = "queued" BY <3>4, <3>5, BlockedSender
        <4>2. ~(a < b) BY <2>2, <2>4, <3>4 DEF StartsInOrder
        <4>3. ~(b < a) BY <2>2, <3>4, <4>1 DEF StartsInOrder
        <4>4. a = b BY <2>2, <3>4, <4>2, <4>3 DEF Files
        <4> QED BY <2>2, <4>1, <4>4
      <3>6. CASE rd[b] # "send" BY <1>1, <3>4, <3>6 DEF ReaderBlocked
      <3> QED BY <3>5, <3>6
    <2> QED BY <2>2, <2>3, <2>4
  <1>6. ASSUME NEW c \in Chunks, NEW g, g = chunk[c].file
        PROVE  g \in Files /\ pr[g] = "queued" /\ rd[g] \notin {"idle", "queued"}
    <2>1. chunk[c] \in Places /\ chunk[c].at \in {"reader", "channel", "worker"}
      BY <1>5 DEF Free, NothingUnwinds, Places
    <2>2. g \in Files BY <1>6, <2>1 DEF OwnersKnown
    <2>3. CASE chunk[c].at = "worker"
      <3>1. c \in Held(g, "worker") BY <1>6, <2>3 DEF Held
      <3>2. pr[g] \in {"update", "give"} BY <2>2, <3>1 DEF OwnersHold, WorkerHolds
      <3> QED BY <1>1, <2>2, <3>2 DEF WorkerBlocked
    <2>4. CASE chunk[c].at = "reader"
      <3>1. c \in Held(g, "reader") BY <1>6, <2>4 DEF Held
      <3>2. rd[g] \in {"read", "send"} BY <2>2, <3>1 DEF OwnersHold, ReaderHolds
      <3>3. rd[g] = "send" BY <1>1, <2>2, <3>2 DEF ReaderBlocked
      <3> QED BY <2>2, <3>3, BlockedSender
    <2>5. CASE chunk[c].at = "channel"
      <3>1. c \in Channel(g) BY <1>6, <2>5 DEF Channel, Held
      <3>2. /\ rd[g] \notin {"idle", "queued", "open"}
            /\ pr[g] \in {"idle", "queued", "start", "recv", "update", "give"}
        BY <2>2, <3>1 DEF ChannelUse
      <3>3. pr[g] # "idle"
        BY <1>2, <2>2, <3>2 DEF JobsSpawned, ReaderSpawned, WorkerSpawned
      <3> QED BY <1>1, <2>2, <3>1, <3>2, <3>3 DEF WorkerBlocked
    <2> QED BY <2>1, <2>3, <2>4, <2>5
  <1>7. Warned
    <2>1. PICK c \in Chunks : TRUE BY ChunksAssumption
    <2> DEFINE g == chunk[c].file
    <2>2. g \in Files /\ pr[g] = "queued" /\ rd[g] \notin {"idle", "queued"}
      BY <1>6
    <2> HIDE DEF g
    <2>3. Cardinality(ActiveWorkers) >= hash_threads
      BY <1>1, <2>2 DEF WorkerBlocked
    <2>4. ASSUME NEW a \in ActiveWorkers PROVE a \in ActiveBefore(g)
      <3>1. a \in Files /\ pr[a] = "recv" /\ rd[a] \in {"queued", "lend"}
        BY BlockedWorker
      <3>2. a < g
        <4>1. ~(g < a) BY <2>2, <3>1 DEF StartsInOrder
        <4>2. a # g BY <2>2, <3>1
        <4> QED BY <2>2, <3>1, <4>1, <4>2 DEF Files
      <3>3. rd[a] = "lend" BY <2>2, <3>1, <3>2 DEF StartsInOrder
      <3> QED BY <3>1, <3>2, <3>3 DEF ActiveBefore, ActiveReaders
    <2>5. IsFiniteSet(ActiveBefore(g))
      BY <1>3, FS_Subset DEF ActiveBefore
    <2>6. Cardinality(ActiveBefore(g)) < read_threads
      BY <2>2 DEF ReaderWindow
    <2>7. Cardinality(ActiveWorkers) < read_threads
      BY <2>4, <2>5, <2>6, SmallerSet, PoolsNotEmpty
    <2>8. Cardinality(ActiveWorkers) \in Nat BY <1>3, FS_CardinalityType
    <2> QED BY <2>3, <2>7, <2>8, PoolsNotEmpty DEF Warned
  <1>8. \A f \in ActiveWorkers : rd[f] \in {"queued", "lend"}
    BY BlockedWorker
  <1> QED BY <1>5, <1>6, <1>7, <1>8

(* The halt the documentation warns about has one shape, and so can only be  *)
(* met in a configuration run() warns about.                                 *)
THEOREM HaltShape == Spec => []HaltsByStarvation
  BY Invariance, HaltedState, PTL

(* Without more readers than workers the runner is never stuck until a       *)
(* callback panics in process_file, however few chunks there are and however *)
(* short or long the channels.                                               *)
THEOREM DeadlockFree == Spec => []NeverHalts
  <1>1. IInv => NeverHalts
    BY HaltedState DEF HaltsByStarvation, NeverHalts
  <1> QED BY Invariance, <1>1, PTL

(* The unwrap of the send fails only in the reader of a file for which a     *)
(* callback has panicked: a worker leaves its loop over recv in no other way *)
(* before its reader has dropped the sender.                                 *)
THEOREM SendNeverFails == Spec => []SendSucceeds
  <1>1. IInv => SendSucceeds
    BY DEF IInv, TypeOK, SendSucceeds, ChannelUse, ReceiverAlive, SenderAlive
  <1> QED BY Invariance, <1>1, PTL

--------------------------------------------------------------------------------
(* The pieces of a delivered file are all in its digest: nothing is left in  *)
(* its channel, and nothing with its reader.                                 *)
LEMMA IInvFaithful == IInv => DigestFaithful
  <1> SUFFICES ASSUME IInv PROVE DigestFaithful
    OBVIOUS
  <1> SUFFICES ASSUME NEW f \in Files
               PROVE  /\ \A i \in DOMAIN digest[f] : digest[f][i] = i
                      /\ entries[f] # <<>> => entries[f] = << [i \in 1 .. nread[f] |-> i] >>
    BY DEF DigestFaithful
  <1>1. PiecesOf(f) /\ Typed BY DEF IInv, PiecesInOrder, Typed
  <1>2. ASSUME entries[f] # <<>> PROVE entries[f] = << [i \in 1 .. nread[f] |-> i] >>
    <2>1. pr[f] \in Delivered BY <1>2 DEF IInv, DeliveredOnce
    <2>2. entries[f] = <<digest[f]>> BY <1>1, <2>1 DEF PiecesOf
    <2>3. Channel(f) = {} /\ ~SenderAlive(f)
      BY <2>1 DEF IInv, ChannelUse, Delivered
    <2>4. Received(f) = Len(digest[f]) /\ Sent(f) = nread[f]
      <3>1. Len(digest[f]) \in Nat /\ nread[f] \in Nat BY <1>1, PieceCounts
      <3>2. pr[f] # "update" /\ rd[f] # "send" BY <2>1, <2>3 DEF SenderAlive, Delivered
      <3> QED BY <3>1, <3>2 DEF Received, Sent
    <2>5. QueueInOrder(f) BY <1>1, <2>1 DEF PiecesOf, Delivered
    <2>6. Len(digest[f]) = nread[f]
      <3>1. /\ Len(digest[f]) \in Nat /\ nread[f] \in Nat
            /\ Len(digest[f]) <= nread[f]
            /\ \A i \in Len(digest[f]) + 1 .. nread[f] : FALSE
        BY <1>1, <2>3, <2>4, <2>5, PieceCounts DEF QueueInOrder, Queue
      <3>2. Len(digest[f]) < nread[f] => nread[f] \in Len(digest[f]) + 1 .. nread[f]
        BY <3>1
      <3> QED BY <3>1, <3>2
    <2>7. digest[f] \in Seq(0 .. MaxReads) BY <1>1, PieceCounts
    <2>8. digest[f] = [i \in 1 .. Len(digest[f]) |-> digest[f][i]] BY <2>7
    <2>9. digest[f] = [i \in 1 .. nread[f] |-> i]
      BY <1>1, <2>6, <2>7, <2>8 DEF PiecesOf
    <2> QED BY <2>2, <2>9
  <1> QED BY <1>1, <1>2 DEF PiecesOf

(* Every digest covers the pieces of its file once each and in the order     *)
(* they were read, and the entry covers them all, whatever the number of     *)
(* chunks, the length of the channels and the panics of other callbacks.     *)
THEOREM DigestsFaithful == Spec => []DigestFaithful
  BY Invariance, IInvFaithful, PTL

(* A channel never exceeds its bound, and no chunk is lost until a callback  *)
(* panics in process_file: with the ones it started with, the pool can serve *)
(* for ever.                                                                 *)
THEOREM ChunksKept == Spec => []ChunksConserved
  <1>1. IInv => ChunksConserved
    BY DEF IInv, QueuesBounded, NothingUnwinds, ChunksConserved
  <1> QED BY Invariance, <1>1, PTL

--------------------------------------------------------------------------------
(* A file whose worker still has to deliver or to return its permit is       *)
(* counted: the scheduler has not ended, and a permit is out.                *)
LEMMA InFlight ==
  ASSUME IInv, NEW f \in Files, pr[f] \notin {"idle", "release", "done"}
  PROVE  /\ f \in 1 .. cur /\ sched # "done"
         /\ permits + 1 <= MaxPermits
  <1> USE DEF IInv, TypeOK
  <1>1. f \in Admitted /\ f \in 1 .. cur
    BY SizesAssumption DEF JobsSpawned, WorkerSpawned, Admitted, Files
  <1>2. f \in Unsettled BY <1>1 DEF Unsettled
  <1>3. Unsettled \subseteq Files
    BY SizesAssumption DEF Unsettled, Admitted, Files
  <1>4. IsFiniteSet(Unsettled) /\ Cardinality(Unsettled) \in Nat
    BY <1>3, FilesFinite, FS_Subset, FS_CardinalityType
  <1>5. Cardinality(Unsettled) # 0 BY <1>2, <1>4, FS_EmptySet
  <1> QED BY <1>1, <1>4, <1>5, SizesAssumption DEF PermitAccounting

LEMMA QuietStep ==
  ASSUME IInv, [Next]_vars, sched = "done"
  PROVE  UNCHANGED <<digest, entries, permits>>
  <1>1. ASSUME NEW f \in Files, Worker(f) PROVE UNCHANGED <<digest, entries, permits>>
    <2>1. pr[f] \notin {"update", "finish", "signal"} BY InFlight
    <2> QED BY <1>1, <2>1 DEF Worker, StartWorker, StartFile, Recv, RecvEnds, UpdateFile,
               GiveBack, FinishConsume, AddPermit, ReleaseWorker, WorkerPanics
  <1>2. ASSUME NEW f \in Files, Reader(f) PROVE UNCHANGED <<digest, entries, permits>>
    BY <1>2 DEF Reader, StartReader, Open, Lend, Read, Send, Rendezvous, SendFails,
       ReadFileReturns, OnError, ReleaseReader, ReaderPanics
  <1>3. ~Scheduler
    BY DEF Scheduler, CheckFlag, NextFile, WaitForPermit, SpawnReader, SpawnWorker, Drain
  <1> QED BY <1>1, <1>2, <1>3 DEF Next, vars, SignalStop

(* After the scheduler has ended, which is what wait_for_finish returns on,  *)
(* no callback changes a digest, delivers an entry or returns a permit.      *)
THEOREM NothingAfterDone == Spec => QuietAfterDone
  <1>1. IInv /\ [Next]_vars => [sched = "done" => UNCHANGED <<digest, entries, permits>>]_vars
    BY QuietStep
  <1> QED BY Invariance, <1>1, PTL DEF Spec, QuietAfterDone

--------------------------------------------------------------------------------
(* The runner takes and returns permits as a counting semaphore allows. *)
LEMMA SemaphoreStep == IInv /\ [Next]_vars => [Semaphore!Next]_(Semaphore!vars)
  <1> SUFFICES ASSUME IInv, [Next]_vars, permits' # permits PROVE Semaphore!Next
    BY DEF Semaphore!vars
  <1> USE DEF IInv, TypeOK
  <1> DEFINE asked == [t \in {"scheduler"} |-> MaxPermits + 1]
  <1>1. /\ asked["scheduler"] = MaxPermits + 1
        /\ asked = [asked EXCEPT !["scheduler"] = MaxPermits + 1]
    OBVIOUS
  <1>2. CASE WaitForPermit
    BY <1>1, <1>2 DEF WaitForPermit, Semaphore!Next, Semaphore!Acquire, Semaphore!NotWaiting
  <1>3. CASE Drain
    BY <1>1, <1>3, SizesAssumption
       DEF Drain, Semaphore!Next, Semaphore!Acquire, Semaphore!NotWaiting
  <1>4. ASSUME NEW f \in Files, AddPermit(f) PROVE Semaphore!Next
    <2>1. permits' = permits + 1 /\ permits + 1 <= MaxPermits
      BY <1>4, InFlight DEF AddPermit
    <2> QED BY <2>1 DEF Semaphore!Next, Semaphore!Release
  <1>5. UNCHANGED permits \/ WaitForPermit \/ Drain \/ \E f \in Files : AddPermit(f)
    BY DEF Next, vars, jobs, SignalStop, Scheduler, CheckFlag, NextFile, SpawnReader, SpawnWorker,
       Reader, StartReader, Open, Lend, Read, Send, Rendezvous, SendFails, ReadFileReturns,
       OnError, ReleaseReader, ReaderPanics, Worker, StartWorker, StartFile, Recv, RecvEnds,
       UpdateFile, GiveBack, FinishConsume, ReleaseWorker, WorkerPanics
  <1> QED BY <1>2, <1>3, <1>4, <1>5

(* The counter never overflows, and nobody takes a permit that is not there. *)
THEOREM PermitsUsed == Spec => UsesPermits
  <1>1. Init => Semaphore!Init
    BY DEF Init, Semaphore!Init, Semaphore!NotWaiting
  <1> QED BY <1>1, Invariance, SemaphoreStep, PTL DEF Spec, UsesPermits

--------------------------------------------------------------------------------
(* The runner gives back what it lent. *)
Lent == {c \in Chunks : chunk[c].at \in {"reader", "channel", "worker"}}

(* The sizes of the abstract pool and of the list of files are those of this *)
(* module.                                                                  *)
LEMMA SameCardinality == ASSUME NEW S PROVE Cardinality(S) = Pool!Cardinality(S)
  BY Zenon DEF Cardinality, Pool!Cardinality

LEMMA SameSize == ASSUME NEW S PROVE Cardinality(S) = Hashing!Cardinality(S)
  BY Zenon DEF Cardinality, Hashing!Cardinality

LEMMA PoolStep ==
  ASSUME ~ConsumerPanics, IInv, [Next]_vars
  PROVE  [Pool!Next]_(Pool!vars)
  <1> USE DEF IInv, TypeOK
  <1> SUFFICES Pool!Next \/ (Free' = Free /\ Lent' = Lent)
    BY DEF Pool!vars, Lent
  <1>1. ASSUME NEW f \in Files, Lend(f) PROVE Pool!Next
    <2>1. PICK c \in Free : chunk' = [chunk EXCEPT ![c] = Place("reader", f, 0)]
      BY <1>1 DEF Lend
    <2>2. Free' = Free \ {c} BY <2>1 DEF Free, Place
    <2>3. Lent' = Lent \union {c} BY <2>1 DEF Free, Lent, Place
    <2> QED BY <2>1, <2>2, <2>3 DEF Pool!Next, Pool!Take, Lent
  <1>2. ASSUME NEW f \in Files, GiveBack(f) PROVE Pool!Next
    <2>1. Held(f, "worker") # {} BY <1>2 DEF GiveBack
    <2>2. Cardinality(Free) < Cardinality(Chunks) BY <2>1, PoolHasRoom
    <2>3. PICK c \in Held(f, "worker") : chunk' = [chunk EXCEPT ![c] = Nowhere("free")]
      BY <1>2, <2>2 DEF GiveBack
    <2>4. Free' = Free \union {c} BY <2>3 DEF Free, Held, Nowhere, Place
    <2>5. Lent' = Lent \ {c} /\ c \in Lent BY <2>3 DEF Lent, Held, Nowhere, Place
    <2>6. c \in Chunks BY <2>3 DEF Held
    <2>7. Pool!Give(c) BY <2>2, <2>4, <2>5, SameCardinality DEF Pool!Give, Lent
    <2> QED BY <2>6, <2>7 DEF Pool!Next
  <1>3. ASSUME NEW f \in Files, Read(f) \/ Send(f) \/ Rendezvous(f) \/ Recv(f)
        PROVE  Free' = Free /\ Lent' = Lent
    <2>1. PICK c \in Chunks, at \in {"reader", "channel", "worker"}, i \in Nat :
             /\ chunk[c].at \in {"reader", "channel", "worker"}
             /\ chunk' = [chunk EXCEPT ![c] = Place(at, f, i)]
      <3>1. nread[f] + 1 \in Nat BY SizesAssumption
      <3>2. \A c \in Chunks : chunk[c].piece \in Nat BY SizesAssumption DEF Places
      <3>3. CASE Read(f) BY <3>1, <3>3 DEF Read, Held
      <3>4. CASE Send(f) BY <3>2, <3>4 DEF Send, Held
      <3>5. CASE Rendezvous(f) BY <3>2, <3>5 DEF Rendezvous, Held
      <3>6. CASE Recv(f) BY <3>2, <3>6 DEF Recv, Channel, Held
      <3> QED BY <1>3, <3>3, <3>4, <3>5, <3>6
    <2>2. Place(at, f, i).at \in {"reader", "channel", "worker"} BY DEF Place
    <2> QED BY <2>1, <2>2 DEF Free, Lent
  <1>4. \A f \in Files : ~SendFails(f) /\ ~WorkerPanics(f)
    BY DEF SendFails, WorkerPanics, NothingUnwinds, NoWorkerPanicked, ReceiverAlive, ChannelUse, SenderAlive
  <1>5. \/ UNCHANGED chunk
        \/ \E f \in Files : \/ Lend(f) \/ GiveBack(f)
                            \/ Read(f) \/ Send(f) \/ Rendezvous(f) \/ Recv(f)
    BY <1>4 DEF Next, vars, jobs, SignalStop, Scheduler, CheckFlag, NextFile, WaitForPermit,
       SpawnReader, SpawnWorker, Drain, Reader, StartReader, Open, ReadFileReturns,
       OnError, ReleaseReader, ReaderPanics, Worker, StartWorker, StartFile, RecvEnds,
       UpdateFile, FinishConsume, AddPermit, ReleaseWorker
  <1>6. UNCHANGED chunk => Free' = Free /\ Lent' = Lent BY DEF Free, Lent
  <1> QED BY <1>1, <1>2, <1>3, <1>5, <1>6

(* While callbacks return, the chunks move between the pool and the jobs as  *)
(* the abstract pool allows, and none is ever rejected by a full pool.       *)
THEOREM PoolUsed == ~ConsumerPanics => (Spec => UsesPool)
  <1> SUFFICES ASSUME ~ConsumerPanics PROVE Spec => UsesPool
    OBVIOUS
  <1>1. Init => Pool!Init
    BY DEF Init, Pool!Init, Free, Nowhere, Place
  <1>2. IInv /\ [Next]_vars => [Pool!Next]_(Pool!vars) BY PoolStep
  <1> QED BY <1>1, <1>2, Invariance, PTL DEF Spec, UsesPool

--------------------------------------------------------------------------------
(* All together, the runner does what a list of files to hash promises. *)
Hashed == {f \in Files : entries[f] # <<>>}

(* What is taken and not delivered holds a permit. *)
LEMMA OutstandingHoldPermits ==
  ASSUME IInv, sched \notin {"permit", "done"}
  PROVE  /\ (1 .. cur) \ Hashed \subseteq Unsettled
         /\ IsFiniteSet(Unsettled) /\ Cardinality(Unsettled) \in Nat
         /\ permits + Cardinality(Unsettled) = MaxPermits
  <1> USE DEF IInv, TypeOK
  <1>1. Unsettled \subseteq Files
    BY SizesAssumption DEF Unsettled, Admitted, Files
  <1>2. IsFiniteSet(Unsettled) /\ Cardinality(Unsettled) \in Nat
    BY <1>1, FilesFinite, FS_Subset, FS_CardinalityType
  <1>3. ASSUME NEW f \in (1 .. cur) \ Hashed PROVE f \in Unsettled
    <2>1. f \in Files BY SizesAssumption DEF Files
    <2>2. entries[f] = <<>> BY <2>1 DEF Hashed
    <2>3. pr[f] \notin Delivered
      <3> SUFFICES ASSUME pr[f] \in Delivered PROVE FALSE
        OBVIOUS
      <3>1. Len(entries[f]) = 1 BY <2>1 DEF DeliveredOnce
      <3>2. Len(<<>>) = 0 OBVIOUS
      <3> QED BY <2>2, <3>1, <3>2
    <2> QED BY <2>3 DEF Unsettled, Admitted, Delivered
  <1> QED BY <1>2, <1>3 DEF PermitAccounting

LEMMA HashingStep == IInv /\ [Next]_vars => [Hashing!Next]_(Hashing!vars)
  <1> SUFFICES ASSUME IInv, [Next]_vars PROVE [Hashing!Next]_(Hashing!vars)
    OBVIOUS
  <1> USE DEF IInv, TypeOK
  <1> DEFINE over == sched = "done"
  <1>1. CASE NextFile /\ cur < NFiles
    <2>1. cur' = cur + 1 /\ sched = "next" /\ sched' = "permit" /\ entries' = entries
      BY <1>1, SizesAssumption DEF NextFile
    <2>2. Cardinality((1 .. cur) \ Hashed) <= MaxPermits
      <3>1. /\ (1 .. cur) \ Hashed \subseteq Unsettled
            /\ IsFiniteSet(Unsettled) /\ Cardinality(Unsettled) \in Nat
            /\ permits + Cardinality(Unsettled) = MaxPermits
        BY <2>1, OutstandingHoldPermits
      <3>2. Cardinality((1 .. cur) \ Hashed) <= Cardinality(Unsettled)
            /\ IsFiniteSet((1 .. cur) \ Hashed)
        BY <3>1, FS_Subset
      <3>3. Cardinality((1 .. cur) \ Hashed) \in Nat BY <3>2, FS_CardinalityType
      <3> QED BY <3>1, <3>2, <3>3, SizesAssumption
    <2>3. UNCHANGED <<Hashed, over>> BY <2>1 DEF Hashed
    <2>4. Hashing!Take
      BY <1>1, <2>1, <2>2, <2>3, SameSize DEF Hashing!Take, Hashing!Outstanding, Hashed
    <2> QED BY <2>4 DEF Hashing!Next
  <1>2. CASE Drain
    <2>1. sched = "drain" /\ sched' = "done" /\ cur' = cur /\ entries' = entries /\ permits >= MaxPermits
      BY <1>2 DEF Drain
    <2>2. (1 .. cur) \ Hashed = {}
      <3>1. /\ (1 .. cur) \ Hashed \subseteq Unsettled
            /\ IsFiniteSet(Unsettled) /\ Cardinality(Unsettled) \in Nat
            /\ permits + Cardinality(Unsettled) = MaxPermits
        BY <2>1, OutstandingHoldPermits
      <3>2. Cardinality(Unsettled) = 0 BY <2>1, <3>1, SizesAssumption
      <3>3. Unsettled = {} BY <3>1, <3>2, FS_EmptySet
      <3> QED BY <3>1, <3>3
    <2> QED BY <2>1, <2>2 DEF Hashing!Next, Hashing!End, Hashing!Outstanding, Hashed
  <1>3. ASSUME NEW f \in Files, FinishConsume(f) PROVE Hashing!Next
    <2>1. pr[f] = "finish" /\ sched' = sched /\ cur' = cur
          /\ entries' = [entries EXCEPT ![f] = Append(entries[f], digest[f])]
      BY <1>3 DEF FinishConsume
    <2>2. entries[f] = <<>> BY <2>1 DEF DeliveredOnce, Delivered
    <2>3. entries'[f] # <<>> BY <2>1, <2>2
    <2>4. Hashed' = Hashed \union {f} BY <2>1, <2>3 DEF Hashed
    <2>5. f \in (1 .. cur) \ Hashed /\ sched # "done" BY <2>1, <2>2, InFlight DEF Hashed
    <2> QED BY <2>1, <2>4, <2>5 DEF Hashing!Next, Hashing!Deliver, Hashing!Outstanding, Hashed
  <1>4. \/ NextFile /\ cur < NFiles
        \/ Drain
        \/ \E f \in Files : FinishConsume(f)
        \/ UNCHANGED <<cur, entries, over>>
    BY SizesAssumption DEF Next, vars, jobs, SignalStop, Scheduler, CheckFlag, NextFile,
       WaitForPermit, SpawnReader, SpawnWorker,
       Reader, StartReader, Open, Lend, Read, Send, Rendezvous, SendFails, ReadFileReturns,
       OnError, ReleaseReader, ReaderPanics, Worker, StartWorker, StartFile, Recv, RecvEnds,
       UpdateFile, GiveBack, AddPermit, ReleaseWorker, WorkerPanics
  <1>5. UNCHANGED <<cur, entries, over>> => UNCHANGED Hashing!vars
    BY DEF Hashing!vars
  <1> QED BY <1>1, <1>2, <1>3, <1>4, <1>5

(* The scheduler, the readers, the workers and what they share take paths,   *)
(* deliver results and end as HashFiles says, also when callbacks panic and  *)
(* wherever the runner is stopped.                                           *)
THEOREM FilesHashed == Spec => HashesFilesSafely
  <1>1. Init => Hashing!Init
    BY DEF Init, Hashing!Init
  <1> QED BY <1>1, Invariance, HashingStep, PTL DEF Spec, HashesFilesSafely

--------------------------------------------------------------------------------
(* snapshot_files: its steps are steps of ScanRunner, so the runner's invariant *)
(* holds around it too.                                                       *)

(* What IInv means for the end of a run. *)
LEMMA IInvDelivered ==
  ASSUME IInv, sched = "done", cur = NFiles, NEW f \in Files
  PROVE  entries[f] = << [i \in 1 .. nread[f] |-> i] >>
  <1>1. Len(entries[f]) = 1 BY IInvComplete DEF EntriesComplete, Files
  <1>2. entries[f] # <<>>
    <2>1. Len(<<>>) = 0 OBVIOUS
    <2> QED BY <1>1, <2>1
  <1> QED BY <1>2, IInvFaithful DEF DigestFaithful

(* Without a stop the runner ends only after the last path; snapshot_files   *)
(* goes on only after the runner; what it takes out are the entries.         *)
SnapshotInv == /\ IInv
               /\ flag = TRUE
               /\ sched \in {"drain", "done"} => cur = NFiles
               /\ main # "joining" => sched = "done"
               /\ main \in {"sorting", "printed"} => vals = entries

LEMMA SnapshotInvInit == SnapshotInit => SnapshotInv
  BY IInvInit DEF SnapshotInit, SnapshotInv, Init

LEMMA RunnerKeeps ==
  ASSUME SnapshotInv, Runner
  PROVE  /\ flag' = TRUE
         /\ sched' \in {"drain", "done"} => cur' = NFiles
         /\ sched = "done" => sched' = "done" /\ entries' = entries
  <1> USE DEF SnapshotInv
  <1>1. CASE Scheduler
    BY <1>1 DEF Scheduler, CheckFlag, NextFile, WaitForPermit, SpawnReader, SpawnWorker, Drain
  <1>2. ASSUME NEW f \in Files, Reader(f) \/ Worker(f)
        PROVE  UNCHANGED <<flag, sched, cur>>
    BY <1>2 DEF Reader, StartReader, Open, Lend, Read, Send, Rendezvous, SendFails,
       ReadFileReturns, OnError, ReleaseReader, ReaderPanics, Worker, StartWorker, StartFile,
       Recv, RecvEnds, UpdateFile, GiveBack, FinishConsume, AddPermit, ReleaseWorker, WorkerPanics
  <1>3. [Next]_vars BY DEF Runner, Next
  <1>4. sched = "done" => entries' = entries BY <1>3, QuietStep
  <1> QED BY <1>1, <1>2, <1>4 DEF Runner

LEMMA SnapshotInvStep == SnapshotInv /\ [SnapshotNext]_snapshotVars => SnapshotInv'
  <1> SUFFICES ASSUME SnapshotInv, [SnapshotNext]_snapshotVars PROVE SnapshotInv'
    OBVIOUS
  <1>1. CASE Runner
    <2>1. IInv' BY <1>1, IInvStep DEF Runner, Next, SnapshotInv
    <2>2. UNCHANGED <<main, vals>> BY <1>1 DEF Runner
    <2> QED BY <1>1, <2>1, <2>2, RunnerKeeps DEF SnapshotInv
  <1>2. ASSUME UNCHANGED vars PROVE IInv' /\ UNCHANGED <<flag, sched, cur, entries>>
    BY <1>2, IInvStep DEF vars, SnapshotInv
  <1>3. CASE WaitForFinish BY <1>2, <1>3 DEF WaitForFinish, SnapshotInv
  <1>4. CASE IntoInner BY <1>2, <1>4 DEF IntoInner, SnapshotInv
  <1>5. CASE SortAndPrint BY <1>2, <1>5 DEF SortAndPrint, SnapshotInv
  <1>6. CASE UNCHANGED snapshotVars BY <1>2, <1>6 DEF snapshotVars, SnapshotInv
  <1> QED BY <1>1, <1>3, <1>4, <1>5, <1>6 DEF SnapshotNext, Main, SnapshotDone

(* The entries snapshot_files takes out are those of every file of the       *)
(* directory, with all that was read of it, although reader and worker       *)
(* threads may still be on their way out.                                    *)
THEOREM SnapshotsComplete == SnapshotSpec => []SnapshotComplete
  <1>1. SnapshotInv => SnapshotComplete
    <2> SUFFICES ASSUME SnapshotInv, main \in {"sorting", "printed"}, NEW f \in Files
                 PROVE  vals[f] = << [i \in 1 .. nread[f] |-> i] >>
      BY DEF SnapshotComplete
    <2> QED BY IInvDelivered DEF SnapshotInv
  <1> QED BY SnapshotInvInit, SnapshotInvStep, <1>1, PTL DEF SnapshotSpec
================================================================================
