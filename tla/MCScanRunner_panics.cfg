CONSTANTS
    k1 = k1
    NFiles = 3
    MaxReads = 2
    Chunks <- OneChunk
    MaxPermits = 2
    ChanBound = 0
    Drive = "Custom"
    Cpus = 2
    CustomRead = 2
    CustomProcessing = 1
    ConsumerPanics = TRUE
CHECK_DEADLOCK FALSE
SPECIFICATION Spec
INVARIANTS PermitAccounting DigestFaithful EntriesComplete SendSucceeds ChunksConserved HaltsByStarvation IInv
PROPERTIES QuietAfterDone HashesFilesSafely
