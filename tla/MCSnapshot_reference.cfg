CONSTANTS
    k1 = k1
    k2 = k2
    NFiles = 2
    MaxReads = 2
    Chunks <- OneChunk
    MaxPermits = 2
    ChanBound = 1
    Drive = "Ssd"
    Cpus = 2
    CustomRead = 0
    CustomProcessing = 0
    ConsumerPanics = FALSE
SPECIFICATION SnapshotSpec
INVARIANTS OnlyReference
