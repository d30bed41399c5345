CONSTANTS
    k1 = k1
    NFiles = 3
    MaxReads = 2
    Chunks <- OneChunk
    MaxPermits = 3
    ChanBound = 1
    Drive = "Ssd"
    Cpus = 2
    CustomRead = 0
    CustomProcessing = 0
    ConsumerPanics = FALSE
SPECIFICATION Spec
INVARIANTS NeverHalts
