CONSTANTS
    Radix = 3
    FixedBytes = 1
    Encodings <- BothEncodings
    Names <- SomeNames
    MaxRecords = 4
    Strings <- SomeNames
    U32 = 6
    USize = 8
    Memory = 8
    MaxPushes = 4
SPECIFICATION NameStoresSpec
INVARIANTS PathsKept SkipVisitsAll OffsetsReadBack NamesKept
CHECK_DEADLOCK FALSE
