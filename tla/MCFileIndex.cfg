CONSTANTS
    Nodes <- SixNodes
    Dirs <- ThreeDirs
    Parent <- Tree
    NameOf <- TreeNames
    Roots <- TopAndFirst
    MaxBad = 1
    Radix = 3
    FixedBytes = 1
    Encodings <- OnlyVarInt
    Names <- TreeNameSet
    MaxRecords = 6
SPECIFICATION FileIndexSpec
INVARIANTS PathsTrue SortedWhenCached ScanComplete SavedPaths
