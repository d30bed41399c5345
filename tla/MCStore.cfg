CONSTANTS
    Words = 3
    Half = 4
    NameHashes <- SomeNames
    Values <- TwoValues
    MaxRun = 2
    MaxNew = 3
    Ids <- SomeIds
    Shown = 2
    MaxCount = 16
    MaxIds = 5
SPECIFICATION StoreSpec
INVARIANTS DiffIsDifference NothingLost SizeHintHolds AverageIsExact DiffsRebuild
