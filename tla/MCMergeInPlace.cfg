CONSTANTS
    Items <- FourItems
    MaxItems = 4
SPECIFICATION MergeSpec
INVARIANTS PartsMerged
CHECK_DEADLOCK FALSE
