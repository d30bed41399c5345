CONSTANTS
    Entries <- TwoEntries
    MaxEntries = 3
    MaxCount = 2
    Leads <- AllLeads
    Bodies <- SomeBodies
    MaxBlocks = 2
SPECIFICATION SumFileSpec
INVARIANTS SortFlagChecked ChunkReadsBack EntriesStreamed BlocksTrue
CHECK_DEADLOCK FALSE
