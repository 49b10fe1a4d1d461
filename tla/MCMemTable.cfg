SPECIFICATION MemFairSpec
CONSTANTS
    Keys <- MCKeys
    MaxHeight = 2
    Readers = {r1}
    Null = Null
    Junk = Junk
    BlockSize = 112
    Align = 8
    PointerSize = 8
    EntrySize <- MCEntrySize
INVARIANTS
    NoUninitializedLoad
    AlwaysSorted
    LevelsNest
    MemorySafe
PROPERTIES
    SearchExact
    IterationExact
    SearchesEnd
