SPECIFICATION FairSpec
CONSTANTS
    BlockSize = 7
    HeaderSize = 3
    Lengths <- MCLengths
    MaxRecords = 3
    MaxDamaged = 1
INVARIANTS
    FragmentsFit
    ReaderAligned
    ReadsWhatWasWritten
    DamageIsLocal
    DurableReturned
    NoFalseAlarm
PROPERTIES
    ReadingEnds
