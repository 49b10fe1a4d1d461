SPECIFICATION Spec
CONSTANTS
    BlockSize = 7
    HeaderSize = 3
    Lengths <- MCLengths
    MaxRecords = 3
    MaxDamaged = 1
INVARIANTS
    DurableRecordsReadBack
