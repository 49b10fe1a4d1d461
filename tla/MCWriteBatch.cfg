CONSTANTS
  Base = 4
  Max32 = 64
  Groups32 = 3
  Max64 = 512
  Groups64 = 5
  Fixed32 = 2
  Fixed64 = 3
  Data <- MCData
  MaxPuts = 2
SPECIFICATION Spec
INVARIANT CountsRecords
