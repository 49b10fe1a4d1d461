CONSTANTS
  Base = 4
  Max32 = 64
  Groups32 = 3
  Max64 = 512
  Groups64 = 5
  Fixed32 = 2
  Fixed64 = 3
  Numbers <- MCNumbers
  Names <- MCNames
  Levels <- MCLevels
  Keys <- MCKeys
  NumLevels = 7
  MaxFiles = 2
  UserKeys <- MCUserKeys
  UserLess <- MCUserLess
  Size <- MCSize
  MaxSequence = 1
  TypeRange = 2
  NoKey = NoKey
  Modulus = 127
  Multiplier = 6
  NoSeed = NoSeed
  ByteBits = 3
  Poly <- MCPoly
  MaskShift = 5
  MaskDelta = 2604
  Lengths <- MCLengths
SPECIFICATION MCSpec
INVARIANTS
  RoundTrip
  AcceptedExactly
  ChecksumExact
  KeysSeparate
PROPERTIES
  RandomIsModular
