CONSTANTS
  a1 = a1
  a2 = a2
  b1 = b1
  c1 = c1
  d1 = d1
  d2 = d2
  Keys <- AllKeys
  Handles <- AllHandles
  Null = Null
  KeyOf <- KeyOfHandle
  HashOf <- HashOfKey
  InitialLength = 2
SPECIFICATION FairSpec
INVARIANTS
  ElemsExact
PROPERTIES
  ImplementsMap
  CallsEnd
