CONSTANTS
  BufferSize = 3
  Sizes = {1, 2, 4, 7}
  MaxBytes = 8
  IsManifest = TRUE
  t1 = t1
  t2 = t2
  t3 = t3
  Threads <- ThreeThreads
  MaxMmaps = 1
  MaxOpenFiles = 1
SPECIFICATION MCSpec
INVARIANTS
  BufferExact
  SlotsExact
  WithinLimits
  NothingLeaked
PROPERTIES
  SyncIsDurable
