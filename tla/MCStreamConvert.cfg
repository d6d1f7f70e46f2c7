SPECIFICATION FairSpec

CONSTANTS
  EntryCount = 7
  Keep <- KeepSix
  Workers = 2
  PoolThreads = 2
  Faults <- FaultKinds
  Modes <- AllModes
  AheadDepth = 2

INVARIANTS
  StreamTypeOK
  NoPackLost
  MemoryBounded

PROPERTIES
  RefinesSolidConvert
  EveryThreadEnds
