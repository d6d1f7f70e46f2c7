SPECIFICATION FairSpec

CONSTANTS
  MaxU64 = 5
  NestCount = 4
  ListedSize <- MCListedSize
  DiskSize <- MCDiskSize
  Weight <- MCWeight
  MaxWorkers = {1, 2, 3}
  Budgets = {0, 2, 3, 4, 5}
  MayPanic = {2}
  Stuck = {1, 4}

CHECK_DEADLOCK FALSE

INVARIANTS
  TypeOK
  BudgetRespected
  WorkersBounded
  CountersExact
  StartedInOrder
  NeverStalls
  NothingLeftBehind

PROPERTIES
  RefinesBatch
  BatchEnds
