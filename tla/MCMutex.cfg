CONSTANTS
  t1 = t1
  t2 = t2
  t3 = t3
  Threads <- ThreeThreads
  MutexThreads <- ThreeThreads
  Nobody = NoTid
  NoTid = NoTid
  UINT_MAX = 2
  COUNT_MAX = 3
  MaxDeaths = 2
SYMMETRY ThreadSymmetry
SPECIFICATION MutexSpec
INVARIANTS FoundAtDeath NobodyStranded OwnershipExact NusersExact
PROPERTY ImplementsRobustLock
CHECK_DEADLOCK FALSE
