CONSTANTS
  t1 = t1
  t2 = t2
  t3 = t3
  t4 = t4
  Threads <- FourThreads
  Count = 2
  BARRIER_IN_THRESHOLD = 5
SPECIFICATION FairSpec
INVARIANTS NoEarlyExit DestroySafeButReset
PROPERTIES ImplementsAbstractBarrier EveryCallReturns
CHECK_DEADLOCK FALSE
