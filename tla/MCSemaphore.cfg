CONSTANTS
  t1 = t1
  t2 = t2
  t3 = t3
  Threads <- ThreeThreads
  SEM_VALUE_MAX = 2
SYMMETRY ThreadSymmetry
SPECIFICATION BuildSpec
INVARIANTS NwaitersExact NoLostWakeup NoLostWakeup32
PROPERTIES ImplementsCountingSemaphore ImplementsCountingSemaphore32
CHECK_DEADLOCK FALSE
