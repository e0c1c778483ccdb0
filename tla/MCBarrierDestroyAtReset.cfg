CONSTANTS
  t1 = t1
  t2 = t2
  t3 = t3
  t4 = t4
  Threads <- ThreeThreads
  Count = 2
  BARRIER_IN_THRESHOLD = 5
SYMMETRY ThreadSymmetry
SPECIFICATION Spec
INVARIANTS DestroySafe
CHECK_DEADLOCK FALSE
