CONSTANTS
  t1 = t1
  t2 = t2
  t3 = t3
  t4 = t4
  Threads <- FourThreads
  None = None
  MaxGroupSize = 1
  MaxWaits = 3
  Waits = {"wait"}
  FIFO = FALSE
SYMMETRY ThreadSymmetry
SPECIFICATION Spec
INVARIANTS NoLostSignal
CHECK_DEADLOCK FALSE
