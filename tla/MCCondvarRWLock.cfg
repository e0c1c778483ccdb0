CONSTANTS
  t1 = t1
  t2 = t2
  t3 = t3
  Threads <- ThreeThreads
  Kinds <- AllKinds
  TimedWriters <- AllKinds
  None = None
  MaxGroupSize = 1
  MaxWaits = 3
  Waits = {"wait", "timedwait", "canceled", "unowned"}
  FIFO = TRUE
  NoThread = NoThread
  MaxReads = 2
  READER_OVERFLOW = 4
SYMMETRY ThreadSymmetry
SPECIFICATION PartsSpec
INVARIANTS
  NoLostSignal GroupsAccounted DestroyExact
  Exclusion StateTable HandedOver NobodyStranded
CHECK_DEADLOCK FALSE
