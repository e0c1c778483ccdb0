CONSTANTS
  t1 = t1
  t2 = t2
  t3 = t3
  NoThread = NoThread
  Threads <- ThreeThreads
  Kinds <- PreferWriter
  MaxReads = 1
  TimedWriters <- PreferWriter
  READER_OVERFLOW = 3
SYMMETRY ThreadSymmetry
SPECIFICATION Spec
INVARIANTS NoLostWakeup
CHECK_DEADLOCK FALSE
