CONSTANTS
  p1 = p1
  p2 = p2
  Threads <- TwoThreads
  PTHREAD_KEYS_MAX = 2
  PTHREAD_KEY_2NDLEVEL_SIZE = 1
  PTHREAD_DESTRUCTOR_ITERATIONS = 2
  UINTPTR = 8
  UINT = 4
  MaxCreates = 3
  MaxStarts = 3
SYMMETRY ThreadSymmetry
SPECIFICATION Spec
INVARIANTS GetsOwn
CHECK_DEADLOCK FALSE
