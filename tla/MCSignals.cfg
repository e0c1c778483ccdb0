CONSTANTS
  c1 = c1
  c2 = c2
  Cancelers <- TwoCancelers
  Threads <- Started
  m = m
  p1 = p1
  p2 = p2
  NoThread = NoThread
  MaxCalls = 2
  PTHREAD_KEYS_MAX = 2
  PTHREAD_KEY_2NDLEVEL_SIZE = 1
  PTHREAD_DESTRUCTOR_ITERATIONS = 2
  UINTPTR = 6
  UINT = 6
  MaxCreates = 3
  MaxStarts = 2
SYMMETRY ThreadSymmetry
SPECIFICATION PartsSpec
INVARIANTS RequestNotLost IdsOfProcess NobodyStuck GetsOwn DestructorsRun
PROPERTY ActsOnlyWhenAllowed
CHECK_DEADLOCK FALSE
