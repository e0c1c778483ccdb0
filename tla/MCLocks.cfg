CONSTANTS
  a = a
  b = b
  c = c
  d = d
  Threads <- FourThreads
  CondvarThreads <- ThreeThreads
  OnceThreads <- ThreeThreads
  NoOwner = NoOwner
  Sizes = {0, 1}
  Generations = 2
  MaxForks = 3
  ForkInInit = FALSE
SPECIFICATION PartsSpec
INVARIANTS NoLostWakeup CondvarWordIntact OneInitializer
PROPERTIES
  ImplementsAbstractLock EveryCallReturns
  CondvarImplementsAbstractLock CondvarEveryCallReturns
  DoneIsFinal OnceEveryCallReturns
