CONSTANTS
  t1 = t1
  t2 = t2
  Threads <- TwoThreads
  Generations = 4
  MaxForks = 3
  ForkInInit = TRUE
SYMMETRY ThreadSymmetry
SPECIFICATION Spec
INVARIANTS NotReclaimedWhileRunning
