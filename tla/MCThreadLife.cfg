CONSTANTS
  m = m
  p1 = p1
  p2 = p2
  p3 = p3
  TCBs <- FourTCBs
  main = m
  NoTCB = NoTCB
  MaxCache = 1
SYMMETRY StackSymmetry
SPECIFICATION Spec
INVARIANTS StackOutlivesThread KillHitsTarget FreedOnceGone EndsWithLast
CHECK_DEADLOCK FALSE
