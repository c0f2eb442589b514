SPECIFICATION RecvFairSpec
CONSTANTS
  t1 = t1
  t2 = t2
  t3 = t3
  Pool = {p1, p2, p3, p4}
  Transfers <- MCTransfers
  Ranges <- MCRanges
  Receivers = {c1, c2}
  MaxLeaks = 1
  MaxFull = 4
  None = None
INVARIANTS
  PoolInv
  CompletedOnceAndLast
PROPERTIES
  TransfersAreAnswered
CHECK_DEADLOCK FALSE
