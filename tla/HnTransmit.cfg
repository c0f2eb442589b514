SPECIFICATION FairSpec
CONSTANTS
  NIfs = 2
  Monitored = {2}
  NMbufs = 3
  Tries = 2
  RingSize = 1
  DrvMax = 1
  MaxStops = 1
INVARIANTS
  MbufInv
  WaitsOnlyForOactive
  SentIsSignalled
PROPERTIES
  StartReturns
CHECK_DEADLOCK FALSE
