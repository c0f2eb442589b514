SPECIFICATION FairSpec
CONSTANTS
  N = 2
  OneByOne = {2}
  MaxPackets = 3
  MaxChanges = 1
INVARIANTS
  UnreadIsWoken
  TimerInv
PROPERTIES
  TimerMakesUp
CHECK_DEADLOCK FALSE
