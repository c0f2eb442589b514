SPECIFICATION FairSpec
CONSTANTS
  MaxRefused = 1
  MaxCalls = 2
  MaxSignals = 1
  MaxChanges = 1
INVARIANTS
  BufferInv
  RequestInv
  InterfaceInv
PROPERTIES
  CallsEnd
CHECK_DEADLOCK FALSE
