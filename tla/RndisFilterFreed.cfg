SPECIFICATION Spec
CONSTANTS
  MaxRefused = 1
  MaxCalls = 2
  MaxSignals = 1
  MaxChanges = 1
INVARIANTS
  CompletedBeforeFreed
CHECK_DEADLOCK FALSE
