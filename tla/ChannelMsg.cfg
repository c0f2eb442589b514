SPECIFICATION Spec
CONSTANTS
  Channels = {c1, c2}
  FirstHandle = 1
  Bodies = 2
  Retries = 1
  MaxShared = 2
  MaxRefused = 1
SYMMETRY Symmetry
INVARIANTS
  TypeOK
  AnswerToCome
  TorndownToCome
  MappedIsAllocated
CHECK_DEADLOCK FALSE
