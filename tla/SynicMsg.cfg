SPECIFICATION FairSpec
CONSTANTS
  MaxMessages = 5
  MaxLost = 1
  Unhandled <- MCUnhandled
  None = None
INVARIANTS
  QueueIsWatched
  SlotIsWatched
  HandledInOrder
PROPERTIES
  EveryMessageIsDone
CHECK_DEADLOCK FALSE
