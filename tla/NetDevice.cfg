SPECIFICATION FairSpec
CONSTANTS
  Senders = {s1, s2}
  Callbacks = {c1}
  MaxSends = 3
  MaxFailures = 1
  MaxOthers = 1
  MaxPolls = 1
INVARIANTS
  TypeOK
  RefCountIsHolders
  OutstandingIsSends
PROPERTIES
  CutFindsNoHolder
  GoesAway
CHECK_DEADLOCK FALSE
