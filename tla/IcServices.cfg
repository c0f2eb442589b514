SPECIFICATION FairSpec
CONSTANTS
  MaxRequests = 7
  OutSize = 1
  Samples = 2
  SeqLimit = 2
  MayAsk <- AskedInRun
INVARIANTS
  ServiceInv
PROPERTIES
  RequestsEnd
CHECK_DEADLOCK FALSE
