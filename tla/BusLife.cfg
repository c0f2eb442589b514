SPECIFICATION BusLifeFairSpec
CONSTANTS
  Instances = {1, 2, 3}
  Nets = {1}
  Ics = {2}
  Foreign = {3}
  MaxOffers = 2
  MaxChanges = 1
INVARIANTS
  ChannelInv
  HeldInv
PROPERTIES
  
  TornIsReleased
CHECK_DEADLOCK FALSE
