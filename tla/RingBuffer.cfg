SPECIFICATION Spec
CONSTANTS
  RingDataSize = 12
  Senders = {s1, s2}
  Receivers = {raw, cooked}
  RawReceivers = {raw}
  Packets = {"small", "long", "direct", "huge"}
  DescLen <- MCDescLen
  PayloadLen <- MCPayloadLen
  BufferLens = {1, 4}
  None = None
INVARIANTS
  TypeOK
  UnreadTilesTheRing
  UnreadIsIntact
  ReadCannotFail
  LockedWhileInside
PROPERTIES
  RefusedOnlyWhenFull
  IsPacketQueue
