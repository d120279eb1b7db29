SPECIFICATION FairSpec
CONSTANTS
  BUFFER = 7
  Streams <- AllStreams
INVARIANTS
  RoomToRead
  PacketReceived
  PacketsAreStream
  NothingWithheld
PROPERTY AllReceived
CHECK_DEADLOCK FALSE
