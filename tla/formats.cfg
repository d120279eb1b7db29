\* Inputs of each format; eight cards, and connections of up to six bytes.
CONSTANTS
  None = None
  FIELDS_TOTAL = 256
  FILTER_TOTAL = 256
  QUERY_PORT <- GamePort
  TYPES = 9
  N = 8
  XorByte <- XorOfBytes
  Start <- Deck
  Sendable = {0, 3, 6}
  MAX_SENT = 6
  Requests <- ARequest
  Lists <- AList
  NATNEG <- Natneg_
  Names <- AName
  Heartbeats <- ABeat
  TextPackets <- AText
  ModeChoices <- AMode
SPECIFICATION FormatsSpec
INVARIANTS   ClosestModeSet ReadIsSent
CHECK_DEADLOCK FALSE
