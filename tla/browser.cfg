\* One session over three servers, then two over one.
CONSTANTS
  b1 = b1
  b2 = b2
  s1 = s1
  s2 = s2
  s3 = s3
  None = None
  Browsers = {b1, b2}
  Servers = {s1, s2, s3}
  Matching <- AllMatch
  Unsendable <- FirstUnsendable
  Limit <- TwoRows
  CAPACITY = 2
  Faults = TRUE
SPECIFICATION SceneSpec
INVARIANTS TypeOK SlotsAreLive ListIsSnapshot CipherInStep 
PROPERTIES OneSendAtATime ListEnds
