\* Nothing fails and nobody leaves.
CONSTANTS
  b1 = b1
  b2 = b2
  s1 = s1
  s2 = s2
  s3 = s3
  None = None
  Browsers = {b1, b2}
  Servers = {s1, s2, s3}
  Matching <- AllMatch
  Unsendable <- NothingUnsendable
  Limit <- TwoRows
  CAPACITY = 2
  Faults = FALSE
SPECIFICATION SceneSpec
PROPERTY PushKeepsSession
