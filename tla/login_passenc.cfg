\* A search with the encoded password.
CONSTANTS
  p1 = p1
  p2 = p2
  q1 = q1
  n1 = n1
  n2 = n2
  w1 = w1
  w2 = w2
  e1 = e1
  e2 = e2
  de = de
  None = None
  Players = {p1}
  Searchers = {q1}
  Names = {n1}
  Passwords = {w1, w2}
  Emails = {e1}
  Countries = {de}
  TooShort = {}
  Backends = {"sqlite"}
  Unique = TRUE
  FIRST = 1
  MAXIDS = 2
  MAXOPEN = 2
  Lower <- LowerCase
SPECIFICATION Spec
INVARIANT PassencFindsAccount
