\* Two login sessions and a search, over SQLite and over MySQL; w2 is too short a password.
CONSTANTS
  p1 = p1
  p2 = p2
  q1 = q1
  n1 = n1
  n2 = n2
  w1 = w1
  w2 = w2
  e1 = e1
  e2 = e2
  de = de
  None = None
  Players = {p1, p2}
  Searchers = {q1}
  Names = {n1, n2}
  Passwords = {w1, w2}
  Emails = {e1}
  Countries = {de}
  TooShort = {w2}
  Backends = {"sqlite", "mysql"}
  Unique = TRUE
  FIRST = 1
  MAXIDS = 2
  MAXOPEN = 2
  Lower <- LowerCase
SPECIFICATION Spec
INVARIANTS TypeOK ChecksHold AuthenticatedProved SessionHasAccount LoginFindsAccount
PROPERTY AccountsKept
SYMMETRY Symmetry
