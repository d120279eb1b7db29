\* One server whose heartbeats name two games.
CONSTANTS
  c1 = c1
  c2 = c2
  g1 = g1
  g2 = g2
  v1 = v1
  v2 = v2
  None = None
  Clients = {c1}
  Games = {g1, g2}
  Values = {v1}
  GamesOf <- AnyGame
  TIMEOUT = 2
  PERIOD = 2
  Faults = {}
  Edited = {}
SPECIFICATION Spec
INVARIANTS SeenWhereValidated
