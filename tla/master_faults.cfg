\* Two servers, one of which names two games; every send and every store may fail.
CONSTANTS
  c1 = c1
  c2 = c2
  g1 = g1
  g2 = g2
  v1 = v1
  v2 = v2
  None = None
  Clients = {c1, c2}
  Games = {g1, g2}
  Values = {v1}
  GamesOf <- MixedGames
  TIMEOUT = 2
  PERIOD = 2
  Faults = {"send", "store", "receive"}
  Edited <- FirstRow
SPECIFICATION Spec
INVARIANTS TypeOK AgeBound OnlyReachedListed
PROPERTIES ChallengeKept RowsKept ImplementsDirectory
