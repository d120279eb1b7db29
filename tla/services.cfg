\* All servers, and one of the others.
CONSTANTS
  c1 = c1
  Conns = {c1}
  HTTP_TIMEOUT = 3
  ADMIN_TIMEOUT = 2
  Others = {"master"}
  Optional = {}
  Forwarding = TRUE
  SharedPlayers = TRUE
  SNAPSHOTS = 3
CHECK_DEADLOCK FALSE
SPECIFICATION FairSpec
INVARIANTS DatabasesOutliveServers SnapshotsInOrder
PROPERTIES AdminEnds HttpEnds
