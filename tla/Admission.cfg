\* Three connections for two slots, three requests for one permit each.
SPECIFICATION FairSpec
CONSTANTS
  Conns = {c1, c2, c3}
  Http2 = {c2}
  Reqs = {r1, r2, r3}
  Routes <- LoginAndNotes
  Tls = TRUE
  MaxConnections = 2
  MaxConcurrency = 2
  MaxStreams = 2
  MaxHashes = 0
  PoolSize = 1
INVARIANTS
  PermitsAccounted
  ServedOnLiveConnections
PROPERTIES
  EveryRequestEnds
  ConnectionsEnd
  ShutdownEnds
CHECK_DEADLOCK FALSE
