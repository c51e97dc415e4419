\* A request that times out while its hash runs, and the next one.
SPECIFICATION FairSpec
CONSTANTS
  Conns = {c1, c2}
  Http2 = {}
  Reqs = {r1, r2}
  Routes <- Hashing
  Tls = FALSE
  MaxConnections = 2
  MaxConcurrency = 2
  MaxStreams = 1
  MaxHashes = 1
  PoolSize = 1
INVARIANT
  HashesBounded
CHECK_DEADLOCK FALSE
