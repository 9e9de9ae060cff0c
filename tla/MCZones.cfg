CONSTANTS
  NoKey = NoKey
  NoNode = NoNode
  Keys = {k1, k2}
  Nodes = {n1, n2}
  CacheRequests = {r1, r2}
  Manager = m
  MaxSize = 2
  CacheConfs <- MCCacheConfs
  LimitWorkers = {r1, r2}
  LimitKeys = {lk, ll}
  LongKeys = {ll}
  ZoneNodes = 3
  Unit = 3
  Rate = 2
  Burst = 4
  IdleTime = 3
  MaxClock = 4
  MaxSkew = 1
  MaxRequests = 3
  Clients = {x1, x2, x3}
  ClientKeys = {y1, y2, yo}
  OddKeys = {yo}
  Locations = {"strict", "lax"}
  LimitConn <- MCLimitConn
  ConnNodes = 1
  MaxVisits = 2
  PageCount = 3
  Classes = {"small", "big"}
  Chunks <- MCChunks
  Reserved <- MCReserved
  MaxRun = 3
  Names = {n1, n2}
  Uniqs = {k1, k2}
  Cached = {1, 2, 3}
  Readers = {r1, r2}
  MaxCached = 1
  Valid = 1
  Inactive = 0
  FileConfs <- MCFileConfs
SYMMETRY ZonesSymmetry
SPECIFICATION ZonesSpec
INVARIANTS NodesOwned DiskExact BucketsExact MemoryExact HandlesExact
PROPERTIES ConnLimited ServedFresh
CHECK_DEADLOCK FALSE
