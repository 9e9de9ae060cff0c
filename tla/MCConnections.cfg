CONSTANTS
  Workers = {w1, w2}
  Listens = {l1, l2}
  None = None
  Orphan = Orphan
  Bit = Bit
  ConnN = 5
  MultiAccept = TRUE
  MaxArrivals = 3
  MaxFaults = 0
  MaxCrashes = 1
  Conns = {l, c1, c2}
  Listening = l
  NoEntry = NoEntry
  MaxTaken = 5
  DrainMax = 32
  Confs <- MCConfs
  MaxFd = 9
  MaxAddr = 9
  Tries = 2
  MaxReloads = 3
  ReaderConfs <- MCReaderConfs
  LocationSets <- MCLocationSets
  RegexLists <- MCRegexLists
  Uris <- MCUris
  Slash = 2
  Sites <- MCSites
  MaxUri = 3
SPECIFICATION ConnectionsSpec
SYMMETRY Symmetry
INVARIANTS AcceptsUnderMutex ConnectionsCurrent ReloadExact HeadersIntact BodyExact LocationFound PhasesKept
PROPERTIES OwnerReleases
\* all workers may be told to quit
CHECK_DEADLOCK FALSE
