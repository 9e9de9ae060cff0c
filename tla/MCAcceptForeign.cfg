CONSTANTS
  Workers = {w1, w2}
  Listens = {l1}
  None = None
  Orphan = Orphan
  Bit = Bit
  ConnN = 8
  MultiAccept = FALSE
  MaxArrivals = 3
  MaxFaults = 0
  MaxCrashes = 0
SPECIFICATION Spec
PROPERTIES OwnerReleases
\* all workers may be told to quit
CHECK_DEADLOCK FALSE
