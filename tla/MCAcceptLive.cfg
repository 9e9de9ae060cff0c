CONSTANTS
  Workers = {w1, w2}
  Listens = {l1}
  None = None
  Orphan = Orphan
  Bit = Bit
  ConnN = 8
  MultiAccept = FALSE
  MaxArrivals = 2
  MaxFaults = 0
  MaxCrashes = 0
SPECIFICATION FairSpec
PROPERTIES Served
\* all workers may be told to quit
CHECK_DEADLOCK FALSE
