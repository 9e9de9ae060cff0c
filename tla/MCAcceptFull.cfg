CONSTANTS
  Workers = {w1, w2}
  Listens = {l1, l2}
  None = None
  Orphan = Orphan
  Bit = Bit
  ConnN = 8
  MultiAccept = FALSE
  MaxArrivals = 2
  MaxFaults = 1
  MaxCrashes = 1
SPECIFICATION Spec
SYMMETRY Symmetry
INVARIANTS ConnAccounting ReleasedEveryIteration NoDeafSleep
\* all workers may be told to quit
CHECK_DEADLOCK FALSE
