CONSTANTS
  MaxSubs = 2
  MaxItems = 2
  MaxSlow = 1
  MaxUri = 1
  Worlds <- DiscardWorlds
SPECIFICATION HttpSpec
INVARIANT CountNeverZero
CHECK_DEADLOCK FALSE
