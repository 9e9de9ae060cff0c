CONSTANTS
  MaxSubs = 2
  MaxItems = 2
  MaxSlow = 1
  MaxUri = 1
  Worlds <- MCWorlds
SPECIFICATION HttpSpec
INVARIANTS RequestKept OutputFaithful
PROPERTY RequestEnds
CHECK_DEADLOCK FALSE
