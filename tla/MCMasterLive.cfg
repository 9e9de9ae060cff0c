SPECIFICATION FairSpec
CONSTANTS
  Pids = {p1, p2, p3, p4}
  None = None
  Invalid = Invalid
  MaxSlots = 3
  WorkerN = 1
  Helpers <- NoHelpers
  Signals = {"HUP", "TERM", "USR2", "WINCH", "IO"}
  Deaths = {"dead"}
  BadConfig = FALSE
  MaxSignals = 2
  MaxCrashes = 2
  MaxForkFails = 0
PROPERTY TermExits
PROPERTY WorkersRestored
CHECK_DEADLOCK FALSE
