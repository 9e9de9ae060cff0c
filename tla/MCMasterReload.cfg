SPECIFICATION Spec
CONSTANTS
  Pids = {p1, p2, p3, p4, p5}
  None = None
  Invalid = Invalid
  MaxSlots = 4
  WorkerN = 2
  Helpers <- NoHelpers
  Signals = {"HUP", "QUIT", "TERM", "WINCH", "IO"}
  Deaths = {"dead"}
  BadConfig = TRUE
  MaxSignals = 2
  MaxCrashes = 1
  MaxForkFails = 0
SYMMETRY PidSymmetry
INVARIANT WorkersCurrent
INVARIANT MasterExitsLast
CHECK_DEADLOCK FALSE
