SPECIFICATION Spec
CONSTANTS
  Pids = {p1, p2, p3, p4}
  None = None
  Invalid = Invalid
  MaxSlots = 3
  WorkerN = 1
  Helpers <- Caches
  Signals = {"HUP", "QUIT", "USR1", "USR2", "WINCH"}
  Deaths = {"dead", "fatal"}
  BadConfig = TRUE
  MaxSignals = 2
  MaxCrashes = 2
  MaxForkFails = 1
SYMMETRY PidSymmetry
INVARIANT TableAgrees
INVARIANT NewBinaryTracked
PROPERTY NoForkWhenStopping
CHECK_DEADLOCK FALSE
