CONSTANTS
  Procs = {p1, p2, p3}
  None = None
  HasSemaphore = TRUE
  SpinRounds = 1
  MaxFaults = 2
SPECIFICATION FairSpec
INVARIANTS WaitAccounting NoStrandedSleeper
PROPERTIES RefinesMutex LockProgress
\* a process killed inside the lock leaves everybody else asleep
CHECK_DEADLOCK FALSE
