SPECIFICATION FairSpec
CONSTANTS
  Timers = {t1, t2}
  Cpus = {c1, c2}
  None = None
  MaxTime = 2
  MaxStarts = 2
INVARIANTS
  BasesInv
PROPERTIES
  TimerContract
  CancelReturns
CHECK_DEADLOCK FALSE
