SPECIFICATION MCSpec
CONSTANTS
  Parts = {"cpus", "pipe", "tasks"}
  NrCpus = 3
  Readers = {r1, r2}
  Writers = {w1, w2}
  Size = 1
  W = 2
  Counts = {2}
  NonBlock = FALSE
  Interrupts = FALSE
  Faults = FALSE
  None = None
  Procs = {init, t1, t2}
  InitTask = init
  Calls = {"clone", "wait", "poll"}
  Signals = {}
INVARIANTS
  AllOrNone
PROPERTIES
  OutcomeIsFinal
  BootEnds
  CloseEndsWait
  ExitReaped
