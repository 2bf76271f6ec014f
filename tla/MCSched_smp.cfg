SPECIFICATION Spec
CONSTANTS
  NrCpus = 2
  Tasks = {t1, t2}
  SigBits = {"SIGKILL", "STOPPENDING"}
  None = None
SYMMETRY Symmetry
INVARIANTS
  NoLostTask
  NoSleepOverWork
  IInv
