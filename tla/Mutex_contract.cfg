SPECIFICATION FairSpec
CONSTANTS
  Tasks = {t1, t2, t3}
  None = None
INVARIANTS
  WaitersInv
PROPERTIES
  MutexContract
