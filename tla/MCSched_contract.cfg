SPECIFICATION FairSpec
CONSTANTS
  NrCpus = 2
  Tasks = {t1, t2}
  SigBits = {}
  None = None
PROPERTIES
  SchedContract
