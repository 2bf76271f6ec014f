SPECIFICATION FairSpec
CONSTANTS
  Sigs = {"SIGILL", "SIGKILL", "SIGCONT", "SIGSTOP"}
  Actions <- SomeActions
  Masks <- SomeMasks
  Faults = {"SIGILL"}
  MaxFrames = 2
INVARIANTS
  SignalInv
PROPERTIES
  KillKills
CHECK_DEADLOCK FALSE
