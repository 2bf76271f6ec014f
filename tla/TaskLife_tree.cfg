SPECIFICATION Spec
CONSTANTS
  Tasks = {init, t1, t2}
  InitTask = init
  None = None
  Calls = {"clone", "execve", "wait"}
  Signals = {{"SIGPENDING", "SIGKILL"}}
SYMMETRY Symmetry
INVARIANTS
  TreeInv
  VforkInv
PROPERTIES
  DestroyOK
