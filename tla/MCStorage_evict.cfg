SPECIFICATION MCSpec
CONSTANTS
  Parts = {"cache"}
  Tasks = {u1, u2}
  Signals = {{"SIGPENDING", "SIGKILL"}}
  DoneMax = 2
  MaxCompletes = 3
  Walkers = {u1, u2}
  Paths <- TreePaths
  Disk <- TreeDisk
  RootIno = 2
  Dentries = {d1, d2, d3, d4, d5, d6}
  Inodes = {i1, i2, i3, i4, i5, i6}
  Users = {u1, u2}
  Keys = {kf, km}
  FileKeys = {kf}
  Cps = {c1, c2, c3}
  Limits <- SomeLimits
  Values = {v1, v2}
  Flusher = Flusher
  Procs = {c1, c2, c3}
  Slots = {1, 2}
  QueueSize = 8
  Types = {"IN"}
  OneSlot = {1}
  FewDescs = 4
  AllTypes = {"IN", "FLUSH"}
  Outcomes = {"OK", "SHORT", "UNSUPP"}
  MaxOdd = 1
  IdxMod = 8
  Nobody = Nobody
  None = None
SYMMETRY Symmetry
INVARIANTS
  NoBusyVictim
