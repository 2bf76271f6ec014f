SPECIFICATION MCSpec
CONSTANTS
  Parts = {"pipe", "pid", "tty", "uart", "ipi"}
  Readers = {r1}
  Writers = {t1, t2}
  Size = 2
  W = 4
  Counts = {2, 3}
  NonBlock = TRUE
  Interrupts = TRUE
  Faults = TRUE
  None = None
  Procs = {init, t1, t2}
  InitTask = init
  PidMax = 4
  TtyReaders = {t1, t2}
  TtySize = 3
  TtyRange = 6
  Typed = {"a", "cr", "erase"}
  TtyCount = 2
  TtyModes <- SomeModes
  NoOne = none
  UartWriters = {w1}
  FifoSize = 2
  HwSize = 2
  Budget = 3
  FifoRange = 4
  TxChunk = 2
  Bytes = {"x", "y"}
  Datas <- SomeDatas
  Echoes <- SomeEchoes
  Nobody = none
  Senders = {r1, t1, t2}
SYMMETRY Symmetry
INVARIANTS
  PipeInv
  HashInv
  ConsoleInv
  IpiInv
PROPERTIES
  FreshNumber
