SPECIFICATION Spec
CONSTANTS
  Parts = {"files", "blocks", "dir", "data", "dtb", "fdt", "devices"}
  Tasks = {t1, t2}
  FirstTask = t1
  NFds = 2
  NStdio = 0
  Files = {f1, f2}
  PathKinds = {"dir", "reg"}
  Asks <- SomeAsks
  Ops = {"getdents", "lseek", "fchdir"}
  MaxPos = 1
  None = None
  NDir = 1
  Ptrs = 2
  BlocksPerGroup = 4
  BlocksCount = 6
  Meta = {0, 4}
  InodesPerGroup = 1
  InodesCount = 2
  FirstIno = 2
  Ask <- SomeBlocks
  Keeps = {0, 4}
  Modes = {"DIR"}
  MaxLost = 1
  Names = {"a", "b", "c", "d"}
  Units <- NameUnits
  Numbers = {3, 4}
  SelfIno = 1
  UpIno = 2
  BlockSize = 12
  MaxBlocks = 2
  Procs = {1}
  Pages = 2
  PageCells = 2
  Values = {1}
  Blks = {1, 2}
  Junk = 7
  Any = 9
  Sizes = {0, 3}
  Lens = {2}
  Trees <- SomeTrees
  NrSources = 3
  MmioPages = 3
  CellMod = 4
  BootHart = 1
  NrCpus = 3
  MaxNodes = 4
  Blobs <- SomeBlobs
  Cells <- SomeCells
  CpuNodes <- SomeCpus
  MemNodes <- SomeMemory
  RsvNodes <- SomeReserved
  RsvEntries <- SomeEntries
  RsvParents <- SomeParents
  Intcs <- SomeIntcs
  Plics <- SomePlics
  Kernel <- SomeKernel
  Page = 8
  EnableBase = 16
  EnableStride = 4
  ContextBase = 32
  ContextStride = 8
  WordBits = 2
  MaxSources = 8
  NodeNames = {11, 12}
  PropNames = {5, 6}
  Phandle = 5
  Compatible = 6
  PropVals <- SomeValues
  Totals = {16}
  MaxRsv = 1
INVARIANTS
  DescriptorInv
  BlocksInv
  DirectoryInv
  
  DevicesInv
  DtbInv
  
