SPECIFICATION Spec
CONSTANTS
  Parts = {"memory", "paging", "vma", "rbtree", "exec"}
  PageUnits = 2
  MemBase = 1
  MemEnd = 16
  MaxAddr = 20
  MaxReserved = 3
  Requests <- DtRequests
  Sizes = {3}
  Aligns = {1, 8}
  MaxOrder = 3
  MaxRefs = 2
  MaxHeld = 2
  Cpus = {c1, c2}
  Objects <- CacheObjects
  None = None
  Mms = {m1, m2}
  VPages = {v1}
  Frames = {f1, f2, f3}
  Rights = {{}, {"R", "W"}}
  Batch = 1
  MaxUsers = 2
  AreaStart = 2
  UvEnd = 16
  StackBottom = 12
  StackTop = 14
  Flags = {{}, {"R", "W"}}
  Segments <- ElfSegments
  Addrs = {0, 2, 4, 6, 7, 8, 10}
  Lens = {0, 2, 3}
  Keys = {1, 2, 3, 4, 5, 6, 7, 8}
  Page = 4
  Word = 2
  Align = 4
  UvStart = 8
  Bottom = 32
  Top = 64
  EhSize = 2
  PhSize = 2
  U64 = 63
  I64 = 31
  Lengths = {0, 1, 4, 14}
  MaxStrings = 3
  Ehdrs <- SomeEhdrs
  Phdrs <- SomePhdrs
SYMMETRY Symmetry
INVARIANTS
  MemoryInv
  PagingInv
  LayoutInv
  RbtreeInv
  ExecInv
