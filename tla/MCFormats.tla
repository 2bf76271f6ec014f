----------------------------- MODULE MCFormats ------------------------------
(***************************************************************************)
(* Instances for TLC of what the kernel finds described in memory and on   *)
(* disk, and of who uses it: the device tree (Dtb), the library that       *)
(* parses and edits it (Fdt) and the devices it names (Devices); the       *)
(* blocks, inodes, directories and contents of ext2 (Ext2Blocks, Ext2Dir,  *)
(* Ext2File) and the descriptor tables and open files above them (Files).  *)
(* Each behaviour is one component's; the others' variables keep a value   *)
(* that means nothing.                                                     *)
(***************************************************************************)
EXTENDS Integers, Sequences

CONSTANTS Parts, Tasks, FirstTask, NFds, NStdio, Files, PathKinds, Asks, Ops,
  MaxPos, None, NDir, Ptrs, BlocksPerGroup, BlocksCount, Meta, InodesPerGroup,
  InodesCount, FirstIno, Ask, Keeps, Modes, MaxLost, Names, Units, Numbers,
  SelfIno, UpIno, BlockSize, MaxBlocks, Procs, Pages, PageCells, Values, Blks,
  Junk, Any, Sizes, Lens, Trees, NrSources, MmioPages, CellMod, BootHart,
  NrCpus, MaxNodes, Blobs, Cells, CpuNodes, MemNodes, RsvNodes, RsvEntries,
  RsvParents, Intcs, Plics, Kernel, Page, EnableBase, EnableStride,
  ContextBase, ContextStride, WordBits, MaxSources, NodeNames, PropNames,
  Phandle, Compatible, PropVals, Totals, MaxRsv

VARIABLE part    \* the component this behaviour is about

VARIABLES
  tab, file, call, cwd, prefs,
  bits, gfree, sfree, ptr, ibits, gifree, sifree, gdirs, rec, mem, op, newino,
  lost,
  dir, names, reader,
  size, bmap, disk, cache, truth, access,
  stage, seen, cells, dtb, cpus, found, memory, asked, contexts, mapped,
  touched,
  blob, ret, open, model, named,
  tree, probing, node, step, devices, drivers, started, dev, windows, uart,
  root, action, enabled, raised, serving, handling

Open == INSTANCE Files WITH Nodes <- PathKinds
Alloc == INSTANCE Ext2Blocks
Dir == INSTANCE Ext2Dir WITH Self <- SelfIno, Up <- UpIno
Data == INSTANCE Ext2File WITH Cells <- PageCells, call <- access
Tree == INSTANCE Dtb
Lib == INSTANCE Fdt WITH tree <- model
Drv == INSTANCE Devices WITH stage <- probing

ASSUME Open!FilesAssumption
ASSUME Alloc!Ext2BlocksAssumption
ASSUME Dir!Ext2DirAssumption
ASSUME Data!Ext2FileAssumption

OpenVars == <<tab, file, call, cwd, prefs>>
AllocVars == <<bits, gfree, sfree, ptr, ibits, gifree, sifree, gdirs, rec,
    mem, op, newino, lost>>
DirVars == <<dir, names, reader>>
DataVars == <<size, bmap, disk, cache, truth, access>>
TreeVars == <<stage, seen, cells, dtb, cpus, found, memory, asked, contexts,
    mapped, touched>>
LibVars == <<blob, ret, open, model, named>>
DrvVars == <<tree, probing, node, step, devices, drivers, started, dev,
    windows, uart, root, action, enabled, raised, serving, handling>>
vars == <<part, OpenVars, AllocVars, DirVars, DataVars, TreeVars, LibVars,
    DrvVars>>

SomeAsks == {<<"dir", "r">>}
SomeBlocks == [n \in 1 .. 2 |-> IF n = 1 THEN {0} ELSE {0, 3, 5}]
NameUnits == [n \in {"a", "b", "c", "d"} |-> CASE n = "a" -> 1 [] n = "d" -> 4 [] OTHER -> 2]

\* Machines with each combination of devices whose probing differs.
N(kind, irq) == [kind |-> kind, irq |-> irq]
SomeTrees ==
  {<<N("uart", 1), N("blk", 2), N("net", 3), N("blk", 3)>>, <<N("uart", 1), N("uart", 2)>>,
   <<N("blk", 1), N("uart", 1)>>, <<N("blk", 2), N("blk", 2)>>, <<N("blk", 4)>>}

\* Nodes of each shape the scans tell apart.
SomeBlobs ==
  {[paddr |-> 2, size |-> 3, full |-> TRUE], [paddr |-> 3, size |-> 3, full |-> TRUE],
   [paddr |-> 8, size |-> 8, full |-> TRUE], [paddr |-> 2, size |-> 3, full |-> FALSE]}
SomeCells ==
  {[ac |-> 1, sc |-> 0], [ac |-> 1, sc |-> 1], [ac |-> 2, sc |-> 2], [ac |-> 3, sc |-> 1]}
Cpu(type, status, hart) == [type |-> type, status |-> status, reg |-> <<hart>>, riscv |-> TRUE]
SomeCpus ==
  {Cpu("cpu", "none", h) : h \in 0 .. 3} \cup
  {Cpu("cpu", "disabled", 1), Cpu("cpu", "bad", 2), Cpu("none", "none", 1), Cpu("bad", "none", 1),
   [Cpu("cpu", "okay", 2) EXCEPT !.riscv = FALSE],
   [Cpu("cpu", "okay", 2) EXCEPT !.reg = <<0, 2>>], [Cpu("cpu", "okay", 2) EXCEPT !.reg = None]}
Mem(type, status, reg) == [type |-> type, status |-> status, reg |-> reg]
SomeMemory ==
  {Mem("memory", "none", <<1, 2>>), Mem("memory", "okay", <<1, 2, 3, 1>>),
   Mem("memory", "disabled", <<1, 2>>), Mem("other", "none", None),
   Mem("memory", "none", <<3, 0, 3, 3>>), Mem("memory", "none", <<3, 0>>),
   Mem("memory", "bad", <<1, 2>>)}
Rsv(status, nomap, reg) == [status |-> status, nomap |-> nomap, reg |-> reg]
SomeReserved ==
  {Rsv("none", "no", <<1, 1>>), Rsv("okay", "yes", <<1, 1, 2, 1>>),
   Rsv("none", "yes", <<3, 3, 0, 3>>), Rsv("disabled", "no", None),
   Rsv("none", "bad", <<1, 1>>), Rsv("none", "no", None)}
SomeEntries == {<<1, 3>>, <<14, 2>>}
SomeParents ==
  {None, [status |-> "disabled", ranges |-> "none"], [status |-> "okay", ranges |-> "empty"],
   [status |-> "none", ranges |-> "none"]}
Intc(irq, hart) == [cells |-> 1, irq |-> irq, intc |-> TRUE, hart |-> hart]
SomeIntcs ==
  {Intc(i, h) : i \in {"SEI", "MEI"}, h \in {0, 1, 2}} \cup
  {[Intc("SEI", 0) EXCEPT !.cells = 2], [Intc("SEI", 0) EXCEPT !.intc = FALSE]}
Plic(irqs, base, len) == [status |-> "okay", irqs |-> irqs, base |-> base, size |-> len]
SomePlics == {None, Plic(3, 0, 56), Plic(7, 8, 48), Plic(8, 0, 56), Plic(3, 4, 56)}
SomeKernel == <<4, 2>>

SomeValues == {<<1>>, <<2, 2>>}

\* The variables of a component that is not the one that runs.
OpenIdle == tab = 0 /\ file = 0 /\ call = 0 /\ cwd = 0 /\ prefs = 0
AllocIdle == bits = 0 /\ gfree = 0 /\ sfree = 0 /\ ptr = 0 /\ ibits = 0
    /\ gifree = 0 /\ sifree = 0 /\ gdirs = 0 /\ rec = 0 /\ mem = 0 /\ op = 0
    /\ newino = 0 /\ lost = 0
DirIdle == dir = 0 /\ names = 0 /\ reader = 0
DataIdle == size = 0 /\ bmap = 0 /\ disk = 0 /\ cache = 0 /\ truth = 0
    /\ access = 0
TreeIdle == stage = 0 /\ seen = 0 /\ cells = 0 /\ dtb = 0 /\ cpus = 0
    /\ found = 0 /\ memory = 0 /\ asked = 0 /\ contexts = 0 /\ mapped = 0
    /\ touched = 0
LibIdle == blob = 0 /\ ret = 0 /\ open = 0 /\ model = 0 /\ named = 0
DrvIdle == tree = 0 /\ probing = 0 /\ node = 0 /\ step = 0 /\ devices = 0
    /\ drivers = 0 /\ started = 0 /\ dev = 0 /\ windows = 0 /\ uart = 0
    /\ root = 0 /\ action = 0 /\ enabled = 0 /\ raised = 0 /\ serving = 0
    /\ handling = 0

Init ==
  /\ part \in Parts
  /\ IF part = "files" THEN Open!FilesInit ELSE OpenIdle
  /\ IF part = "blocks" THEN Alloc!Ext2Init ELSE AllocIdle
  /\ IF part = "dir" THEN Dir!DirInit ELSE DirIdle
  /\ IF part = "data" THEN Data!FileInit ELSE DataIdle
  /\ IF part = "dtb" THEN Tree!DtbInit ELSE TreeIdle
  /\ IF part = "fdt" THEN Lib!FdtInit ELSE LibIdle
  /\ IF part = "devices" THEN Drv!DevicesInit ELSE DrvIdle

OpenStep == part = "files" /\ Open!FilesNext /\ UNCHANGED <<part, AllocVars,
    DirVars, DataVars, TreeVars, LibVars, DrvVars>>
AllocStep == part = "blocks" /\ Alloc!Ext2Next /\ UNCHANGED <<part, OpenVars,
    DirVars, DataVars, TreeVars, LibVars, DrvVars>>
DirStep == part = "dir" /\ Dir!DirNext /\ UNCHANGED <<part, OpenVars,
    AllocVars, DataVars, TreeVars, LibVars, DrvVars>>
DataStep == part = "data" /\ Data!FileNext /\ UNCHANGED <<part, OpenVars,
    AllocVars, DirVars, TreeVars, LibVars, DrvVars>>
TreeStep == part = "dtb" /\ Tree!DtbNext /\ UNCHANGED <<part, OpenVars,
    AllocVars, DirVars, DataVars, LibVars, DrvVars>>
LibStep == part = "fdt" /\ Lib!FdtNext /\ UNCHANGED <<part, OpenVars,
    AllocVars, DirVars, DataVars, TreeVars, DrvVars>>
DrvStep == part = "devices" /\ Drv!DevicesNext /\ UNCHANGED <<part, OpenVars,
    AllocVars, DirVars, DataVars, TreeVars, LibVars>>

\* A disk or a blob may be full, a call the last one, and a boot may end.
Stopped == part \in {"blocks", "dir", "data", "devices", "dtb", "fdt"} /\ UNCHANGED vars

Next == OpenStep \/ AllocStep \/ DirStep \/ DataStep \/ TreeStep \/ LibStep \/ DrvStep \/ Stopped

Spec == Init /\ [][Next]_vars

-----------------------------------------------------------------------------

(* Descriptors, open files and working directories hold the references they *)
(* are counted for, and calls that share a position use it one at a time.   *)
DescriptorInv == part = "files" => Open!FdInv /\ Open!SeekInv

(* A block or inode has one owner and the counts agree with the bitmaps,    *)
(* and an inode's record accounts for its blocks, failures included.        *)
BlocksInv == part = "blocks" => Alloc!BlockInv /\ Alloc!RecordInv

(* The entries fill every block and hold the names added, and a reader that *)
(* stops and goes on misses no entry that stays.                            *)
DirectoryInv == part = "dir" => Dir!DirInv /\ Dir!ReaddirInv


(* A probe that fails leaves no interrupt handler, window, device or        *)
(* registration behind (device.h), and an interrupt source the kernel has   *)
(* accepted is never left claimed and unserved.                             *)
DevicesInv == part = "devices" => Drv!ProbeInv /\ Drv!NoStuckSource

(* CPUs, memory, reservations and interrupt contexts are those of the       *)
(* available nodes of the tree, and nothing wraps or lies unmapped.         *)
DtbInv == part = "dtb" => Tree!CpusInv /\ Tree!MemoryInv /\ Tree!PlicInv

=============================================================================
