-------------------------------- MODULE Dtb --------------------------------
(***************************************************************************)
(* What the kernel learns from the device tree at boot: the CPUs           *)
(* (cpu_init), memory and its reservations (memblock_init) and the         *)
(* interrupt contexts (plic_init), through the scans of kernel/dtb.c.  A   *)
(* scan takes one step for each node.  The tree is chosen node by node;    *)
(* fdt_check_full has accepted it, so walking it meets no error.  A string *)
(* property is "none" when absent and "bad" when not terminated, and a     *)
(* cell holds a number below CellMod.  Any error stops the boot.           *)
(***************************************************************************)
EXTENDS Integers, FiniteSets, SequencesExt

CONSTANTS
  CellMod,             \* 2^32
  NrCpus, BootHart,    \* CONFIG_NR_CPUS, the hart kernel_main runs on
  MaxNodes,            \* bound: the nodes of a scan
  Blobs,               \* [paddr, size, full]: where the tree is, is it well formed
  Cells,               \* [ac, sc]: #address-cells and #size-cells
  CpuNodes, MemNodes, RsvNodes, \* nodes [type, status, reg, ...]
  RsvEntries,          \* ranges <<base, size>> of the memory reservation block
  RsvParents,          \* /reserved-memory: [status, ranges], or None
  Intcs,               \* entries of the PLIC's interrupts-extended: the cells and the
                       \* interrupt it names, whether intc is a CPU's, and its hart
  Plics,               \* [status, irqs, base, size], or None
  Kernel,              \* the kernel image, <<base, size>>
  Page, EnableBase, EnableStride, ContextBase, ContextStride, WordBits, MaxSources,
  None

VARIABLES
  stage,      \* the scan that is running
  seen,       \* the nodes of this scan that were visited
  cells,      \* the cell sizes that apply to them
  dtb,        \* struct dtb
  cpus, found,     \* the hart ids of cpus[]; found_boot_cpu
  memory,     \* memblock.memory
  asked,      \* the calls of memblock_reserve
  contexts, mapped, touched   \* of the PLIC: the contexts, the words mapped and used

dtbVars == <<stage, seen, cells, dtb, cpus, found, memory, asked, contexts, mapped, touched>>

MaxU64 == CellMod * CellMod - 1
ReadCells(c) == FoldLeft(LAMBDA value, cell : (value * CellMod + cell) % (MaxU64 + 1), 0, c)

\* node_available: a node is out of use only when its status says so.
Skip(n, type) == n.type \notin {type, "bad"} \/ (n.type = type /\ n.status = "disabled")
Bad(n) == n.type = "bad" \/ n.status = "bad"

\* Faulty variant: the sum may wrap around.
VisitableWrap(r) == r[2] # 0

\* visit_range: what it lets through to the caller.
Visitable(r) == r[2] # 0 /\ r[1] <= MaxU64 - r[2]

\* scan_reg: the ranges of a node.
Stride(c) == c.ac + c.sc
Ranges(reg, c) ==
  [i \in 1 .. Len(reg) \div Stride(c) |->
     LET at == (i - 1) * Stride(c)
     IN <<ReadCells(SubSeq(reg, at + 1, at + c.ac)),
          ReadCells(SubSeq(reg, at + c.ac + 1, at + Stride(c)))>>]
RegOK(reg, c) ==
  /\ c.ac \in 1 .. 2 /\ c.sc \in 1 .. 2
  /\ reg # None /\ reg # <<>> /\ Len(reg) % Stride(c) = 0
  /\ \A i \in DOMAIN Ranges(reg, c) : Visitable(Ranges(reg, c)[i])

-----------------------------------------------------------------------------

DtbInit ==
  /\ stage = "dtb" /\ seen = <<>> /\ cells = None /\ dtb = None
  /\ cpus = <<BootHart>> /\ found = FALSE /\ memory = None /\ asked = <<>>
  /\ contexts = <<>> /\ mapped = {} /\ touched = {}

\* Every error ends in panic; what was learnt no longer matters.
Halt ==
  /\ stage' = "halt" /\ seen' = <<>> /\ cells' = None /\ dtb' = None
  /\ cpus' = <<BootHart>> /\ found' = FALSE /\ memory' = None /\ asked' = <<>>
  /\ contexts' = <<>> /\ mapped' = {} /\ touched' = {}

Enter(s, c) == stage' = s /\ seen' = <<>> /\ cells' = c
Stay == UNCHANGED <<stage, cells>>
Visit(n) == Len(seen) < MaxNodes /\ seen' = Append(seen, n) /\ Stay

\* dtb_init, then the checks before the loop of dtb_scan_cpus.
Check(blob, c) ==
  /\ stage = "dtb"
  /\ IF /\ blob.paddr % 2 = 0 /\ blob.full /\ blob.paddr <= MaxU64 - blob.size
        /\ c.ac \in 1 .. 2 /\ c.sc = 0
     THEN /\ Enter("cpus", c) /\ dtb' = <<blob.paddr, blob.size>>
          /\ UNCHANGED <<cpus, found, memory, asked, contexts, mapped, touched>>
     ELSE Halt

Hart(n) == ReadCells(n.reg)

\* Faulty variant: a hart that is listed twice becomes two CPUs.
KnownNever(hart) == FALSE

Known(hart) == hart \in {cpus[i] : i \in 2 .. Len(cpus)}

\* One node of dtb_scan_cpus, with register_cpu.
ScanCpu(n) ==
  /\ stage = "cpus" /\ UNCHANGED <<dtb, memory, asked, contexts, mapped, touched>>
  /\ Visit(n)
  /\ \/ Skip(n, "cpu") /\ UNCHANGED <<cpus, found>>
     \/ /\ ~Skip(n, "cpu") /\ ~Bad(n) /\ n.riscv
        /\ n.reg # None /\ Len(n.reg) = cells.ac
        /\ \/ Hart(n) = cpus[1] /\ ~found /\ found' = TRUE /\ UNCHANGED cpus
           \/ /\ Hart(n) # cpus[1] /\ ~Known(Hart(n)) /\ UNCHANGED found
              /\ cpus' = IF Len(cpus) = NrCpus THEN cpus ELSE Append(cpus, Hart(n))

ScanCpuFails(n) ==
  /\ stage = "cpus" /\ Len(seen) < MaxNodes /\ ~Skip(n, "cpu")
  /\ \/ Bad(n) \/ ~n.riscv \/ n.reg = None
     \/ ~Bad(n) /\ n.riscv /\ n.reg # None /\ Len(n.reg) # cells.ac
     \/ /\ ~Bad(n) /\ n.riscv /\ n.reg # None /\ Len(n.reg) = cells.ac
        /\ (Hart(n) = cpus[1] /\ found) \/ (Hart(n) # cpus[1] /\ Known(Hart(n)))
  /\ Halt

\* The end of cpu_init; c holds for the root and its memory nodes.
CpusDone(c) ==
  /\ stage = "cpus"
  /\ IF found
     THEN Enter("memory", c) /\ UNCHANGED <<dtb, cpus, found, memory, asked, contexts, mapped, touched>>
     ELSE Halt

\* Faulty variant: a later range replaces the first one.
FirstRangeAny(ranges) == TRUE

\* register_memory accepts one range for the whole tree.
FirstRange(ranges) == memory = None /\ Len(ranges) = 1

ScanMemory(n) ==
  /\ stage = "memory" /\ Len(seen) < MaxNodes
  /\ IF Skip(n, "memory") THEN Visit(n) /\ UNCHANGED memory
     ELSE /\ ~Bad(n) /\ RegOK(n.reg, cells) /\ FirstRange(Ranges(n.reg, cells))
          /\ Visit(n) /\ memory' = Last(Ranges(n.reg, cells))
  /\ UNCHANGED <<dtb, cpus, found, asked, contexts, mapped, touched>>

ScanMemoryFails(n) ==
  /\ stage = "memory" /\ Len(seen) < MaxNodes /\ ~Skip(n, "memory")
  /\ ~(~Bad(n) /\ RegOK(n.reg, cells) /\ FirstRange(Ranges(n.reg, cells)))
  /\ Halt

MemoryDone ==
  /\ stage = "memory"
  /\ IF memory = None THEN Halt
     ELSE Enter("entries", cells) /\ UNCHANGED <<dtb, cpus, found, memory, asked, contexts, mapped, touched>>

\* dtb_scan_reserved: the reservation block first.  memblock_reserve fails
\* when its table is full (module Memblock), which stops the boot.
ReserveEntry(r) ==
  /\ stage = "entries"
  /\ \/ /\ Visitable(r) /\ Visit([status |-> "entry", range |-> r]) /\ asked' = Append(asked, <<r, FALSE>>)
        /\ UNCHANGED <<dtb, cpus, found, memory, contexts, mapped, touched>>
     \/ Len(seen) < MaxNodes /\ Halt

\* The two ranges that memblock_init adds at its end.
OwnRanges == <<<<dtb, FALSE>>, <<Kernel, FALSE>>>>

Reserved ==
  /\ stage' = "reserved" /\ asked' = asked \o OwnRanges
  /\ UNCHANGED <<seen, cells, dtb, cpus, found, memory, contexts, mapped, touched>>

OpenReserved(p, c) ==
  /\ stage = "entries"
  /\ \/ p = None /\ Reserved
     \/ p # None /\ p.status = "disabled" /\ Reserved
     \/ /\ p # None /\ p.status \in {"none", "okay"} /\ p.ranges = "empty" /\ c = cells
        /\ stage' = "nodes" /\ UNCHANGED <<seen, cells, dtb, cpus, found, memory, asked,
                                          contexts, mapped, touched>>
     \/ /\ p # None /\ p.status # "disabled"
        /\ p.status = "bad" \/ p.ranges # "empty" \/ c # cells
        /\ Halt

\* Faulty variant: no-map is lost on the way.
WithMapNever(n, ranges) == [i \in DOMAIN ranges |-> <<ranges[i], FALSE>>]

WithMap(n, ranges) == [i \in DOMAIN ranges |-> <<ranges[i], n.nomap = "yes">>]

ScanReserved(n) ==
  /\ stage = "nodes" /\ Visit(n)
  /\ \/ n.status = "disabled" /\ UNCHANGED asked
     \/ /\ n.status \in {"none", "okay"} /\ n.nomap # "bad" /\ RegOK(n.reg, cells)
        /\ asked' = asked \o WithMap(n, Ranges(n.reg, cells))
  /\ UNCHANGED <<dtb, cpus, found, memory, contexts, mapped, touched>>

ScanReservedFails(n) ==
  /\ stage = "nodes" /\ n.status # "disabled"
  /\ n.status = "bad" \/ n.nomap = "bad" \/ ~RegOK(n.reg, cells)
  /\ Halt

NodesDone == stage = "nodes" /\ Reserved

-----------------------------------------------------------------------------
(* plic_init.                                                              *)

\* Its own node: status, riscv,ndev and the size of its registers.
OpenPlic(p) ==
  /\ stage = "reserved"
  /\ IF /\ p # None /\ p.status = "okay" /\ p.irqs \in 1 .. MaxSources - 1
        /\ p.base % Page = 0 /\ p.size # 0
     THEN /\ Enter("plic", p) /\ asked' = <<>> /\ memory' = None /\ dtb' = None
          /\ contexts' = [i \in DOMAIN cpus |-> None]
          /\ UNCHANGED <<cpus, found, mapped, touched>>
     ELSE Halt

Owner(hart) == {i \in DOMAIN cpus : cpus[i] = hart}

\* Faulty variant: entries of other modes count as well.
IgnoredNever(e) == FALSE

\* Only the external interrupt of S-mode makes a context.
Ignored(e) == e.irq # "SEI"

\* One entry of plic_contexts: its context has the index of the entry.
ScanIntc(e) ==
  /\ stage = "plic" /\ e.cells = 1
  /\ Visit(e)
  /\ \/ Ignored(e) /\ UNCHANGED contexts
     \/ /\ ~Ignored(e) /\ e.intc
        /\ \A i \in Owner(e.hart) : contexts[i] = None
        /\ contexts' = [i \in DOMAIN cpus |-> IF i \in Owner(e.hart) THEN Len(seen) ELSE contexts[i]]
  /\ UNCHANGED <<dtb, cpus, found, memory, asked, mapped, touched>>

ScanIntcFails(e) ==
  /\ stage = "plic" /\ Len(seen) < MaxNodes
  /\ \/ e.cells # 1
     \/ ~Ignored(e) /\ (~e.intc \/ \E i \in Owner(e.hart) : contexts[i] # None)
  /\ Halt

Down(x) == (x \div Page) * Page
Up(x) == Down(x + Page - 1)

\* Faulty variant: the last context's enable words are not covered.
EnableEndLast(top) == EnableBase + top * EnableStride

EnableEnd(top) == EnableBase + (top + 1) * EnableStride

\* The three areas of plic_init: priorities, enable words, the boot CPU's context.
Areas ==
  LET C == {contexts[i] : i \in DOMAIN contexts}
      control == ContextBase + contexts[1] * ContextStride
  IN {<<0, cells.irqs + 1>>, <<EnableBase + Min(C) * EnableStride, EnableEnd(Max(C))>>,
      <<control, control + 2>>}
EnableWords(c) ==
  LET at == EnableBase + c * EnableStride
  IN at .. at + (cells.irqs + WordBits) \div WordBits - 1

PlicDone ==
  /\ stage = "plic" /\ seen # <<>>
  /\ IF /\ \A i \in DOMAIN contexts : contexts[i] # None
        /\ \A a \in Areas : Up(a[2]) <= cells.size
     THEN /\ stage' = "up" /\ UNCHANGED <<seen, cells, dtb, cpus, found, memory, asked, contexts>>
          /\ mapped' = UNION {Down(a[1]) .. Up(a[2]) - 1 : a \in Areas}
          /\ touched' = UNION {EnableWords(contexts[i]) : i \in DOMAIN contexts}
                        \cup 1 .. cells.irqs
                        \cup {ContextBase + contexts[1] * ContextStride + w : w \in 0 .. 1}
     ELSE Halt

DtbNext ==
  \/ \E b \in Blobs, c \in Cells : Check(b, c)
  \/ \E n \in CpuNodes : ScanCpu(n) \/ ScanCpuFails(n)
  \/ \E c \in Cells : CpusDone(c)
  \/ \E n \in MemNodes : ScanMemory(n) \/ ScanMemoryFails(n)
  \/ MemoryDone
  \/ \E r \in RsvEntries : ReserveEntry(r)
  \/ \E p \in RsvParents, c \in Cells : OpenReserved(p, c)
  \/ \E n \in RsvNodes : ScanReserved(n) \/ ScanReservedFails(n)
  \/ NodesDone
  \/ \E p \in Plics : OpenPlic(p)
  \/ \E e \in Intcs : ScanIntc(e) \/ ScanIntcFails(e)
  \/ PlicDone

DtbSpec == DtbInit /\ [][DtbNext]_dtbVars

-----------------------------------------------------------------------------

InUse(type) == SelectSeq(seen, LAMBDA n : n.type = type /\ n.status # "disabled")

(* The CPUs are the harts of the available cpu nodes, the boot hart first  *)
(* and the others in the order of the tree, each once, up to the capacity  *)
(* of cpus[] (register_cpu).                                               *)
CpusInv ==
  stage = "cpus" =>
    LET harts == [i \in DOMAIN InUse("cpu") |-> Hart(InUse("cpu")[i])]
        others == SelectSeq(harts, LAMBDA h : h # BootHart)
    IN /\ IsInjective(cpus)
       /\ found = (BootHart \in {harts[i] : i \in DOMAIN harts})
       /\ cpus = <<BootHart>> \o SubSeq(others, 1, Min({Len(others), NrCpus - 1}))

(* Memory is the one range of the one available memory node and does not   *)
(* wrap, and every range in use of the reservation block and of            *)
(* /reserved-memory reaches memblock_reserve with its no-map flag; none of *)
(* what reaches it wraps.                                                  *)
MemoryInv ==
  /\ stage = "memory" =>
       LET nodes == InUse("memory") IN
       IF nodes = <<>> THEN memory = None
       ELSE Len(nodes) = 1 /\ Ranges(nodes[1].reg, cells) = <<memory>>
  /\ memory # None => memory[1] + memory[2] <= MaxU64
  /\ stage = "reserved" =>
       \A i \in DOMAIN seen :
         LET n == seen[i] IN
         IF n.status = "entry" THEN \E a \in DOMAIN asked : asked[a] = <<n.range, FALSE>>
         ELSE n.status # "disabled" =>
                \A j \in DOMAIN Ranges(n.reg, cells) :
                  \E a \in DOMAIN asked : asked[a] = <<Ranges(n.reg, cells)[j], n.nomap = "yes">>
  /\ \A a \in DOMAIN asked : asked[a][1][1] + asked[a][1][2] <= MaxU64

(* Once plic_init has succeeded every CPU has the S-mode context of its    *)
(* own hart, no two CPUs share enable words, and each register the driver  *)
(* touches lies in an area it mapped.                                      *)
PlicInv ==
  stage = "up" =>
    /\ \A i \in DOMAIN cpus :
         LET e == seen[contexts[i] + 1] IN e.irq = "SEI" /\ e.hart = cpus[i]
    /\ \A i, j \in DOMAIN cpus :
         i # j => EnableWords(contexts[i]) \cap EnableWords(contexts[j]) = {}
    /\ touched \subseteq mapped
=============================================================================
