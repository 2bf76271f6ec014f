------------------------------ MODULE MCMemory ------------------------------
(***************************************************************************)
(* Instances of the memory side for TLC: boot memory, pages and slabs      *)
(* (Memory), page tables and TLBs (Paging), the layout of an address space *)
(* (Vma), the tree that stores it (Rbtree) and what execve builds (Exec).  *)
(* Each behaviour is one component's; the others' variables keep a value   *)
(* that means nothing.                                                     *)
(***************************************************************************)
EXTENDS TLC

CONSTANTS Parts, PageUnits, MemBase, MemEnd, MaxAddr, MaxReserved, Requests,
  Sizes, Aligns, MaxOrder, MaxRefs, MaxHeld, Cpus, Objects, None, Mms, VPages,
  Frames, Rights, Batch, MaxUsers, AreaStart, UvEnd, StackBottom, StackTop,
  Flags, Segments, Addrs, Lens, Keys, Page, Word, Align, UvStart, Bottom, Top,
  EhSize, PhSize, U64, I64, Lengths, MaxStrings, Ehdrs, Phdrs

VARIABLE part    \* the component this behaviour is about

VARIABLES
  reserved, claimed, phase, free, held, slab, partial, full, owned, op,
  prot, pte, refs, tlb, loaded, urefs, mmRefs, fault,
  vmas, startBrk, brk, want,
  tree, members,
  pc, argv, envp, ptrs, bytes, image, stack

Mem == INSTANCE Memory
Pag == INSTANCE Paging WITH op <- fault
Area == INSTANCE Vma WITH UvStart <- AreaStart
Rb == INSTANCE Rbtree
Exe == INSTANCE Exec

ASSUME Mem!MemblockAssumption
ASSUME Mem!MemoryAssumption

MemVars == <<reserved, claimed, phase, free, held, slab, partial, full, owned,
    op>>
PagVars == <<prot, pte, refs, tlb, loaded, urefs, mmRefs, fault>>
AreaVars == <<vmas, startBrk, brk, want>>
RbVars == <<tree, members>>
ExeVars == <<pc, argv, envp, ptrs, bytes, image, stack>>
vars == <<part, MemVars, PagVars, AreaVars, RbVars, ExeVars>>

\* What the device tree reserves: ranges that touch, overlap and leave memory.
DtRequests == {[base |-> 0, size |-> 3, nomap |-> FALSE], [base |-> 3, size |-> 2, nomap |-> FALSE],
               [base |-> 2, size |-> 3, nomap |-> TRUE], [base |-> 11, size |-> 8, nomap |-> TRUE]}
CacheObjects == <<2, 1>>

Seg(vaddr, memsz, filesz, offset, flags) ==
  [vaddr |-> vaddr, memsz |-> memsz, filesz |-> filesz, offset |-> offset, flags |-> flags]
ElfSegments == {Seg(3, 5, 4, 1, {"R"}), Seg(4, 2, 0, 2, {"R", "W"}), Seg(8, 2, 1, 6, {"R", "W"})}

Eh(type, entry, phoff, num) == [type |-> type, entry |-> entry, phoff |-> phoff, num |-> num]
SomeEhdrs == {Eh("EXEC", 9, 2, 1), Eh("EXEC", 9, 2, 2), Eh("DYN", 1, 2, 2), Eh("EXEC", 13, 4, 2),
              Eh("DYN", 1, 1, 1)}
Ph(type, flags, off, vaddr, filesz, memsz) ==
  [type |-> type, flags |-> flags, off |-> off, vaddr |-> vaddr, filesz |-> filesz,
   memsz |-> memsz, align |-> IF type = "LOAD" THEN 4 ELSE 1]
RX == {"R", "X"}
RW == {"R", "W"}
SomePhdrs ==
  {Ph("LOAD", RX, 0, 8, 4, 4), Ph("LOAD", RX, 0, 8, 6, 6), Ph("LOAD", RW, 2, 14, 1, 3),
   Ph("LOAD", RW, 4, 12, 4, 4), Ph("LOAD", {"X"}, 0, 8, 4, 4), Ph("LOAD", RX, 0, 0, 6, 6),
   Ph("LOAD", RX, 0, 12, 6, 8), Ph("LOAD", {"R"}, 1, 5, 2, 1), Ph("LOAD", RW, 0, 24, 0, 4),
   Ph("LOAD", {"R"}, 1, 31, 1, 1), Ph("LOAD", RX, 0, 0, 3, 4), Ph("PHDR", {"R"}, 2, 10, 4, 4),
   Ph("STACK", RW, 0, 0, 0, 0), Ph("STACK", {"X"}, 0, 0, 0, 0), Ph("INTERP", {}, 0, 0, 0, 0)}

\* The variables of a component that is not the one that runs.
MemIdle == reserved = 0 /\ claimed = 0 /\ phase = 0 /\ free = 0 /\ held = 0
    /\ slab = 0 /\ partial = 0 /\ full = 0 /\ owned = 0 /\ op = 0
PagIdle == prot = 0 /\ pte = 0 /\ refs = 0 /\ tlb = 0 /\ loaded = 0
    /\ urefs = 0 /\ mmRefs = 0 /\ fault = 0
AreaIdle == vmas = 0 /\ startBrk = 0 /\ brk = 0 /\ want = 0
RbIdle == tree = 0 /\ members = 0
ExeIdle == pc = 0 /\ argv = 0 /\ envp = 0 /\ ptrs = 0 /\ bytes = 0
    /\ image = 0 /\ stack = 0

Init ==
  /\ part \in Parts
  /\ IF part = "memory" THEN Mem!MemInit ELSE MemIdle
  /\ IF part = "paging" THEN Pag!PagingInit ELSE PagIdle
  /\ IF part = "vma" THEN Area!VmaInit ELSE AreaIdle
  /\ IF part = "rbtree" THEN Rb!RbInit ELSE RbIdle
  /\ IF part = "exec" THEN Exe!ExecInit ELSE ExeIdle

MemStep == part = "memory" /\ Mem!MemNext /\ UNCHANGED <<part, PagVars,
    AreaVars, RbVars, ExeVars>>
PagStep == part = "paging" /\ Pag!PagingNext /\ UNCHANGED <<part, MemVars,
    AreaVars, RbVars, ExeVars>>
AreaStep == part = "vma" /\ Area!VmaNext /\ UNCHANGED <<part, MemVars,
    PagVars, RbVars, ExeVars>>
RbStep == part = "rbtree" /\ Rb!RbNext /\ UNCHANGED <<part, MemVars, PagVars,
    AreaVars, ExeVars>>
ExeStep == part = "exec" /\ Exe!ExecNext /\ UNCHANGED <<part, MemVars,
    PagVars, AreaVars, RbVars>>

\* The end of execve, and a full address space or tree, may have no successor.
Stopped == part \in {"vma", "exec", "rbtree"} /\ UNCHANGED vars

Next == MemStep \/ PagStep \/ AreaStep \/ RbStep \/ ExeStep \/ Stopped

Spec == Init /\ [][Next]_vars

Symmetry == Permutations(Cpus) \cup Permutations(Mms) \cup Permutations(Frames)

-----------------------------------------------------------------------------

(* Boot memory: the reserved regions are exactly what was asked for, sorted *)
(* and merged, early_alloc gives free aligned memory, and the page          *)
(* allocator then gets every page that is wholly free and no other.  From   *)
(* then on its blocks are aligned, disjoint and merged as far as they go,   *)
(* no page is both free and held, and every object of a slab is free once   *)
(* or owned once, on the lists of its cache, when two CPUs allocate and    *)
(* free around the unlock in cache_alloc.                                   *)
MemoryInv == part = "memory" =>
  Mem!RegionInv /\ Mem!EarlyInv /\ Mem!ReleaseInv /\ Mem!BuddyInv /\ Mem!SlabInv

(* A page frame is referenced as often as it is mapped or in use, and no    *)
(* CPU can reach through its TLB a frame that was given back, or write      *)
(* through it to a frame that is shared.                                    *)
PagingInv == part = "paging" => Pag!RefInv /\ Pag!TlbInv

(* The areas of an address space are those its calls asked for, and a free  *)
(* range is found when there is one.                                        *)
LayoutInv == part = "vma" => Area!LayoutInv /\ Area!SearchInv

(* The tree of areas and timers stays an ordered, balanced tree.            *)
RbtreeInv == part = "rbtree" => Rb!RbInv

(* An accepted image can be mapped, and a new program finds its arguments.  *)
ExecInv == part = "exec" => Exe!ImageInv /\ Exe!ArgumentsInv
=============================================================================
