------------------------------- MODULE Paging -------------------------------
(***************************************************************************)
(* Address spaces as the hardware sees them: page tables, copy on write,   *)
(* TLBs and the references that keep frames and roots alive                *)
(* (arch/riscv/pgtable.c, mm/page_fault.c, mm/mm.c, mm/tlb.c and the       *)
(* range operations of mm/vma.c).                                          *)
(*                                                                         *)
(* The VMAs appear as the rights of each page (module Vma shows that they  *)
(* amount to that).  An operation that takes mmap_lock runs in steps; op   *)
(* is the one in progress on an address space.  The processors go on       *)
(* reading the tables meanwhile, and a TLB may cache any entry it finds.   *)
(***************************************************************************)
EXTENDS Integers, FiniteSets, FiniteSetsExt, TLC

CONSTANTS
  Cpus, Mms, VPages, Frames, None,
  Rights,     \* the vm_flags in use, subsets of {"R", "W"}
  Batch,      \* UNMAP_BATCH_PAGES
  MaxUsers    \* bound on the tasks that share an address space

VARIABLES
  prot,    \* vm_flags of the VMA that covers a page; None in a hole
  pte,     \* leaf entries: None or [frame, w, none]
  refs,    \* page->refcount of each frame; 0 is free
  tlb,     \* per CPU: the cached [v, frame, w] of the address space it has loaded
  loaded,  \* rq->active_mm
  urefs,   \* mm->urefs
  mmRefs,  \* mm->refs; 0 is an mm that does not exist
  op       \* the operation that holds mmap_lock

pagingVars == <<prot, pte, refs, tlb, loaded, urefs, mmRefs, op>>

\* held: frames to free once the CPUs in left have flushed; page: a new frame, not yet mapped
NoOp == [at |-> "none", v |-> None, todo |-> {}, flags |-> {}, page |-> None,
         held |-> {}, left |-> {}, chg |-> FALSE, dst |-> None]

PagingInit ==
  /\ prot = [m \in Mms |-> [v \in VPages |-> None]]
  /\ pte = [m \in Mms |-> [v \in VPages |-> None]]
  /\ refs = [f \in Frames |-> 0]
  /\ tlb = [c \in Cpus |-> {}]
  /\ loaded = [c \in Cpus |-> None]
  /\ urefs = [m \in Mms |-> 0] /\ mmRefs = [m \in Mms |-> 0]
  /\ op = [m \in Mms |-> NoOp]

-----------------------------------------------------------------------------
(* Entries.                                                                *)

\* vma_to_pte: no right at all is a present entry the hardware cannot use.
Entry(f, flags) == [frame |-> f, w |-> "W" \in flags, none |-> flags = {}]

Present(m, v) == pte[m][v] # None
Valid(m, v) == Present(m, v) /\ ~pte[m][v].none

\* What free_page does to one reference of each frame of F.
Put(F) == [f \in Frames |-> IF f \in F THEN refs[f] - 1 ELSE refs[f]]

Ready(m) == urefs[m] > 0 /\ op[m] = NoOp

-----------------------------------------------------------------------------
(* The processors.                                                         *)

\* A TLB may load a valid entry of the loaded tables at any time; what it has
\* cached it keeps until it is flushed.
TlbFill(c, v) ==
  /\ loaded[c] # None /\ Valid(loaded[c], v)
  /\ \A e \in tlb[c] : e.v # v
  /\ tlb' = [tlb EXCEPT ![c] = @ \cup {[v |-> v, frame |-> pte[loaded[c]][v].frame,
                                        w |-> pte[loaded[c]][v].w]}]
  /\ UNCHANGED <<prot, pte, refs, loaded, urefs, mmRefs, op>>

\* One CPU of flush_tlb_all, the local fence or a remote one.
FlushCpu(m) ==
  /\ op[m].at = "flush"
  /\ \E c \in op[m].left :
       /\ tlb' = [tlb EXCEPT ![c] = {}]
       /\ op' = [op EXCEPT ![m].left = @ \ {c}]
  /\ UNCHANGED <<prot, pte, refs, loaded, urefs, mmRefs>>

\* Faulty variant: the flush reaches the CPU that asks for it only.
FlushSetLocal(m) == {c \in Cpus : loaded[c] = m /\ \A d \in Cpus : loaded[d] = m => d = c}

FlushSet(m) == Cpus

Flush(o, m) == [o EXCEPT !.at = "flush", !.left = FlushSet(m)]

\* All CPUs have answered: what was unmapped is freed, and the operation goes on
\* with the next batch or ends.
FlushDone(m) ==
  /\ op[m].at = "flush" /\ op[m].left = {}
  /\ refs' = Put(op[m].held)
  /\ op' = IF op[m].dst # None
           THEN [op EXCEPT ![m] = NoOp, ![op[m].dst] = NoOp]
           ELSE [op EXCEPT ![m] = IF op[m].todo = {} THEN NoOp
                                  ELSE [@ EXCEPT !.at = "unmap", !.held = {}]]
  /\ UNCHANGED <<prot, pte, tlb, loaded, urefs, mmRefs>>

-----------------------------------------------------------------------------
(* Lifetime: mm_alloc, mm_get, mm_put, mm_grab, mm_drop, switch_mm.        *)

\* mm_alloc for a task or an image that is being made.
MmAlloc(m) ==
  /\ mmRefs[m] = 0
  /\ urefs' = [urefs EXCEPT ![m] = 1] /\ mmRefs' = [mmRefs EXCEPT ![m] = 1]
  /\ UNCHANGED <<prot, pte, refs, tlb, loaded, op>>

\* clone with CLONE_VM.
MmGet(m) ==
  /\ Ready(m) /\ urefs[m] < MaxUsers
  /\ urefs' = [urefs EXCEPT ![m] = @ + 1]
  /\ UNCHANGED <<prot, pte, refs, tlb, loaded, mmRefs, op>>

\* pgtable_free for the address spaces that have lost their last reference.
PgtableFree(gone) ==
  /\ pte' = [m \in Mms |-> IF m \in gone THEN [v \in VPages |-> None] ELSE pte[m]]
  /\ refs' = [f \in Frames |->
       refs[f] - Cardinality({x \in gone \X VPages :
                                pte[x[1]][x[2]] # None /\ pte[x[1]][x[2]].frame = f})]

\* mm_put, then mm_drop when it was the last user; a CPU that has the mm loaded
\* keeps the tables.
MmPut(m) ==
  /\ Ready(m)
  /\ urefs' = [urefs EXCEPT ![m] = @ - 1]
  /\ IF urefs[m] > 1 THEN UNCHANGED <<prot, mmRefs, pte, refs>>
     ELSE /\ prot' = [prot EXCEPT ![m] = [v \in VPages |-> None]]
          /\ mmRefs' = [mmRefs EXCEPT ![m] = @ - 1]
          /\ PgtableFree(IF mmRefs[m] = 1 THEN {m} ELSE {})
  /\ UNCHANGED <<tlb, loaded, op>>

\* Faulty variant: the scheduler takes no reference for the root it loads.
GrabNothing(m) == 0

Grab(m) == IF m = None THEN 0 ELSE 1

\* sched_prepare_switch to a task of m (None: a kernel task), or switch_mm: grab the
\* new root, load it with a full local flush, drop the old one afterwards.
SwitchMm(c, m) ==
  /\ m # loaded[c] /\ (m # None => urefs[m] > 0 /\ op[m].at # "child")
  /\ loaded' = [loaded EXCEPT ![c] = m]
  /\ tlb' = [tlb EXCEPT ![c] = {}]
  /\ LET old == loaded[c]
         grabbed == IF m = None THEN mmRefs ELSE [mmRefs EXCEPT ![m] = @ + Grab(m)]
     IN IF old = None THEN mmRefs' = grabbed /\ UNCHANGED <<pte, refs>>
        ELSE /\ mmRefs' = [grabbed EXCEPT ![old] = @ - Grab(old)]
             /\ PgtableFree(IF mmRefs[old] = 1 THEN {old} ELSE {})
  /\ UNCHANGED <<prot, urefs, op>>

-----------------------------------------------------------------------------
(* Mapping and page faults.                                                *)

\* A VMA appears over a hole (sys_mmap, brk, exec).
MapPage(m, v, flags) ==
  /\ Ready(m) /\ prot[m][v] = None
  /\ prot' = [prot EXCEPT ![m][v] = flags]
  /\ UNCHANGED <<pte, refs, tlb, loaded, urefs, mmRefs, op>>

\* Faulty variant: a shared page is made writable in place.
ExclusiveAny(m, v) == TRUE

\* handle_page_fault sees that nobody else maps the frame.
Exclusive(m, v) == refs[pte[m][v].frame] = 1

\* handle_page_fault on a page without an entry: a new frame is filled and mapped.
FaultIn(m, v) ==
  /\ Ready(m) /\ prot[m][v] \notin {None, {}} /\ ~Valid(m, v)
  /\ \E f \in {g \in Frames : refs[g] = 0} :
       IF Present(m, v) THEN UNCHANGED <<pte, refs, op>>      \* -EEXIST: the frame is freed
       ELSE /\ refs' = [refs EXCEPT ![f] = 1]
            /\ pte' = [pte EXCEPT ![m][v] = Entry(f, prot[m][v])]
            /\ op' = [op EXCEPT ![m] = Flush(NoOp, m)]
  /\ UNCHANGED <<prot, tlb, loaded, urefs, mmRefs>>

\* A write fault on a mapped page: a sole owner gets its right back, a sharer
\* allocates a frame for the copy.
FaultWrite(m, v) ==
  /\ Ready(m) /\ prot[m][v] = {"R", "W"} /\ Valid(m, v)
  /\ IF Exclusive(m, v)
     THEN /\ pte' = [pte EXCEPT ![m][v].w = TRUE]
          /\ op' = [op EXCEPT ![m] = Flush(NoOp, m)]
          /\ UNCHANGED refs
     ELSE \E f \in {g \in Frames : refs[g] = 0} :
            /\ refs' = [refs EXCEPT ![f] = 1]
            /\ op' = [op EXCEPT ![m] = [NoOp EXCEPT !.at = "copy", !.v = v, !.page = f]]
            /\ UNCHANGED pte
  /\ UNCHANGED <<prot, tlb, loaded, urefs, mmRefs>>

\* Faulty variant: the old frame is dropped before the flush.
CopyHeldNone(f) == {}

CopyHeld(f) == {f}

\* The copy is made: the old entry is taken out, the new one put in, the TLBs are
\* flushed, and the old frame loses its reference last.
FaultRemap(m) ==
  /\ op[m].at = "copy"
  /\ LET v == op[m].v
         old == pte[m][v].frame
         keep == CopyHeld(old)
     IN /\ pte' = [pte EXCEPT ![m][v] = Entry(op[m].page, prot[m][v])]
        /\ op' = [op EXCEPT ![m] = [Flush(NoOp, m) EXCEPT !.held = keep]]
        /\ refs' = Put({old} \ keep)
  /\ UNCHANGED <<prot, tlb, loaded, urefs, mmRefs>>

-----------------------------------------------------------------------------
(* unmap_range, protect_range and mm_clone, a page at a time.              *)

UnmapRange(m, S) ==
  /\ Ready(m) /\ S # {}
  /\ prot' = [prot EXCEPT ![m] = [v \in VPages |-> IF v \in S THEN None ELSE @[v]]]
  /\ op' = [op EXCEPT ![m] = [NoOp EXCEPT !.at = "unmap", !.todo = {v \in S : Present(m, v)}]]
  /\ UNCHANGED <<pte, refs, tlb, loaded, urefs, mmRefs>>

\* pgtable_unmap_page; a full batch, or the last one, is flushed before it is freed.
UnmapStep(m) ==
  /\ op[m].at = "unmap"
  /\ IF op[m].todo = {} THEN op' = [op EXCEPT ![m] = NoOp] /\ UNCHANGED pte
     ELSE \E v \in op[m].todo :
            LET o == [op[m] EXCEPT !.todo = @ \ {v}, !.held = @ \cup {pte[m][v].frame}]
            IN /\ pte' = [pte EXCEPT ![m][v] = None]
               /\ op' = [op EXCEPT ![m] = IF o.todo = {} \/ Cardinality(o.held) = Batch
                                          THEN Flush(o, m) ELSE o]
  /\ UNCHANGED <<prot, refs, tlb, loaded, urefs, mmRefs>>

ProtectRange(m, S, flags) ==
  /\ Ready(m) /\ S # {} /\ \A v \in S : prot[m][v] # None
  /\ op' = [op EXCEPT ![m] = [NoOp EXCEPT !.at = "protect", !.todo = S, !.flags = flags]]
  /\ UNCHANGED <<prot, pte, refs, tlb, loaded, urefs, mmRefs>>

\* pgtable_protect_page: the right to write only to a sole owner.
ProtectStep(m) ==
  /\ op[m].at = "protect"
  /\ IF op[m].todo = {}
     THEN /\ op' = [op EXCEPT ![m] = IF op[m].chg THEN Flush(NoOp, m) ELSE NoOp]
          /\ UNCHANGED <<prot, pte>>
     ELSE \E v \in op[m].todo :
            LET e == Entry(pte[m][v].frame, op[m].flags)
            IN /\ prot' = [prot EXCEPT ![m][v] = op[m].flags]
               /\ pte' = IF ~Present(m, v) THEN pte
                         ELSE [pte EXCEPT ![m][v] = [e EXCEPT !.w = @ /\ Exclusive(m, v)]]
               /\ op' = [op EXCEPT ![m].todo = @ \ {v}, ![m].chg = @ \/ Present(m, v)]
  /\ UNCHANGED <<refs, tlb, loaded, urefs, mmRefs>>

\* clone without CLONE_VM: a new mm with the same VMAs, then pgtable_clone.
MmClone(m, d) ==
  /\ Ready(m) /\ mmRefs[d] = 0
  /\ urefs' = [urefs EXCEPT ![d] = 1] /\ mmRefs' = [mmRefs EXCEPT ![d] = 1]
  /\ prot' = [prot EXCEPT ![d] = prot[m]]
  /\ op' = [op EXCEPT ![m] = [NoOp EXCEPT !.at = "clone", !.dst = d,
                                          !.todo = {v \in VPages : Present(m, v)}],
                      ![d] = [NoOp EXCEPT !.at = "child"]]
  /\ UNCHANGED <<pte, refs, tlb, loaded>>

\* Faulty variant: the parent keeps its right to write.
CloneEntryW(e) == e

CloneEntry(e) == [e EXCEPT !.w = FALSE]

\* One leaf: the parent loses the right to write, the child gets the same entry and
\* the frame a reference.  The walk ends with a flush, early when memory runs out.
CloneStep(m) ==
  /\ op[m].at = "clone"
  /\ \/ /\ \E v \in op[m].todo :
             LET e == CloneEntry(pte[m][v])
             IN /\ pte' = [pte EXCEPT ![m][v] = e, ![op[m].dst][v] = e]
                /\ refs' = [refs EXCEPT ![e.frame] = @ + 1]
                /\ op' = [op EXCEPT ![m].todo = @ \ {v}]
     \/ /\ op' = [op EXCEPT ![m] = Flush([@ EXCEPT !.todo = {}], m)]
        /\ UNCHANGED <<pte, refs>>
  /\ UNCHANGED <<prot, tlb, loaded, urefs, mmRefs>>

PagingNext ==
  \/ \E c \in Cpus :
       \/ \E v \in VPages : TlbFill(c, v)
       \/ \E m \in Mms \cup {None} : SwitchMm(c, m)
  \/ \E m \in Mms :
       \/ MmAlloc(m) \/ MmGet(m) \/ MmPut(m)
       \/ \E v \in VPages :
            \/ FaultIn(m, v) \/ FaultWrite(m, v)
            \/ \E flags \in Rights : MapPage(m, v, flags)
       \/ \E S \in SUBSET VPages :
            \/ UnmapRange(m, S)
            \/ \E flags \in Rights : ProtectRange(m, S, flags)
       \/ \E d \in Mms : MmClone(m, d)
       \/ FaultRemap(m) \/ UnmapStep(m) \/ ProtectStep(m) \/ CloneStep(m)
       \/ FlushCpu(m) \/ FlushDone(m)

PagingSpec == PagingInit /\ [][PagingNext]_pagingVars

-----------------------------------------------------------------------------
Maps(f) == {x \in Mms \X VPages : pte[x[1]][x[2]] # None /\ pte[x[1]][x[2]].frame = f}

PagingTypeOK ==
  /\ refs \in [Frames -> Nat] /\ urefs \in [Mms -> 0 .. MaxUsers] /\ mmRefs \in [Mms -> Nat]
  /\ prot \in [Mms -> [VPages -> Rights \cup {None}]]
  /\ loaded \in [Cpus -> Mms \cup {None}]

\* The counts that decide when memory is freed are exact: a frame has one reference
\* for each entry and each operation that has taken it, an mm one for its users
\* together and one for each CPU that has loaded it; and no entry grants more than
\* its VMA.  page_fault, unmap_range, pgtable_clone and switch_mm keep them so.
RefInv ==
  /\ PagingTypeOK
  /\ \A f \in Frames :
       refs[f] = Cardinality(Maps(f))
                 + Cardinality({m \in Mms : f \in op[m].held})
                 + Cardinality({m \in Mms : op[m].page = f})
  /\ \A m \in Mms :
       /\ mmRefs[m] = (IF urefs[m] > 0 THEN 1 ELSE 0) + Cardinality({c \in Cpus : loaded[c] = m})
       /\ \A v \in VPages : Ready(m) /\ Present(m, v) =>
            /\ prot[m][v] # None /\ (pte[m][v].none <=> prot[m][v] = {})
            /\ pte[m][v].w => "W" \in prot[m][v]

\* Copy on write and stale TLB entries: no CPU can reach a frame that has been freed;
\* whoever can write a frame, through its tables or a TLB, is alone in mapping it
\* (a TLB that a fork has not flushed yet excepted); and when no operation is in
\* progress the TLBs say no more than the tables.
TlbInv ==
  /\ \A m \in Mms, v \in VPages : Present(m, v) /\ pte[m][v].w => Cardinality(Maps(pte[m][v].frame)) = 1
  /\ \A c \in Cpus : \A e \in tlb[c] :
       LET m == loaded[c] IN
       /\ m # None /\ mmRefs[m] > 0 /\ refs[e.frame] > 0
       /\ e.w => Cardinality(Maps(e.frame)) <= 1 \/ op[m].dst # None
       /\ op[m] = NoOp /\ urefs[m] > 0 =>
            Valid(m, e.v) /\ pte[m][e.v].frame = e.frame /\ (e.w => pte[m][e.v].w)
=============================================================================
