--------------------------------- MODULE Vma ---------------------------------
(***************************************************************************)
(* The layout of one address space: the VMAs and the calls that change it  *)
(* (mm/vma.c, mm/mmap.c, load_segments of kernel/execve.c).  Each call     *)
(* holds mmap_lock throughout, so it is one step; any vma_alloc in it may  *)
(* fail.  The tree of VMAs is the set of its nodes (module Rbtree has the  *)
(* tree).  Addresses are counted in units, PageUnits of them to a page.    *)
(***************************************************************************)
EXTENDS Integers, FiniteSets, FiniteSetsExt

CONSTANTS
  PageUnits,              \* PAGE_SIZE
  UvStart, UvEnd,         \* UVADDR_START, UVADDR_END
  StackBottom, StackTop,  \* USTACK_BOTTOM, USTACK_TOP
  Flags,                  \* the vm_flags in use
  Segments,               \* PT_LOAD segments: [vaddr, memsz, filesz, offset, flags]
  Addrs, Lens,            \* addresses and lengths that are asked for
  None

VARIABLES
  vmas,      \* mm->vma_tree
  startBrk, brk,
  want       \* history: what every unit of the address space is, or None

vmaVars == <<vmas, startBrk, brk, want>>

User == UvStart .. UvEnd - 1
Down(a) == (a \div PageUnits) * PageUnits
Up(a) == Down(a + PageUnits - 1)
Aligned(a) == a % PageUnits = 0

-----------------------------------------------------------------------------
(* The tree operations.                                                    *)

\* vma_find
Find(V, a) == {x \in V : x.start <= a /\ a < x.end}

\* vma_find_intersection returns the lowest of these
Meets(V, s, e) == {x \in V : x.start < e /\ s < x.end}

\* vma_insert: -EINVAL or -EEXIST otherwise
Insertable(V, s, e) ==
  /\ s >= UvStart /\ e <= UvEnd /\ s < e /\ Aligned(s) /\ Aligned(e)
  /\ Meets(V, s, e) = {}

Anon(s, e, flags) ==
  [start |-> s, end |-> e, flags |-> flags, file |-> FALSE, off |-> 0, fs |-> 0, fe |-> 0]

\* Faulty variant: the right part keeps the offset of the whole.
RightOffSame(x, a) == x.off

RightOff(x, a) == IF x.file THEN x.off + (a - x.start) ELSE x.off

\* vma_split
Left(x, a) ==
  [x EXCEPT !.end = a, !.fs = IF x.file THEN Min({a, @}) ELSE @,
                       !.fe = IF x.file THEN Min({a, @}) ELSE @]
Right(x, a) ==
  [x EXCEPT !.start = a, !.off = RightOff(x, a),
            !.fs = IF x.file THEN Max({a, @}) ELSE @, !.fe = IF x.file THEN Max({a, @}) ELSE @]

SplitAt(V, a) ==
  LET hit == {x \in Find(V, a) : x.start < a}
  IN (V \ hit) \cup UNION {{Left(x, a), Right(x, a)} : x \in hit}

\* split_range: at start, then at end.  -ENOMEM of either allocation changes nothing.
SplitRange(s, e) == SplitAt(SplitAt(vmas, s), e)

\* unmap_range: every VMA that meets the range goes, once the ends are split off.
Unmapped(s, e) == SplitRange(s, e) \ Meets(SplitRange(s, e), s, e)

\* protect_range goes up to the first hole; -ENOMEM there leaves what it did.
FirstHole(s, e) == Min({e} \cup {a \in s .. e - 1 : Find(vmas, a) = {}})
Protected(s, e, flags) ==
  LET V == SplitRange(s, e)
      hit == Meets(V, s, FirstHole(s, e))
  IN (V \ hit) \cup {[x EXCEPT !.flags = flags] : x \in hit}

-----------------------------------------------------------------------------
(* What a unit is: rights and the place of its first contents, a position  *)
(* of the file or zero.  handle_page_fault reads the file from the page's  *)
(* first file-backed unit on.                                              *)

\* Faulty variant: the position is counted from the page.
FilePosPage(x, a) == x.off + Down(a) - x.start

FilePos(x, a) == x.off + a - x.start

View(V, a) ==
  LET hit == Find(V, a) IN
  IF hit = {} THEN None
  ELSE LET x == CHOOSE y \in hit : TRUE
       IN [flags |-> x.flags,
           src |-> IF x.file /\ x.fs <= a /\ a < x.fe THEN FilePos(x, a) ELSE -1]

Set(s, e, val) == want' = [a \in User |-> IF a \in s .. e - 1 THEN val ELSE want[a]]

-----------------------------------------------------------------------------
(* sys_mmap and its search.                                                *)

\* The stack and its guard page stay out of reach of everybody else.
RangeAllowed(s, e) ==
  /\ s >= UvStart /\ e <= StackTop
  /\ e <= StackBottom - PageUnits \/ s >= StackBottom

\* range_end: an error for everything that is not a page-aligned range of the user's.
RangeOK(s, len) ==
  /\ Aligned(s) /\ len > 0 /\ s < UvEnd /\ Up(len) <= UvEnd - s
  /\ RangeAllowed(s, s + Up(len))

\* Faulty variant: the gap below a VMA is taken without looking at its length.
GapBigAny(top, end, len) == end < top

GapBig(top, end, len) == end <= top /\ len <= top - end

\* find_unmapped: the hint, or else the highest gap below the stack's guard page; 0
\* is -ENOMEM.  f goes down over the VMAs.
FindUnmapped(hint, len) ==
  LET f[V \in SUBSET vmas, top \in 0 .. UvEnd] ==
        IF V = {} THEN IF len <= top - UvStart THEN top - len ELSE 0
        ELSE LET x == CHOOSE y \in V : \A z \in V : z.start <= y.start
             IN IF x.start >= top THEN f[V \ {x}, top]
                ELSE IF GapBig(top, x.end, len) THEN top - len
                ELSE f[V \ {x}, x.start]
      h == Down(hint)
  IN IF h < UvEnd /\ len <= UvEnd - h /\ RangeAllowed(h, h + len) /\ Meets(vmas, h, h + len) = {}
     THEN h ELSE f[vmas, StackBottom - PageUnits]

SysMmap(addr, len, flags, fixed) ==
  LET n == Up(len)
      at == IF fixed THEN addr ELSE FindUnmapped(addr, n)
  IN /\ len > 0 /\ (fixed => RangeOK(addr, n)) /\ at # 0
     /\ vmas' = (IF fixed THEN Unmapped(at, at + n) ELSE vmas) \cup {Anon(at, at + n, flags)}
     /\ Set(at, at + n, [flags |-> flags, src |-> -1])
     /\ UNCHANGED <<startBrk, brk>>

SysMunmap(addr, len) ==
  /\ RangeOK(addr, len)
  /\ vmas' = Unmapped(addr, addr + Up(len))
  /\ Set(addr, addr + Up(len), None)
  /\ UNCHANGED <<startBrk, brk>>

SysMprotect(addr, len, flags) ==
  LET e == addr + Up(len)
      h == FirstHole(addr, e)
  IN /\ RangeOK(addr, len)
     /\ vmas' = Protected(addr, e, flags)
     /\ want' = [a \in User |-> IF a \in addr .. h - 1 THEN [want[a] EXCEPT !.flags = flags]
                                ELSE want[a]]
     /\ UNCHANGED <<startBrk, brk>>

\* Growing fails over anything mapped, shrinking unmaps whatever is there; the
\* break itself need not be aligned.
SysBrk(addr) ==
  LET s == Up(brk)
      e == Up(addr)
  IN /\ addr >= startBrk /\ addr <= StackBottom - PageUnits
     /\ IF e > s
        THEN /\ Meets(vmas, s, e) = {} /\ Insertable(vmas, s, e)
             /\ vmas' = vmas \cup {Anon(s, e, {"R", "W"})}
             /\ Set(s, e, [flags |-> {"R", "W"}, src |-> -1])
        ELSE IF e < s THEN vmas' = Unmapped(e, s) /\ Set(e, s, None)
        ELSE UNCHANGED <<vmas, want>>
     /\ brk' = addr
     /\ UNCHANGED startBrk

\* split_range without memory for a node: the split at the start happens only when
\* both nodes are there, so nothing changes (sys_mmap keeps nothing either).

-----------------------------------------------------------------------------
(* A new image: load_segments over the PT_LOAD headers, then the stack.    *)

Loaded(segs) ==
  {LET s == Down(g.vaddr)
   IN [start |-> s, end |-> Up(g.vaddr + g.memsz), flags |-> g.flags, file |-> g.filesz > 0,
       off |-> IF g.filesz > 0 THEN g.offset + s - g.vaddr ELSE 0,
       fs |-> IF g.filesz > 0 THEN g.vaddr ELSE 0,
       fe |-> IF g.filesz > 0 THEN g.vaddr + g.filesz ELSE 0] : g \in segs}

\* check_layout: in bounds, congruent with the file, in order and apart.
LayoutOK(segs) ==
  \A g \in segs :
    /\ g.memsz > 0 /\ g.vaddr >= UvStart /\ g.vaddr + g.memsz <= StackBottom - PageUnits
    /\ g.vaddr % PageUnits = g.offset % PageUnits
    /\ \A h \in segs : h.vaddr < g.vaddr => Up(h.vaddr + h.memsz) <= Down(g.vaddr)

\* What the headers ask for, unit by unit: the file over [vaddr, vaddr + filesz), and
\* the rest of the pages zero.
Asked(segs, a) ==
  LET hit == {g \in segs : Down(g.vaddr) <= a /\ a < Up(g.vaddr + g.memsz)}
  IN IF a \in StackBottom .. StackTop - 1 THEN [flags |-> {"R", "W"}, src |-> -1]
     ELSE IF hit = {} THEN None
     ELSE LET g == CHOOSE h \in hit : TRUE
          IN [flags |-> g.flags,
              src |-> IF g.vaddr <= a /\ a < g.vaddr + g.filesz THEN g.offset + a - g.vaddr ELSE -1]

VmaInit ==
  \E segs \in SUBSET Segments :
    /\ LayoutOK(segs)
    /\ vmas = Loaded(segs) \cup {Anon(StackBottom, StackTop, {"R", "W"})}
    /\ startBrk = Max({0} \cup {x.end : x \in Loaded(segs)})
    /\ brk = startBrk
    /\ want = [a \in User |-> Asked(segs, a)]

VmaNext ==
  \/ \E addr \in Addrs, len \in Lens :
       \/ \E flags \in Flags, fixed \in BOOLEAN : SysMmap(addr, len, flags, fixed)
       \/ SysMunmap(addr, len)
       \/ \E flags \in Flags : SysMprotect(addr, len, flags)
  \/ \E addr \in Addrs : SysBrk(addr)

VmaSpec == VmaInit /\ [][VmaNext]_vmaVars

-----------------------------------------------------------------------------
\* VMAs are page-aligned, in bounds and never overlap, and however they were split
\* and unmapped they amount to a map of single units: an operation changes what its
\* range is, and every other unit keeps its rights and its place in the file.  This
\* is what vma_split, unmap_range and protect_range must preserve.
LayoutInv ==
  /\ \A x \in vmas : Insertable(vmas \ {x}, x.start, x.end)
  /\ \A a \in User : View(vmas, a) = want[a]

\* find_unmapped returns a free range that a user may have, and finds one below the
\* stack whenever there is one.
SearchInv ==
  \A hint \in Addrs, len \in {Up(n) : n \in Lens} :
    LET Fits(a) == Aligned(a) /\ RangeAllowed(a, a + len) /\ Meets(vmas, a, a + len) = {}
        r == FindUnmapped(hint, len)
    IN IF r # 0 THEN Fits(r)
       ELSE ~\E a \in User : a + len <= StackBottom - PageUnits /\ Fits(a)
=============================================================================
