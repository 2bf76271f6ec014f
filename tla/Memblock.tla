------------------------------ MODULE Memblock ------------------------------
(***************************************************************************)
(* Boot memory, mm/memblock.c: the sorted list of reserved regions, merged *)
(* when regions of one kind touch, and the first-fit early_alloc over the  *)
(* gaps.  Addresses are counted in units, PageUnits of them to a page, so  *)
(* that a region can begin or end inside a page.  A region is kept with    *)
(* its end; the code keeps its size.                                       *)
(***************************************************************************)
EXTENDS Integers, SequencesExt

CONSTANTS
  PageUnits,        \* PAGE_SIZE
  MemBase, MemEnd,  \* memblock.memory
  MaxAddr,          \* UINT64_MAX
  MaxReserved,      \* MEMBLOCK_MAX_RESERVED
  Requests,         \* the [base, size, nomap] that the device tree may reserve
  Sizes, Aligns     \* the arguments of early_alloc

MemblockAssumption ==
  /\ PageUnits \in Nat \ {0} /\ MaxReserved \in Nat \ {0}
  /\ MemBase \in Nat /\ MemEnd \in Nat /\ MemBase < MemEnd /\ MemEnd <= MaxAddr
  /\ Requests \subseteq [base : Nat, size : Nat, nomap : BOOLEAN]
  /\ Sizes \subseteq Nat \ {0} /\ Aligns \subseteq Nat \ {0}

VARIABLES
  reserved,   \* memblock.reserved
  claimed     \* history: the units of each kind that were asked for

memblockVars == <<reserved, claimed>>

MemblockInit == reserved = <<>> /\ claimed = [nm \in BOOLEAN |-> {}]

AlignUp(x, a) == ((x + a - 1) \div a) * a
Units(r) == r.base .. r.end - 1
Region(base, size, nomap) == [base |-> base, end |-> base + size, nomap |-> nomap]

-----------------------------------------------------------------------------
(* memblock_reserve.                                                       *)

\* Faulty variant: only regions that overlap are merged.
TouchesOverlap(r, x) == r.nomap = x.nomap /\ r.base < x.end /\ r.end > x.base

Touches(r, x) == r.nomap = x.nomap /\ r.base <= x.end /\ r.end >= x.base

\* The first pass: x grows over the regions of its kind that it touches, n of them.
Grow(x) ==
  FoldLeft(LAMBDA acc, r :
             IF Touches(r, acc.x)
             THEN [x |-> [acc.x EXCEPT !.base = Min({@, r.base}), !.end = Max({@, r.end})],
                   n |-> acc.n + 1]
             ELSE acc,
           [x |-> x, n |-> 0], reserved)

\* Faulty variant: the new region goes to the end of the list.
PlaceLast(kept, x) == Append(kept, x)

\* Before the first region that does not start below it.
Place(kept, x) ==
  InsertAt(kept, 1 + Cardinality({i \in 1 .. Len(kept) :
                                    \A j \in 1 .. i : kept[j].base < x.base}), x)

\* -EINVAL, -EOVERFLOW and -ENOSPC leave the list alone.
Reservable(base, size, nomap) ==
  /\ size > 0 /\ size <= MaxAddr - base
  /\ Len(reserved) - Grow(Region(base, size, nomap)).n # MaxReserved

\* The second pass drops what the grown region covers and puts that region in.
DoReserve(base, size, nomap) ==
  LET x == Grow(Region(base, size, nomap)).x
  IN /\ Reservable(base, size, nomap)
     /\ reserved' = Place(SelectSeq(reserved, LAMBDA r : ~Touches(r, x)), x)
     /\ claimed' = [claimed EXCEPT ![nomap] = @ \cup base .. base + size - 1]

-----------------------------------------------------------------------------
(* early_alloc.                                                            *)

\* Faulty variant: the end of a region is taken without aligning it again.
GapBaseRaw(b, align) == b

\* The start of the next candidate; MemEnd stands for -ENOMEM.
GapBase(b, align) == IF align - 1 > MaxAddr - b THEN MemEnd ELSE AlignUp(b, align)

\* The address early_alloc finds, going over the regions from MemBase; -1 is -ENOMEM.
FindGap(size, align) ==
  LET n == Len(reserved)
      f[i \in 1 .. n + 1, b \in 0 .. MaxAddr] ==
        LET a == GapBase(b, align) IN
        IF b >= MemEnd \/ a >= MemEnd \/ size > MemEnd - a THEN -1
        ELSE IF i = n + 1 THEN a
        ELSE IF reserved[i].end <= a THEN f[i + 1, a]
        ELSE IF reserved[i].base >= a + size THEN a
        ELSE f[i + 1, reserved[i].end]
  IN f[1, MemBase]

AllocSize(size) == AlignUp(size, PageUnits)
AllocAlign(align) == Max({align, PageUnits})
EarlyAddr(size, align) == FindGap(AllocSize(size), AllocAlign(align))

\* register_reserved for a range of the device tree, or memblock_init for the blob
\* and the kernel image.
MemblockReserve ==
  \E q \in Requests : DoReserve(q.base, q.size, q.nomap)

EarlyAlloc ==
  \E size \in Sizes, align \in Aligns :
    /\ EarlyAddr(size, align) >= 0
    /\ DoReserve(EarlyAddr(size, align), AllocSize(size), FALSE)

-----------------------------------------------------------------------------
\* The list has the right shape and never more regions than it has room for.
MemblockTypeOK ==
  /\ reserved \in Seq([base : Nat, end : Nat, nomap : BOOLEAN])
  /\ Len(reserved) <= MaxReserved

\* memblock_reserve keeps the list sorted by base, which early_alloc and buddy_init
\* rely on; two regions of one kind never overlap or touch; and after any sequence
\* of merges the regions cover exactly what was asked for.
RegionInv ==
  /\ MemblockTypeOK
  /\ \A i, j \in 1 .. Len(reserved) : i < j =>
       /\ reserved[i].base <= reserved[j].base
       /\ reserved[i].nomap = reserved[j].nomap => reserved[i].end < reserved[j].base
  /\ \A nm \in BOOLEAN :
       claimed[nm] = UNION {Units(r) : r \in {q \in ToSet(reserved) : q.nomap = nm}}

\* What early_alloc finds is aligned memory that nobody has reserved, and it finds
\* some whenever there is any.
EarlyInv ==
  \A size \in Sizes, align \in Aligns :
    LET n == AllocSize(size)
        Fits(a) == /\ a % AllocAlign(align) = 0 /\ a >= MemBase /\ a + n <= MemEnd
                   /\ (a .. a + n - 1) \cap (claimed[TRUE] \cup claimed[FALSE]) = {}
        a == EarlyAddr(size, align)
    IN IF a >= 0 THEN Fits(a) ELSE ~\E b \in MemBase .. MemEnd : Fits(b)
=============================================================================
