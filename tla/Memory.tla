------------------------------- MODULE Memory -------------------------------
(***************************************************************************)
(* Kernel memory from boot to kfree: the boot reservations (Memblock), the *)
(* page descriptors, the buddy allocator that takes over what is not       *)
(* reserved (mm/page.c, mm/buddy.c) and the slab caches above it           *)
(* (mm/slub.c).                                                            *)
(*                                                                         *)
(* buddy_lock is held over the whole of alloc_pages and free_pages, so     *)
(* each is one step.  cache_alloc drops the cache lock to get a new slab   *)
(* and kfree drops it before it gives an empty slab back; those are steps  *)
(* of their own, and any CPU may come in between.  The order of a free     *)
(* list is left out: any block of the order may be the first one.          *)
(***************************************************************************)
EXTENDS Memblock, FiniteSetsExt

CONSTANTS
  MaxOrder,    \* CONFIG_MAX_ORDER
  MaxRefs,     \* bound on the references of one block
  MaxHeld,     \* bound on the blocks allocated when a caller asks for more
  Cpus,        \* the contexts that allocate
  Objects,     \* objects[c] of each kmem_cache c
  None

Caches == DOMAIN Objects
Orders == 0 .. MaxOrder - 1

MemoryAssumption == MaxOrder \in Nat \ {0} /\ \A c \in Caches : Objects[c] \in Nat \ {0}

VARIABLES
  phase,    \* "boot" until buddy_init
  free,     \* PG_BUDDY heads: the set of <<pfn, order>> on the free lists
  held,     \* PG_ALLOCATED heads: pfn -> [order, refs, use]
  slab,     \* page->slab of the PG_SLAB pages: pfn -> [cache, freelist, inuse]
  partial,  \* cache->partial, a sequence of pages
  full,     \* cache->full
  owned,    \* history: the objects that callers hold, <<pfn, number>>
  op        \* what each CPU is in the middle of

buddyVars == <<free, held>>
slabVars == <<slab, partial, full, owned, op>>
memVars == <<memblockVars, phase, buddyVars, slabVars>>

Idle == [at |-> "idle", cache |-> None, page |-> None]

MemInit ==
  /\ MemblockInit
  /\ phase = "boot"
  /\ free = {} /\ held = <<>> /\ slab = <<>>
  /\ partial = [c \in Caches |-> <<>>] /\ full = [c \in Caches |-> {}]
  /\ owned = {}
  /\ op = [x \in Cpus |-> Idle]

-----------------------------------------------------------------------------
(* page_init: the whole pages of RAM have descriptors.                     *)

MinPfn == AlignUp(MemBase, PageUnits) \div PageUnits
MaxPfn == MemEnd \div PageUnits
Pfns == MinPfn .. MaxPfn - 1

Block(p, o) == p .. p + 2^o - 1

-----------------------------------------------------------------------------
(* buddy_init: what no region touches is released.                         *)

\* Faulty variant: the page in which a region ends is not kept.
LastPfnDown(r) == r.end \div PageUnits

LastPfn(r) == AlignUp(r.end, PageUnits) \div PageUnits

\* release_range: the largest aligned blocks that fit, from start on.
Blocks(start, end) ==
  LET Fits(p, o) == p % 2^o = 0 /\ 2^o <= end - p
      f[p \in start .. end] ==
        IF p = end THEN {}
        ELSE LET o == Max({k \in Orders : Fits(p, k)}) IN {<<p, o>>} \cup f[p + 2^o]
  IN IF start < end THEN f[start] ELSE {}

\* The walk over the sorted, possibly overlapping reservations.
Released ==
  LET n == Len(reserved)
      walk[i \in 1 .. n + 1, start \in MinPfn .. MaxPfn] ==
        IF i = n + 1 THEN Blocks(start, MaxPfn)
        ELSE LET first == reserved[i].base \div PageUnits
                 last == LastPfn(reserved[i])
             IN IF last <= start THEN walk[i + 1, start]
                ELSE IF first >= MaxPfn THEN Blocks(start, MaxPfn)
                ELSE Blocks(start, first) \cup walk[i + 1, Min({last, MaxPfn})]
  IN walk[1, MinPfn]

\* buddy_init; the reservations are not looked at again.
BuddyInit ==
  /\ phase = "boot" /\ MinPfn < MaxPfn
  /\ phase' = "run"
  /\ free' = Released
  /\ reserved' = <<>> /\ claimed' = [nm \in BOOLEAN |-> {}]
  /\ UNCHANGED <<held, slabVars>>

-----------------------------------------------------------------------------
(* alloc_pages and free_pages.                                             *)

\* The upper halves that are put back when block b is split down to order o.
Split(b, o) == {<<b[1] + 2^k, k>> : k \in o .. b[2] - 1}

\* The smallest order that has a block serves the request.
Candidates(o) ==
  LET up == {b \in free : b[2] >= o} IN {b \in up : \A d \in up : b[2] <= d[2]}

AllocPages(o, use, b) ==
  /\ b \in Candidates(o)
  /\ free' = (free \ {b}) \cup Split(b, o)
  /\ held' = held @@ (b[1] :> [order |-> o, refs |-> 1, use |-> use])

\* Faulty variant: a buddy of any order is merged.
MergeableAny(p, o) == \E d \in free : d[1] = p

Mergeable(p, o) == <<p, o>> \in free

\* The buddy of a block differs from it in bit o of the number.
Buddy(p, o) == IF (p \div 2^o) % 2 = 0 THEN p + 2^o ELSE p - 2^o

\* merge_block: the blocks that go and the one that comes.
Merge(p, o) ==
  LET f[q \in Pfns, k \in Orders] ==
        IF k + 1 < MaxOrder /\ Mergeable(Buddy(q, k), k)
        THEN f[Min({q, Buddy(q, k)}), k + 1] ELSE <<q, k>>
      m == f[p, o]
  IN {d \in free : d[1] \notin Block(m[1], m[2])} \cup {m}

\* The head, its order, its flags and the references of the block must agree.
AllocatedBlock(p, o, use) == p \in DOMAIN held /\ held[p].order = o /\ held[p].use = use

\* free_pages drops one reference; the last one gives the block back.
FreePages(p) ==
  IF held[p].refs > 1
  THEN held' = [held EXCEPT ![p].refs = @ - 1] /\ UNCHANGED free
  ELSE /\ held' = [q \in DOMAIN held \ {p} |-> held[q]]
       /\ free' = Merge(p, held[p].order)

\* A caller takes, shares (refcount_inc of a page mapped twice) or drops pages.
TakePages ==
  /\ phase = "run" /\ Cardinality(DOMAIN held) < MaxHeld
  /\ \E o \in Orders : \E b \in Candidates(o) : AllocPages(o, "pages", b)
  /\ UNCHANGED <<memblockVars, phase, slabVars>>

SharePages ==
  /\ phase = "run"
  /\ \E p \in DOMAIN held :
       /\ held[p].use = "pages" /\ held[p].refs < MaxRefs
       /\ held' = [held EXCEPT ![p].refs = @ + 1]
  /\ UNCHANGED <<memblockVars, phase, free, slabVars>>

DropPages ==
  /\ phase = "run"
  /\ \E p \in Pfns, o \in Orders : AllocatedBlock(p, o, "pages") /\ FreePages(p)
  /\ UNCHANGED <<memblockVars, phase, slabVars>>

-----------------------------------------------------------------------------
(* kmalloc and kfree.  A large allocation is a PG_KMALLOC block of pages.  *)

KmallocLarge ==
  /\ phase = "run" /\ Cardinality(DOMAIN held) < MaxHeld
  /\ \E o \in Orders \ {0} : \E b \in Candidates(o) : AllocPages(o, "kmalloc", b)
  /\ UNCHANGED <<memblockVars, phase, slabVars>>

KfreeLarge ==
  /\ phase = "run"
  /\ \E p \in DOMAIN held : held[p].use = "kmalloc" /\ FreePages(p)
  /\ UNCHANGED <<memblockVars, phase, slabVars>>

\* cache_alloc from the first partial page, under the cache lock.
TakeObject(c, pages, slabs) ==
  LET p == Head(pages)
      rest == Tail(slabs[p].freelist)
  IN /\ owned' = owned \cup {<<p, Head(slabs[p].freelist)>>}
     /\ slab' = [slabs EXCEPT ![p].freelist = rest, ![p].inuse = @ + 1]
     /\ partial' = [partial EXCEPT ![c] = IF rest = <<>> THEN Tail(pages) ELSE pages]
     /\ full' = IF rest = <<>> THEN [full EXCEPT ![c] = @ \cup {p}] ELSE full

\* cache_alloc: with no partial page the lock is dropped to make one.
CacheAlloc(x, c) ==
  /\ phase = "run" /\ op[x].at = "idle" /\ Cardinality(DOMAIN held) < MaxHeld
  /\ IF partial[c] = <<>>
     THEN /\ op' = [op EXCEPT ![x] = [Idle EXCEPT !.at = "new", !.cache = c]]
          /\ UNCHANGED <<slab, partial, full, owned>>
     ELSE TakeObject(c, partial[c], slab) /\ UNCHANGED op
  /\ UNCHANGED <<memblockVars, phase, buddyVars>>

\* new_slab, with no lock of the cache held; without memory the call fails.
NewSlab(x) ==
  /\ op[x].at = "new"
  /\ IF Candidates(0) = {}
     THEN op' = [op EXCEPT ![x] = Idle] /\ UNCHANGED <<buddyVars, slab>>
     ELSE \E b \in Candidates(0) :
            /\ AllocPages(0, "slab", b)
            /\ slab' = slab @@ (b[1] :> [cache |-> op[x].cache, inuse |-> 0,
                                         freelist |-> [i \in 1 .. Objects[op[x].cache] |-> i]])
            /\ op' = [op EXCEPT ![x].at = "add", ![x].page = b[1]]
  /\ UNCHANGED <<memblockVars, phase, partial, full, owned>>

\* Faulty variant: the new slab replaces the list seen before the lock was dropped.
WithNewOnly(c, p) == <<p>>

WithNew(c, p) == <<p>> \o partial[c]

\* The lock is taken again; the new slab goes to the head and serves the call.
AddSlab(x) ==
  /\ op[x].at = "add"
  /\ TakeObject(op[x].cache, WithNew(op[x].cache, op[x].page), slab)
  /\ op' = [op EXCEPT ![x] = Idle]
  /\ UNCHANGED <<memblockVars, phase, buddyVars>>

\* kfree of a small object: to the head of the freelist of its slab.  A full page
\* becomes partial, an empty one leaves the list and is given back after the unlock.
Kfree(x) ==
  /\ op[x].at = "idle"
  /\ \E obj \in owned :
       LET p == obj[1]
           c == slab[p].cache
           pages == IF slab[p].inuse = Objects[c] THEN Append(partial[c], p) ELSE partial[c]
           empty == slab[p].inuse = 1
       IN /\ owned' = owned \ {obj}
          /\ slab' = [slab EXCEPT ![p].freelist = <<obj[2]>> \o @, ![p].inuse = @ - 1]
          /\ full' = [full EXCEPT ![c] = @ \ {p}]
          /\ partial' = [partial EXCEPT ![c] = IF empty THEN Remove(pages, p) ELSE pages]
          /\ op' = IF empty THEN [op EXCEPT ![x] = [Idle EXCEPT !.at = "put", !.page = p]]
                   ELSE op
  /\ UNCHANGED <<memblockVars, phase, buddyVars>>

\* The rest of kfree: the page is no slab any more and goes back to the buddy.
PutSlab(x) ==
  /\ op[x].at = "put"
  /\ slab' = [q \in DOMAIN slab \ {op[x].page} |-> slab[q]]
  /\ FreePages(op[x].page)
  /\ op' = [op EXCEPT ![x] = Idle]
  /\ UNCHANGED <<memblockVars, phase, partial, full, owned>>

MemNext ==
  \/ phase = "boot" /\ (MemblockReserve \/ EarlyAlloc)
       /\ UNCHANGED <<phase, buddyVars, slabVars>>
  \/ BuddyInit
  \/ TakePages \/ SharePages \/ DropPages \/ KmallocLarge \/ KfreeLarge
  \/ \E x \in Cpus :
       \/ \E c \in Caches : CacheAlloc(x, c)
       \/ NewSlab(x) \/ AddSlab(x) \/ Kfree(x) \/ PutSlab(x)

MemSpec == MemInit /\ [][MemNext]_memVars

-----------------------------------------------------------------------------
FreePfns == UNION {Block(b[1], b[2]) : b \in free}

MemTypeOK ==
  /\ phase \in {"boot", "run"}
  /\ free \subseteq Pfns \X Orders
  /\ \A p \in DOMAIN held :
       held[p] \in [order : Orders, refs : 1 .. MaxRefs, use : {"pages", "slab", "kmalloc"}]
  /\ \A x \in Cpus : op[x].at \in {"idle", "new", "add", "put"}

\* page_init keeps the metadata and the kernel out of buddy's hands: buddy_init
\* releases exactly the whole pages that no reservation touches, in aligned blocks,
\* although reservations may overlap and end inside a page.
ReleaseInv ==
  phase = "boot" =>
    /\ UNION {Block(b[1], b[2]) : b \in Released} =
         {p \in Pfns : p * PageUnits .. (p + 1) * PageUnits - 1
                         \cap (claimed[TRUE] \cup claimed[FALSE]) = {}}
    /\ \A b, d \in Released : b # d => Block(b[1], b[2]) \cap Block(d[1], d[2]) = {}

\* Under any sequence of splits and merges no page is in two blocks, every block is
\* aligned to its size, and alloc_pages fails only when memory is too scattered: an
\* aligned run of free pages of some order always lies in a free block.
BuddyInv ==
  LET heads == free \cup {<<p, held[p].order>> : p \in DOMAIN held}
  IN /\ MemTypeOK
     /\ \A b, d \in heads : b # d => Block(b[1], b[2]) \cap Block(d[1], d[2]) = {}
     /\ \A b \in heads : b[1] % 2^b[2] = 0 /\ Block(b[1], b[2]) \subseteq Pfns
     /\ \A p \in Pfns, o \in Orders :
          p % 2^o = 0 /\ Block(p, o) \subseteq FreePfns
            => \E b \in free : Block(p, o) \subseteq Block(b[1], b[2])

\* kmalloc and kfree on several CPUs: an object is never handed out twice, a slab
\* is given back only when nobody holds an object of it, and each slab is on the
\* list its use calls for, or in the hands of one CPU.
SlabInv ==
  /\ \A p \in DOMAIN slab :
       LET s == slab[p]
           mine == {i \in 1 .. Objects[s.cache] : <<p, i>> \in owned}
       IN /\ p \in DOMAIN held /\ held[p].use = "slab" /\ held[p].refs = 1
          /\ IsInjective(s.freelist) /\ ToSet(s.freelist) \cap mine = {}
          /\ Len(s.freelist) + s.inuse = Objects[s.cache] /\ s.inuse = Cardinality(mine)
          /\ p \in full[s.cache] <=> s.freelist = <<>>
          /\ p \in ToSet(partial[s.cache]) <=>
               s.freelist # <<>> /\ ~\E x \in Cpus : op[x].page = p
  /\ \A obj \in owned : obj[1] \in DOMAIN slab
  /\ \A c \in Caches : IsInjective(partial[c])
=============================================================================
