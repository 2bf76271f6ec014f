----------------------------- MODULE Ext2Blocks -----------------------------
(* The ext2 allocators and the block tree of an inode: fs/ext2/balloc.c,     *)
(* ialloc.c, bmap.c and the parts of inode.c and super.c that load, record   *)
(* and evict an inode.                                                       *)
(*                                                                           *)
(* A tree is edited under the mutex of its inode, so the steps of two inodes *)
(* interleave exactly at the bitmap operations, which sbi->mutex makes       *)
(* atomic.  Every mapping_get may fail with an I/O error.  A position of the *)
(* tree is the sequence of offsets that leads to it (the code's offs[]), so  *)
(* the depth-first recursions of bmap.c become an order on positions.        *)
EXTENDS Integers, Sequences, FiniteSets, FiniteSetsExt

CONSTANTS
  NDir,            \* EXT2_NDIR_BLOCKS
  Ptrs,            \* block pointers in an indirect block
  BlocksPerGroup, BlocksCount,
  Meta,            \* blocks of the bitmaps, descriptors and inode tables
  InodesPerGroup, InodesCount, FirstIno,
  Ask,             \* the logical blocks the callers of each inode ask for
  Keeps,           \* sizes, in blocks, files are cut to
  Modes,           \* kinds of inodes that are created
  MaxLost          \* blocks that I/O errors may cost

Lbns == UNION {Ask[n] : n \in DOMAIN Ask}
Blocks == 0 .. BlocksCount - 1
Inos == 1 .. InodesCount
Groups == 0 .. BlocksCount \div BlocksPerGroup
Slots == 0 .. NDir + 2

Ext2BlocksAssumption ==
  /\ NDir > 0 /\ Ptrs > 1 /\ BlocksPerGroup > 0 /\ InodesPerGroup > 0
  /\ 0 \in Meta /\ Meta \subseteq Blocks

VARIABLES
  bits,            \* blocks marked in the block bitmaps
  gfree, sfree,    \* bg_free_blocks_count, s_free_blocks_count
  ptr,             \* contents of the indirect blocks
  ibits,           \* inodes marked in the inode bitmaps
  gifree, sifree,  \* bg_free_inodes_count, s_free_inodes_count
  gdirs,           \* bg_used_dirs_count
  rec,             \* the inode table
  mem,             \* cached inodes, Absent when not in the icache
  op,              \* what the holder of each inode's mutex is doing
  newino,          \* the number and mode ext2_alloc_inode has taken
  lost             \* blocks an I/O error has left marked and unreachable

ext2Vars == <<bits, gfree, sfree, ptr, ibits, gifree, sifree, gdirs, rec, mem,
              op, newino, lost>>
blockVars == <<bits, gfree, sfree>>
inoVars == <<ibits, gifree, sifree, gdirs>>

Absent == [mode |-> "absent"]
Idle == [kind |-> "idle"]
NoData == [k \in Slots |-> 0]
NoInode == [mode |-> "none", nlink |-> 0, data |-> NoData, blocks |-> 0]
BlockGroup(b) == b \div BlocksPerGroup
InoGroup(n) == (n - 1) \div InodesPerGroup

-----------------------------------------------------------------------------
(* The position of a logical block, and the blocks a position covers. *)

\* ext2_block_to_path; the empty sequence stands for -EFBIG
Path(lbn) ==
  LET a == lbn - NDir
      b == a - Ptrs
      c == b - Ptrs * Ptrs
  IN CASE lbn < NDir -> <<lbn>>
       [] a >= 0 /\ a < Ptrs -> <<NDir, a>>
       [] b >= 0 /\ b < Ptrs * Ptrs -> <<NDir + 1, b \div Ptrs, b % Ptrs>>
       [] c >= 0 /\ c < Ptrs^3 ->
            <<NDir + 2, c \div (Ptrs * Ptrs), (c \div Ptrs) % Ptrs, c % Ptrs>>
       [] OTHER -> <<>>

Depth(k) == IF k < NDir THEN 0 ELSE k - NDir + 1

\* the parameters first and span that ext2_truncate_blocks starts with and
\* ext2_trim_branch divides on the way down
Span(p) == Ptrs^(Depth(p[1]) - (Len(p) - 1))
Base(k) == IF k < NDir THEN k
           ELSE NDir + (IF k > NDir THEN Ptrs ELSE 0) + (IF k > NDir + 1 THEN Ptrs^2 ELSE 0)
First(p) == LET F[i \in 1 .. Len(p)] ==
                  IF i = 1 THEN Base(p[1]) ELSE F[i - 1] + p[i] * Span(SubSeq(p, 1, i))
            IN F[Len(p)]

\* ext2_read_ptr
ReadPtr(b, i) == IF b = 0 THEN 0 ELSE ptr[b][i]

\* ext2_bmap and ext2_get_branch: the block at position p, 0 for a hole
Node(ino, p) ==
  LET N[i \in 1 .. Len(p)] == IF i = 1 THEN ino.data[p[1]] ELSE ReadPtr(N[i - 1], p[i])
  IN N[Len(p)]

\* the positions that hold a block
Below(ino, S) ==
  {p \in {Append(q, j) : q \in {q \in S : Len(q) <= Depth(q[1])}, j \in 0 .. Ptrs - 1} :
     Node(ino, p) # 0}
Tree(ino) ==
  LET direct == {<<k>> : k \in {k \in Slots : ino.data[k] # 0}}
      single == Below(ino, direct)
      double == Below(ino, single)
  IN direct \cup single \cup double \cup Below(ino, double)
Parent(p) == SubSeq(p, 1, Len(p) - 1)
Under(ino, p) == {q \in Tree(ino) : Len(q) >= Len(p) /\ SubSeq(q, 1, Len(p)) = p}

\* the order in which the recursions of bmap.c free blocks: the children of a
\* block from left to right, then the block
Precedes(p, q) ==
  \/ Len(p) > Len(q) /\ SubSeq(p, 1, Len(q)) = q
  \/ \E i \in 1 .. Min({Len(p), Len(q)}) :
       p[i] < q[i] /\ SubSeq(p, 1, i - 1) = SubSeq(q, 1, i - 1)
Leftmost(S) == CHOOSE p \in S : \A q \in S \ {p} : Precedes(p, q)

\* ext2_trim_branch descends into what lies beyond keep and frees a block once
\* nothing hangs below it
Beyond(p, keep) == First(p) + Span(p) > keep
Trimmable(ino, keep) ==
  LET tree == Tree(ino)
      inner == {Parent(p) : p \in tree}
  IN {p \in tree \ inner : Beyond(p, keep)}

-----------------------------------------------------------------------------
(* The bitmaps, under sbi->mutex. *)

\* the free block of the first group whose descriptor counts one, and 0 for
\* ENOSPC; the last group may be short
ClearBits(g) == {b \in Blocks \ bits : BlockGroup(b) = g}
FirstFree ==
  LET avail == {g \in Groups : g * BlocksPerGroup < BlocksCount /\ gfree[g] # 0}
      g == Min(avail)
  IN IF sfree = 0 \/ avail = {} \/ ClearBits(g) = {} THEN 0 ELSE Min(ClearBits(g))

\* Faulty variant: the superblock's count is forgotten.
UpdateGroupOnly(b, delta) ==
  gfree' = [gfree EXCEPT ![BlockGroup(b)] = @ + delta] /\ UNCHANGED sfree

\* ext2_update_free
UpdateFree(b, delta) ==
  /\ gfree' = [gfree EXCEPT ![BlockGroup(b)] = @ + delta]
  /\ sfree' = sfree + delta

TakeBlock(b) == bits' = bits \cup {b} /\ UpdateFree(b, -1)
FreeBlock(b) == bits' = bits \ {b} /\ UpdateFree(b, 1)

UpdateFreeInodes(n, mode, delta) ==
  /\ gifree' = [gifree EXCEPT ![InoGroup(n)] = @ + delta]
  /\ sifree' = sifree + delta
  /\ gdirs' = [gdirs EXCEPT ![InoGroup(n)] = IF mode = "DIR" THEN @ - delta ELSE @]

-----------------------------------------------------------------------------
Ext2Init ==
  /\ bits = Meta
  /\ gfree = [g \in Groups |-> Cardinality({b \in Blocks \ Meta : BlockGroup(b) = g})]
  /\ sfree = Cardinality(Blocks \ Meta)
  /\ ptr = [b \in Blocks |-> [i \in 0 .. Ptrs - 1 |-> 0]]
  /\ \E used \in SUBSET (FirstIno .. InodesCount) :
       /\ ibits = used \cup 1 .. FirstIno - 1
       /\ rec = [n \in Inos |-> IF n \in used
                   THEN [NoInode EXCEPT !.mode = "REG", !.nlink = 1]
                   ELSE IF n < FirstIno
                        THEN [NoInode EXCEPT !.mode = "DIR", !.nlink = 1] ELSE NoInode]
  /\ gifree = [g \in 0 .. InodesCount |->
                 Cardinality({n \in Inos \ ibits : InoGroup(n) = g})]
  /\ sifree = Cardinality(Inos \ ibits)
  /\ gdirs = [g \in 0 .. InodesCount |->
                Cardinality({n \in Inos : InoGroup(n) = g /\ rec[n].mode = "DIR"})]
  /\ mem = [n \in Inos |-> Absent]
  /\ op = [n \in Inos |-> Idle]
  /\ newino = Idle
  /\ lost = {}

Resting(n) == mem[n] # Absent /\ op[n] = Idle

\* ext2_write_inode
Record(n, ino) == rec' = [rec EXCEPT ![n] = ino]

\* an I/O error leaves blocks marked that nothing refers to
Lose(bs) == lost' = lost \cup bs /\ Cardinality(lost') <= MaxLost

\* ext2_iget of an inode that has a name: its record is copied into the cache
Iget(n) ==
  /\ mem[n] = Absent /\ rec[n].mode # "none" /\ rec[n].nlink # 0
  /\ mem' = [mem EXCEPT ![n] = rec[n]]
  /\ UNCHANGED <<blockVars, inoVars, ptr, rec, op, newino, lost>>

\* ext2_bmap_create of a hole: ext2_get_branch finds the first missing level
BmapCreate(n, lbn) ==
  LET path == Path(lbn)
      missing == {i \in 1 .. Len(path) : Node(mem[n], SubSeq(path, 1, i)) = 0}
  IN /\ Resting(n) /\ missing # {}
     /\ op' = [op EXCEPT ![n] = [kind |-> "alloc", path |-> path,
                                 level |-> Min(missing), blks |-> <<>>]]
     /\ UNCHANGED <<blockVars, inoVars, ptr, rec, mem, newino, lost>>

Need(n) == Len(op[n].path) - op[n].level + 1

\* ext2_alloc_branch, one ext2_alloc_block
AllocBranch(n) ==
  /\ op[n].kind = "alloc" /\ Len(op[n].blks) < Need(n)
  /\ FirstFree # 0
  /\ TakeBlock(FirstFree)
  /\ op' = [op EXCEPT ![n].blks = Append(@, FirstFree)]
  /\ UNCHANGED <<inoVars, ptr, rec, mem, newino, lost>>

\* no space, or a page of the new branch that cannot be had
Undo(n, blks) ==
  op' = [op EXCEPT ![n] = IF blks = <<>> THEN Idle
                          ELSE [kind |-> "undo", blks |-> blks]]
AllocFails(n) ==
  /\ op[n].kind = "alloc"
  /\ Undo(n, op[n].blks)
  /\ UNCHANGED <<blockVars, inoVars, ptr, rec, mem, newino, lost>>

\* the new indirect blocks are filled in and ext2_splice_branch hangs the
\* branch into the tree; the callers then write the inode
SpliceBranch(n) ==
  LET o == op[n]
      nr == Len(o.blks)
      at == SubSeq(o.path, 1, o.level)
      ino == [mem[n] EXCEPT !.blocks = @ + nr,
                            !.data[at[1]] = IF o.level = 1 THEN o.blks[1] ELSE @]
  IN /\ o.kind = "alloc" /\ nr = Need(n)
     /\ ptr' = [b \in Blocks |->
                  IF \E i \in 1 .. nr - 1 : o.blks[i] = b
                  THEN LET i == CHOOSE i \in 1 .. nr - 1 : o.blks[i] = b
                       IN [j \in 0 .. Ptrs - 1 |->
                             IF j = o.path[o.level + i] THEN o.blks[i + 1] ELSE 0]
                  ELSE IF o.level > 1 /\ b = Node(mem[n], Parent(at))
                       THEN [ptr[b] EXCEPT ![at[o.level]] = o.blks[1]]
                       ELSE ptr[b]]
     /\ mem' = [mem EXCEPT ![n] = ino]
     /\ Record(n, ino)
     /\ op' = [op EXCEPT ![n] = Idle]
     /\ UNCHANGED <<blockVars, inoVars, newino, lost>>

\* ext2_free_branch gives back what the failed allocation took, last first
UndoBranch(n) ==
  LET blks == op[n].blks
      b == blks[Len(blks)]
  IN /\ op[n].kind = "undo"
     /\ Undo(n, Parent(blks))
     /\ \/ FreeBlock(b) /\ UNCHANGED lost
        \/ Lose({b}) /\ UNCHANGED blockVars
     /\ UNCHANGED <<inoVars, ptr, rec, mem, newino>>

\* the logical blocks that have a block
Mapped(ino) == {l \in Lbns : Node(ino, Path(l)) # 0}

\* ext2_setsize to a smaller size starts ext2_truncate_blocks; had remembers
\* what was mapped
Truncate(n, keep) ==
  /\ Resting(n) /\ mem[n].mode = "REG"
  /\ \E l \in Mapped(mem[n]) : l >= keep
  /\ op' = [op EXCEPT ![n] = [kind |-> "trim", keep |-> keep, had |-> Mapped(mem[n])]]
  /\ UNCHANGED <<blockVars, inoVars, ptr, rec, mem, newino, lost>>

\* the pointer at position p of inode n becomes 0
Unhook(n, p, blocks) ==
  /\ mem' = [mem EXCEPT ![n].data[p[1]] = IF Len(p) = 1 THEN 0 ELSE @,
                        ![n].blocks = blocks]
  /\ ptr' = IF Len(p) = 1 THEN ptr
            ELSE [ptr EXCEPT ![Node(mem[n], Parent(p))][p[Len(p)]] = 0]

\* ext2_trim_branch frees a block and clears the pointer to it
TrimBranch(n) ==
  /\ op[n].kind = "trim"
  /\ LET todo == Trimmable(mem[n], op[n].keep)
         p == Leftmost(todo)
     IN /\ todo # {}
        /\ FreeBlock(Node(mem[n], p))
        /\ Unhook(n, p, mem[n].blocks - 1)
  /\ UNCHANGED <<inoVars, rec, op, newino, lost>>

\* Faulty variant: only a complete truncation is recorded.
RecordComplete(n, done) == IF done THEN Record(n, mem[n]) ELSE UNCHANGED rec

\* the end of ext2_setsize: all is trimmed, or a page could not be read; the
\* inode is written in both cases
RecordTrimmed(n, done) == Record(n, mem[n])
TruncateDone(n) ==
  /\ op[n].kind = "trim"
  /\ RecordTrimmed(n, Trimmable(mem[n], op[n].keep) = {})
  /\ op' = [op EXCEPT ![n] = Idle]
  /\ UNCHANGED <<blockVars, inoVars, ptr, mem, newino, lost>>

\* the last name of a file goes; ext2_delete_dirent has no caller yet, and its
\* caller will drop the link count and write the inode
Unlink(n) ==
  /\ Resting(n) /\ n >= FirstIno /\ mem[n].nlink # 0
  /\ mem' = [mem EXCEPT ![n].nlink = 0]
  /\ Record(n, mem'[n])
  /\ UNCHANGED <<blockVars, inoVars, ptr, op, newino, lost>>

\* iput of the last reference: ext2_evict_inode of an inode that has links
\* only empties its page cache
Evict(n) ==
  /\ Resting(n) /\ mem[n].nlink # 0
  /\ mem' = [mem EXCEPT ![n] = Absent]
  /\ UNCHANGED <<blockVars, inoVars, ptr, rec, op, newino, lost>>

\* without links its blocks go; bad are the indirect blocks that cannot be
\* read, whose subtrees ext2_free_inode_branch gives up
EvictUnlinked(n) ==
  /\ Resting(n) /\ mem[n].nlink = 0
  /\ \E bad \in SUBSET {p \in Tree(mem[n]) : Len(p) <= Depth(p[1])} :
       LET gone == UNION {Under(mem[n], p) : p \in bad}
       IN /\ Lose({Node(mem[n], p) : p \in gone})
          /\ mem' = [mem EXCEPT ![n].data =
                       [k \in Slots |-> IF <<k>> \in gone THEN 0 ELSE @[k]]]
          /\ ptr' = [b \in Blocks |-> [i \in 0 .. Ptrs - 1 |->
                       IF \E p \in gone : Len(p) > 1 /\ Node(mem[n], Parent(p)) = b
                                          /\ p[Len(p)] = i
                       THEN 0 ELSE ptr[b][i]]]
  /\ op' = [op EXCEPT ![n] = [kind |-> "evict"]]
  /\ UNCHANGED <<blockVars, inoVars, rec, newino>>

\* ext2_free_inode_branch clears each pointer before it frees the block
FreeInodeBranch(n) ==
  /\ op[n].kind = "evict"
  /\ LET todo == Trimmable(mem[n], 0)
         p == Leftmost(todo)
         b == Node(mem[n], p)
     IN /\ todo # {}
        /\ Unhook(n, p, mem[n].blocks)
        /\ \/ FreeBlock(b) /\ UNCHANGED lost
           \/ Lose({b}) /\ UNCHANGED blockVars
  /\ UNCHANGED <<inoVars, rec, op, newino>>

\* the record is cleared, then ext2_free_inode; a record that could not be
\* read stays, without links, until ext2_alloc_inode overwrites it unread
EvictDone(n) ==
  /\ op[n].kind = "evict" /\ Tree(mem[n]) = {}
  /\ Record(n, NoInode)
  /\ \/ /\ ibits' = ibits \ {n}
        /\ UpdateFreeInodes(n, mem[n].mode, 1)
     \/ UNCHANGED inoVars
  /\ op' = [op EXCEPT ![n] = [kind |-> "unhash"]]
  /\ UNCHANGED <<blockVars, ptr, mem, newino, lost>>

\* iput takes the inode out of the icache after the eviction
Unhash(n) ==
  /\ op[n].kind = "unhash"
  /\ op' = [op EXCEPT ![n] = Idle]
  /\ mem' = [mem EXCEPT ![n] = Absent]
  /\ UNCHANGED <<blockVars, inoVars, ptr, rec, newino, lost>>

\* ext2_alloc_inode up to icache_inserts: the first clear bit, from FirstIno
\* on, of the first group that counts a free inode; -EUCLEAN when that group
\* has none
AllocInode(mode) ==
  LET first(g) == g * InodesPerGroup
      start(g) == IF first(g) < FirstIno - 1 THEN FirstIno - 1 - first(g) ELSE 0
      nr(g) == Min({InodesPerGroup, InodesCount - first(g)})
      avail == {g \in 0 .. InodesCount :
                  first(g) < InodesCount /\ start(g) < nr(g) /\ gifree[g] # 0}
      g == Min(avail)
      clear == {n \in Inos \ ibits : InoGroup(n) = g /\ n - 1 >= first(g) + start(g)}
  IN /\ newino = Idle /\ sifree # 0 /\ avail # {} /\ clear # {}
     /\ newino' = [kind |-> "new", n |-> Min(clear), mode |-> mode]
     /\ ibits' = ibits \cup {Min(clear)}
     /\ UpdateFreeInodes(Min(clear), mode, -1)
     /\ UNCHANGED <<blockVars, ptr, rec, mem, op, lost>>

\* icache_inserts waits for an inode of that number to be unhashed; then the
\* record is written
InsertInode ==
  /\ newino # Idle
  /\ mem[newino.n] = Absent
  /\ LET ino == [NoInode EXCEPT !.mode = newino.mode, !.nlink = 1]
     IN mem' = [mem EXCEPT ![newino.n] = ino] /\ Record(newino.n, ino)
  /\ newino' = Idle
  /\ UNCHANGED <<blockVars, inoVars, ptr, op, lost>>

Ext2Next ==
  \/ \E n \in Inos :
       \/ Iget(n) \/ AllocBranch(n) \/ AllocFails(n) \/ SpliceBranch(n)
       \/ UndoBranch(n)  \/ TrimBranch(n) \/ TruncateDone(n)
       \/ Evict(n) \/ EvictUnlinked(n) \/ FreeInodeBranch(n) \/ EvictDone(n)
       \/ Unhash(n) \/ Unlink(n)
       \/ \E lbn \in Ask[n] : BmapCreate(n, lbn)
       \/ \E keep \in Keeps : Truncate(n, keep)
  \/ \E mode \in Modes : AllocInode(mode)
  \/ InsertInode

Ext2Spec == Ext2Init /\ [][Ext2Next]_ext2Vars

-----------------------------------------------------------------------------
\* the inode as its next user will see it, and the blocks an unfinished
\* ext2_bmap_create holds
Inode(n) == IF mem[n] # Absent THEN mem[n] ELSE IF rec[n].nlink # 0 THEN rec[n] ELSE NoInode
Taken(n) == IF op[n].kind \in {"alloc", "undo"} THEN op[n].blks ELSE <<>>
One(cond) == IF cond THEN 1 ELSE 0

(* No block is handed out twice and none is forgotten: a block is marked in  *)
(* the bitmap exactly when one position of one inode, one unfinished         *)
(* ext2_alloc_branch, the filesystem's own metadata, or an I/O error during  *)
(* a free holds it.  The group and superblock counters agree with the        *)
(* bitmaps and i_blocks with the tree (balloc.c, bmap.c, ialloc.c).          *)
BlockInv ==
  /\ LET held == UNION {{<<n, p, Node(Inode(n), p)>> : p \in Tree(Inode(n))} : n \in Inos}
                   \cup UNION {{<<n, <<-i>>, Taken(n)[i]>> : i \in DOMAIN Taken(n)} : n \in Inos}
     IN \A b \in Blocks :
          Cardinality({h \in held : h[3] = b}) + One(b \in Meta) + One(b \in lost)
          = One(b \in bits)
  /\ sfree = Cardinality(Blocks \ bits)
  /\ sifree = Cardinality(Inos \ ibits)
  /\ \A g \in Groups : gfree[g] = Cardinality(ClearBits(g))
  /\ \A n \in Inos : op[n].kind \notin {"evict", "unhash"} =>
                       Inode(n).blocks = Cardinality(Tree(Inode(n)))

(* The inode table and the tree tell the truth about a file: between         *)
(* operations the record on disk equals the inode in memory, also after a    *)
(* truncation that an I/O error cut short; a truncation never touches a      *)
(* logical block below the new size, and when it has no more to do nothing   *)
(* is mapped above it (ext2_bmap, ext2_truncate_blocks, ext2_setsize).       *)
RecordInv ==
  \A n \in Inos :
    /\ Resting(n) => rec[n] = mem[n]
    /\ op[n].kind = "trim" =>
         /\ {l \in op[n].had : l < op[n].keep} \subseteq Mapped(mem[n])
         /\ Trimmable(mem[n], op[n].keep) = {} =>
              \A l \in Mapped(mem[n]) : l < op[n].keep
=============================================================================
