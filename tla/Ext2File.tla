------------------------------ MODULE Ext2File ------------------------------
(* The contents of a regular file: fs/ext2/file.c and the resizing part of   *)
(* fs/ext2/inode.c, over the page cache of mm/mapping.c.                     *)
(*                                                                           *)
(* A page is Cells cells.  The file's blocks live on a disk whose unused     *)
(* cells hold Junk, as does the end of a block past the end of the file when *)
(* somebody else wrote it.  Each chunk of a read or a write, each resize and *)
(* each write-back runs under the inode's mutex and is one action; calls     *)
(* interleave between their chunks, and the cache may drop a clean page or   *)
(* write a dirty one at any time.                                            *)
EXTENDS Integers, FiniteSets, FiniteSetsExt

CONSTANTS Procs, Pages, Cells, Values, Blks, Junk, Any, Sizes, Lens

Ext2FileAssumption == Cells \in Nat \ {0} /\ Pages \in Nat \ {0}

VARIABLES
  size,       \* i_size
  bmap,       \* page -> block, 0 for a hole
  disk,       \* block -> its cells
  cache,      \* page -> [data, state], Out when it is not cached
  truth,      \* cell -> what a read of the file should return
  call        \* what each process is doing

fileVars == <<size, bmap, disk, cache, truth, call>>

Cell == 0 .. Pages * Cells - 1
Idx == 0 .. Pages - 1
Off == 0 .. Cells - 1
Out == [state |-> "out"]
NoCall == [kind |-> "none", ok |-> TRUE]
Zero == 0
FreeBlks == Blks \ {bmap[i] : i \in Idx}
PageUp(n) == (n + Cells - 1) \div Cells

FileInit ==
  /\ size \in {0, Cells - 1}
  /\ disk = [b \in Blks |-> [c \in Off |-> Junk]]
  /\ bmap = [i \in Idx |-> IF i = 0 /\ size > 0 THEN Min(Blks) ELSE 0]
  /\ cache = [i \in Idx |-> Out]
  /\ truth = [c \in Cell |-> IF c < size THEN Junk ELSE Zero]
  /\ call = [p \in Procs |-> NoCall]

-----------------------------------------------------------------------------
\* Faulty variant: the end of the last page is taken from the disk.
ValidLenAll(i) == Cells

\* ext2_read_file_page: a hole reads as zeros, and what lies past the end of
\* the file in its last page is cleared; size - off is unsigned
ValidLen(i) == IF size >= i * Cells THEN Min({size - i * Cells, Cells}) ELSE Cells
ReadPage(i) ==
  IF bmap[i] = 0 THEN [c \in Off |-> Zero]
  ELSE [c \in Off |-> IF c < ValidLen(i) THEN disk[bmap[i]][c] ELSE Zero]

\* what mapping_get leaves in the cache for page i
Got(i) == IF cache[i] # Out THEN cache[i] ELSE [state |-> "clean", data |-> ReadPage(i)]
View(i) == Got(i).data

\* mapping_dirty
Dirty(i, data) == [state |-> "dirty", data |-> data]

-----------------------------------------------------------------------------
\* the cache lets a clean page go
DropPage(i) ==
  /\ cache[i].state = "clean"
  /\ cache' = [cache EXCEPT ![i] = Out]
  /\ UNCHANGED <<size, bmap, disk, truth, call>>

\* ext2_write_file_page, called by the flusher or by ext2_file_fsync
WritePage(i) ==
  /\ cache[i].state = "dirty"
  /\ disk' = [disk EXCEPT ![bmap[i]] = cache[i].data]
  /\ cache' = [cache EXCEPT ![i].state = "clean"]
  /\ UNCHANGED <<size, bmap, truth, call>>

\* ext2_file_read up to its loop: the length is fixed by the size seen now
FileRead(p, pos, len) ==
  LET n == IF pos >= size THEN 0 ELSE Min({len, size - pos})
  IN /\ call[p].kind = "none" /\ n > 0
     /\ call' = [call EXCEPT ![p] = [kind |-> "read", pos |-> pos, left |-> n, ok |-> TRUE]]
     /\ UNCHANGED <<size, bmap, disk, cache, truth>>

\* the call after n more cells
Moved(p, n) == IF n = 0 \/ n = call[p].left THEN NoCall
               ELSE [call[p] EXCEPT !.pos = @ + n, !.left = @ - n]

\* ext2_read_chunk and the copy to the caller; the file may have shrunk since
ReadChunk(p) ==
  LET pos == call[p].pos
      i == pos \div Cells
      off == pos % Cells
      n == Min({Cells - off, call[p].left, size - pos})
      right == \A k \in 0 .. n - 1 : truth[pos + k] \in {Any, View(i)[off + k]}
  IN /\ call[p].kind = "read"
     /\ \/ /\ pos >= size
           /\ call' = [call EXCEPT ![p] = NoCall]
           /\ UNCHANGED cache
        \/ /\ pos < size
           /\ cache' = [cache EXCEPT ![i] = Got(i)]
           /\ call' = [call EXCEPT ![p] = [Moved(p, n) EXCEPT !.ok = right]]
     /\ UNCHANGED <<size, bmap, disk, truth>>

\* an I/O error or an unreadable user page ends a call between its chunks
GiveUp(p) ==
  /\ call[p].kind # "none"
  /\ call' = [call EXCEPT ![p] = NoCall]
  /\ UNCHANGED <<size, bmap, disk, cache, truth>>

FileWrite(p, pos, len, v) ==
  /\ call[p].kind = "none" /\ pos + len <= Pages * Cells
  /\ call' = [call EXCEPT ![p] = [kind |-> "write", pos |-> pos, left |-> len,
                                  val |-> v, ok |-> TRUE]]
  /\ UNCHANGED <<size, bmap, disk, cache, truth>>

\* Faulty variant: the page of the old end is left alone.
TailNever(pos) == {}

\* ext2_get_write_tail: a write past the end makes the page of the old end
\* dirty, so that the zeros behind it reach the disk
Tail(pos) == {i \in Idx : pos > size /\ size % Cells # 0
                          /\ i = size \div Cells /\ i # pos \div Cells}

\* ext2_write_chunk of n cells: the pages are read first, ext2_bmap_create
\* finds or allocates the block, then nothing can fail
WriteChunk(p, n) ==
  LET pos == call[p].pos
      i == pos \div Cells
      off == pos % Cells
      end == pos + n
      v == call[p].val
      data == [c \in Off |-> IF c >= off /\ c < off + n THEN v ELSE View(i)[c]]
  IN /\ call[p].kind = "write" /\ n <= Min({Cells - off, call[p].left})
     /\ \E b \in IF bmap[i] # 0 THEN {bmap[i]} ELSE FreeBlks :
          bmap' = [bmap EXCEPT ![i] = b]
     /\ cache' = [j \in Idx |->
                    IF j = i THEN Dirty(i, data)
                    ELSE IF j \in Tail(pos)
                         THEN IF bmap[j] # 0 THEN Dirty(j, View(j)) ELSE Got(j)
                         ELSE cache[j]]
     /\ size' = Max({size, end})
     /\ truth' = [c \in Cell |-> IF c >= pos /\ c < end THEN v ELSE truth[c]]
     /\ call' = [call EXCEPT ![p] = IF n = Min({Cells - off, call[p].left})
                                    THEN Moved(p, n) ELSE NoCall]
     /\ UNCHANGED disk

\* no block is to be had: the pages stay cached, the call ends
WriteFails(p) ==
  LET pos == call[p].pos
      i == pos \div Cells
  IN /\ call[p].kind = "write" /\ bmap[i] = 0
     /\ cache' = [j \in Idx |-> IF j \in {i} \cup Tail(pos) THEN Got(j) ELSE cache[j]]
     /\ call' = [call EXCEPT ![p] = NoCall]
     /\ UNCHANGED <<size, bmap, disk, truth>>

\* ext2_zero_tail
ZeroedTail(n) ==
  LET i == n \div Cells
  IN [j \in Idx |-> IF j = i /\ n % Cells # 0 /\ bmap[j] # 0
                    THEN Dirty(j, [c \in Off |-> IF c < n % Cells THEN View(j)[c] ELSE Zero])
                    ELSE cache[j]]


\* mapping_purge of the pages behind the new size
Purge(pages, first) == [j \in Idx |-> IF j >= first THEN Out ELSE pages[j]]

\* ext2_setsize: clear behind the smaller of the two sizes, drop the pages and
\* free the blocks behind the new one; stop is the page at which an I/O error
\* ends ext2_truncate_blocks, Pages when it completes
SetSize(n, stop) ==
  LET first == PageUp(n)
      shrinks == n < size
      zeroed == ZeroedTail(Min({size, n}))
  IN /\ shrinks \/ stop = Pages
     /\ n # size /\ stop >= first
     /\ cache' = IF shrinks THEN Purge(zeroed, first) ELSE zeroed
     /\ bmap' = [j \in Idx |-> IF shrinks /\ j >= first /\ j < stop THEN 0 ELSE bmap[j]]
     /\ size' = IF stop = Pages THEN n ELSE size
     /\ truth' = [c \in Cell |-> IF c < n THEN truth[c]
                                 ELSE IF stop = Pages \/ c >= size THEN Zero ELSE Any]
     /\ UNCHANGED <<disk, call>>

FileNext ==
  \/ \E i \in Idx : DropPage(i) \/ WritePage(i)
  \/ \E p \in Procs :
       \/ ReadChunk(p) \/ GiveUp(p) \/ WriteFails(p)
       \/ \E n \in 1 .. Cells : WriteChunk(p, n)
       \/ \E pos \in Cell, len \in Lens :
            FileRead(p, pos, len) \/ \E v \in Values : FileWrite(p, pos, len, v)
  \/ \E n \in Sizes, stop \in 0 .. Pages : SetSize(n, stop)

FileSpec == FileInit /\ [][FileNext]_fileVars

-----------------------------------------------------------------------------
(* A file reads back what was written to it and zeros where nothing was:     *)
(* through extensions past the old end, holes, shrinking and growing again,  *)
(* failed allocations, pages dropped and read again, the junk of a new block *)
(* or behind the old end never shows (ext2_read_file_page,                   *)
(* ext2_get_write_tail, ext2_zero_tail, ext2_setsize), and each chunk a read *)
(* delivers is the file as it is at that moment.                             *)
FileInv ==
  /\ \A c \in Cell : c < size => truth[c] \in {Any, View(c \div Cells)[c % Cells]}
  /\ \A p \in Procs : call[p].ok

(* A dirty page always has a block to be written to: the assertion of        *)
(* ext2_write_file_page, which the flusher would run into long after the     *)
(* call that caused it.                                                      *)
DirtyMapped == \A i \in Idx : cache[i].state = "dirty" => bmap[i] # 0
=============================================================================
