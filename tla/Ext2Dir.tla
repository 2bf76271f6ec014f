------------------------------ MODULE Ext2Dir ------------------------------
(* The directory blocks of fs/ext2/dir.c.  A block is the sequence of its    *)
(* records in offset order, a record the inode number (0 for an unused one), *)
(* the name and rec_len, in units of four bytes.  The bytes a record does    *)
(* not own are never visited and are left out.  Every operation runs under   *)
(* the directory's mutex.                                                    *)
EXTENDS Integers, Sequences, SequencesExt, FiniteSets

CONSTANTS
  Names,        \* names besides "." and ".."
  Units,        \* the length of each name, in units
  Numbers,      \* inode numbers entries are set to
  Self, Up,     \* the inode numbers of the directory and its parent
  BlockSize, MaxBlocks

Ext2DirAssumption ==
  /\ \A n \in Names : Units[n] + 2 <= BlockSize
  /\ BlockSize >= 6 /\ 0 \notin Numbers \cup {Self, Up}

VARIABLES
  dir,          \* the blocks of the directory, in order
  names,        \* what the directory should hold: name -> inode number, 0 none
  reader        \* an open directory being read: position, names seen

dirVars == <<dir, names, reader>>
AllNames == Names \cup {".", ".."}

\* ext2_dirent_rec_len: the header is two units
RecLen(name) == 2 + (IF name \in {".", ".."} THEN 1 ELSE Units[name])
Unused == [ino |-> 0, name |-> "", len |-> BlockSize]

\* the record at place <<b, i>>
Places == {<<b, i>> \in (1 .. Len(dir)) \X (1 .. BlockSize) : i <= Len(dir[b])}
Rec(p) == dir[p[1]][p[2]]
Offset(p) == (p[1] - 1) * BlockSize
             + FoldLeft(LAMBDA sum, r : sum + r.len, 0, SubSeq(dir[p[1]], 1, p[2] - 1))
First(S) == CHOOSE p \in S : \A q \in S : p[1] < q[1] \/ (p[1] = q[1] /\ p[2] <= q[2])

\* ext2_find_dirent: the first used record of that name, {} for -ENOENT
FindDirent(name) == {p \in Places : Rec(p).ino # 0 /\ Rec(p).name = name}

-----------------------------------------------------------------------------
\* what ext2_init_dir makes of a directory that ext2_append_dir_block has given
\* its first block
DirInit ==
  /\ dir = << << [ino |-> Self, name |-> ".", len |-> RecLen(".")],
                 [ino |-> Up, name |-> "..", len |-> BlockSize - RecLen(".")] >> >>
  /\ names = [n \in AllNames |-> IF n = "." THEN Self ELSE IF n = ".." THEN Up ELSE 0]
  /\ reader = [open |-> FALSE]

\* the part of a record that its own entry needs
Used(r) == IF r.ino # 0 THEN RecLen(r.name) ELSE 0

\* Faulty variant: a split record keeps its length.
SlotLenWhole(r) == r.len

\* ext2_add_dirent_block: the record that has room is split, or taken over when
\* it is unused
SlotLen(r) == r.len - Used(r)
Placed(block, i, name, ino) ==
  LET r == block[i]
      slot == [ino |-> ino, name |-> name, len |-> SlotLen(r)]
  IN IF Used(r) = 0 THEN [block EXCEPT ![i] = slot]
     ELSE InsertAt([block EXCEPT ![i].len = Used(r)], i + 1, slot)

\* ext2_add_dirent of a name the caller has looked up in vain: the first block
\* and record with room, else a block that ext2_append_dir_block adds as one
\* unused record
AddDirent(name, ino) ==
  LET room == {p \in Places : Rec(p).len - Used(Rec(p)) >= RecLen(name)}
      p == First(room)
  IN /\ ~reader.open
     /\ FindDirent(name) = {}
     /\ \/ /\ room # {}
           /\ dir' = [dir EXCEPT ![p[1]] = Placed(@, p[2], name, ino)]
        \/ /\ room = {} /\ Len(dir) < MaxBlocks
           /\ dir' = Append(dir, Placed(<<Unused>>, 1, name, ino))
     /\ names' = [names EXCEPT ![name] = ino]
     /\ UNCHANGED reader

\* ext2_set_dirent: the entry names another inode
SetDirent(name, ino) ==
  /\ ~reader.open
  /\ \E p \in FindDirent(name) : dir' = [dir EXCEPT ![p[1]][p[2]].ino = ino]
  /\ names' = [names EXCEPT ![name] = ino]
  /\ UNCHANGED reader

\* ext2_delete_dirent: the record goes to the one before it in the block, and
\* the first of a block only loses its inode
Dropped(block, i) ==
  IF i = 1 THEN [block EXCEPT ![1].ino = 0]
  ELSE RemoveAt([block EXCEPT ![i - 1].len = @ + block[i].len], i)
DeleteDirent(name) ==
  /\ ~reader.open
  /\ \E p \in FindDirent(name) : dir' = [dir EXCEPT ![p[1]] = Dropped(@, p[2])]
  /\ names' = [names EXCEPT ![name] = 0]
  /\ UNCHANGED reader

\* ext2_dir_is_empty
DirIsEmpty ==
  \A p \in Places : Rec(p).ino = 0 \/ (Rec(p).name = "." /\ Rec(p).ino = Self)
                                   \/ Rec(p).name = ".."

\* ext2_dir_readdir on a directory nobody changes (no system call does):
\* each call of getdents starts at the position the last one left and stops
\* when dir_emit finds the buffer full
OpenDir ==
  /\ ~reader.open
  /\ reader' = [open |-> TRUE, pos |-> 0, seen |-> <<>>]
  /\ UNCHANGED <<dir, names>>

AtPos == {p \in Places : Offset(p) = reader.pos}

\* Faulty variant: the position moves by what the entry needs.
NextPosUsed(r) == reader.pos + Used(r)

NextPos(r) == reader.pos + r.len
Emit ==
  /\ reader.open
  /\ \E p \in AtPos :
       reader' = [reader EXCEPT
         !.pos = NextPos(Rec(p)),
         !.seen = IF Rec(p).ino # 0 THEN Append(@, <<Rec(p).name, Rec(p).ino>>) ELSE @]
  /\ UNCHANGED <<dir, names>>

\* ctx->pos has reached i_size
CloseDir ==
  /\ reader.open /\ reader.pos >= Len(dir) * BlockSize
  /\ reader' = [open |-> FALSE]
  /\ UNCHANGED <<dir, names>>

DirNext ==
  \/ \E name \in Names, ino \in Numbers : AddDirent(name, ino) \/ SetDirent(name, ino)
  \/ \E name \in Names : DeleteDirent(name)
  \/ OpenDir \/ Emit \/ CloseDir

DirSpec == DirInit /\ [][DirNext]_dirVars

-----------------------------------------------------------------------------
(* The records of a block cover it exactly, each long enough for its own     *)
(* entry and for the checks of ext2_get_dirent, and ext2_find_dirent finds   *)
(* under each name exactly the inode last stored there, whatever splitting   *)
(* and merging of records lies in between; ext2_dir_is_empty agrees.         *)
DirInv ==
  /\ \A b \in 1 .. Len(dir) :
       FoldLeft(LAMBDA sum, r : sum + r.len, 0, dir[b]) = BlockSize
  /\ \A p \in Places : Rec(p).len >= 2 /\ Rec(p).len >= Used(Rec(p))
  /\ \A n \in AllNames : {Rec(p).ino : p \in FindDirent(n)}
                         = (IF names[n] = 0 THEN {} ELSE {names[n]})
  /\ DirIsEmpty <=> \A n \in Names : names[n] = 0

(* A directory that is read to its end, in as many calls as it takes, shows  *)
(* every name once, and no resume position falls between two records         *)
(* (ext2_dir_readdir, ext2_readdir_block).                                   *)
ReaddirInv ==
  reader.open =>
    /\ reader.pos < Len(dir) * BlockSize => AtPos # {}
    /\ \A i, j \in DOMAIN reader.seen : i # j => reader.seen[i][1] # reader.seen[j][1]
    /\ reader.pos >= Len(dir) * BlockSize =>
         ToSet(reader.seen) = {<<n, names[n]>> : n \in {n \in AllNames : names[n] # 0}}
=============================================================================
