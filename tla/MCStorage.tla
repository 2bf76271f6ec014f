----------------------------- MODULE MCStorage ------------------------------
(***************************************************************************)
(* Instances for TLC of the layers between a path and the disk that        *)
(* callers share: the inode and dentry caches (Namei), the page cache      *)
(* (PageCache) and the block driver with its device (VirtioBlk), once with *)
(* more callers than slots and once with a single slot and requests of     *)
(* different lengths; and of the completions that the callers of the       *)
(* driver sleep on (Completion). Each behaviour is one component's; the    *)
(* others' variables keep a value that means nothing. A completion that is *)
(* not the one that runs is unused.                                        *)
(***************************************************************************)
EXTENDS Completion, TLC

CONSTANTS Parts, Walkers, Paths, Disk, RootIno, Dentries, Inodes, Users, Keys,
  FileKeys, Cps, Limits, Values, Flusher, Procs, Slots, QueueSize, Types,
  Outcomes, MaxOdd, IdxMod, OneSlot, FewDescs, AllTypes, Nobody

VARIABLE part    \* the component this behaviour is about

VARIABLES
  dentry, inode, walk, nstate, iwait, root,
  cp, disk, merror, mrefs, mutex, task, panicked, limit, truth,
  io, bstate, slotWaiters, req, wire, vq, dev, handler, odd, answer

Walk == INSTANCE Namei
Cache == INSTANCE PageCache
Blk == INSTANCE VirtioBlk WITH waiters <- slotWaiters
One == INSTANCE VirtioBlk WITH Slots <- OneSlot, QueueSize <- FewDescs,
    IdxMod <- FewDescs, Types <- AllTypes, waiters <- slotWaiters

ASSUME CompletionAssumption
ASSUME Blk!VirtioBlkAssumption
ASSUME One!VirtioBlkAssumption

DoneVars == <<done, waiters, lock, state, sig, owed, mode, pc, timer, expired,
    given, taken>>
WalkVars == <<dentry, inode, walk, nstate, iwait, root>>
CacheVars == <<cp, disk, merror, mrefs, mutex, task, panicked, limit, truth>>
BlkVars == <<io, bstate, slotWaiters, req, wire, vq, dev, handler, odd, answer>>
allVars == <<part, DoneVars, WalkVars, CacheVars, BlkVars>>

\* A directory, a file reached through it, a second name of that file.
TreeDisk == <<2, "d">> :> 3 @@ <<3, "f">> :> 4 @@ <<2, "h">> :> 4
TreePaths == {<<"d", "f">>, <<"h">>, <<"d", "..", "x">>}

\* A cache that must evict, and one with room for a page that two lookups race for.
SomeLimits == {[pages |-> 1, keys |-> Keys], [pages |-> 2, keys |-> Keys \ FileKeys]}

\* The variables of a component that is not the one that runs.
WalkIdle == dentry = 0 /\ inode = 0 /\ walk = 0 /\ nstate = 0 /\ iwait = 0
    /\ root = 0
CacheIdle == cp = 0 /\ disk = 0 /\ merror = 0 /\ mrefs = 0 /\ mutex = 0
    /\ task = 0 /\ panicked = 0 /\ limit = 0 /\ truth = 0
BlkIdle == io = 0 /\ bstate = 0 /\ slotWaiters = 0 /\ req = 0 /\ wire = 0
    /\ vq = 0 /\ dev = 0 /\ handler = 0 /\ odd = 0 /\ answer = 0

MCInit ==
  /\ part \in Parts
  /\ Init
  /\ IF part = "namei" THEN Walk!NameiInit ELSE WalkIdle
  /\ IF part = "cache" THEN Cache!PcInit ELSE CacheIdle
  /\ CASE part = "blk" -> Blk!BlkInit
       [] part = "flush" -> One!BlkInit
       [] OTHER -> BlkIdle

DoneStep == part = "done" /\ Next /\ UNCHANGED <<part, WalkVars, CacheVars,
    BlkVars>>
WalkStep == part = "namei" /\ Walk!NameiNext /\ UNCHANGED <<part, DoneVars,
    CacheVars, BlkVars>>
CacheStep == part = "cache" /\ Cache!PcNext /\ UNCHANGED <<part, DoneVars,
    WalkVars, BlkVars>>
BlkStep == part = "blk" /\ Blk!BlkNext /\ UNCHANGED <<part, DoneVars,
    WalkVars, CacheVars>>
OneStep == part = "flush" /\ One!BlkNext /\ UNCHANGED <<part, DoneVars,
    WalkVars, CacheVars>>

MCNext == DoneStep \/ WalkStep \/ CacheStep \/ BlkStep \/ OneStep

MCSpec == MCInit /\ [][MCNext]_allVars

\* The components never meet in a behaviour: walkers and those who wait for a
\* completion share the names of the users of the cache, requesters those of its pages.
Symmetry == Permutations(Users) \cup Permutations(Cps)

-----------------------------------------------------------------------------

(* No two cached inodes or names stand for the same thing, no cached name   *)
(* outlives its inode, and nobody waits for an inode that is ready.         *)
PathCaches == part = "namei" => Walk!CachesInv /\ Walk!NoLostIcacheWake

(* A page is cached once, on the list its state asks for, and what it or    *)
(* the disk holds is the last data written, short of an error reported.     *)
PageCacheInv == part = "cache" => Cache!CacheInv /\ Cache!DataInv

(* mapping_make_room asserts that a page it evicts is referenced by the     *)
(* cache alone and clean.                                                   *)
NoBusyVictim == part = "cache" => Cache!NoBusyVictim

(* Descriptors are in one chain at most and slots are not shared; a caller  *)
(* gets the result of its own request; no request is left unanswered.       *)
RequestInv ==
  /\ part = "blk" => Blk!RingInv /\ Blk!OwnResult /\ Blk!NoLostRequest
  /\ part = "flush" => One!RingInv /\ One!OwnResult /\ One!NoLostRequest
=============================================================================
