------------------------------- MODULE Namei -------------------------------
(***************************************************************************)
(* Path resolution over the dentry cache and the inode cache:              *)
(* fs/vfs/path.c, dentry.c and inode.c, with the lookup and the inode read *)
(* of ext2 (namei.c, inode.c).                                             *)
(*                                                                         *)
(* A section under dcache_lock or icache_lock is one step.  A lookup holds *)
(* the mutex of the directory from end to end; reading an inode, evicting  *)
(* one and waiting for either take place with no spinlock held.            *)
(***************************************************************************)
EXTENDS WaitQueue, FiniteSets

CONSTANTS
  Walkers,  \* tasks that resolve paths
  Paths,    \* the paths they resolve, sequences of names
  Disk,     \* the directories: <<inode number, name>> -> inode number
  RootIno,  \* EXT2_ROOT_INO
  Dentries, \* struct dentry objects
  Inodes,   \* struct inode objects
  None

Dirs == {e[1] : e \in DOMAIN Disk}

VARIABLES
  dentry,   \* the dentries in being: [parent, name, inode, count, hashed]
  inode,    \* the inodes in being: [ino, count, hashed, state, mutex]
  walk,     \* each task: [at, path, cur, d, i, drop, then]
  nstate,   \* task states
  iwait,    \* icache_wait.waiters
  root      \* the root dentry, which the super block holds

nameiVars == <<dentry, inode, walk, nstate, iwait, root>>

Unset == [at |-> "idle", path |-> <<>>, cur |-> None, d |-> None, i |-> None,
          drop |-> None, then |-> "idle"]

\* An object the allocator may return; which one makes no difference.
Fresh(all, live) == LET unused == all \ DOMAIN live IN
  IF unused = {} THEN {} ELSE {CHOOSE x \in unused : TRUE}

\* ext2_get_root.
NameiInit ==
  \E d \in Fresh(Dentries, <<>>), i \in Fresh(Inodes, <<>>) :
    /\ root = d
    /\ dentry = [x \in {d} |-> [parent |-> None, name |-> "/", inode |-> i, count |-> 1,
                                hashed |-> FALSE]]
    /\ inode = [x \in {i} |-> [ino |-> RootIno, count |-> 1, hashed |-> TRUE,
                               state |-> "ready", mutex |-> None]]
    /\ walk = [w \in Walkers |-> Unset]
    /\ nstate = [w \in Walkers |-> "RUNNABLE"]
    /\ iwait = <<>>

Plus(f, x, v) == [y \in DOMAIN f \cup {x} |-> IF y = x THEN v ELSE f[y]]
Minus(f, x) == [y \in DOMAIN f \ {x} |-> f[y]]
Set(w, at) == walk' = [walk EXCEPT ![w].at = at]

DirOf(w) == dentry[walk[w].cur].inode
DirIno(w) == inode[DirOf(w)].ino

-----------------------------------------------------------------------------
(* path_walk and path_lookup.                                              *)

\* An absolute path: the root is the first directory.
Resolve(w) ==
  /\ walk[w].at = "idle"
  /\ \E p \in Paths :
       walk' = [walk EXCEPT ![w] = [Unset EXCEPT !.at = "step", !.path = p, !.cur = root]]
  /\ dentry' = [dentry EXCEPT ![root].count = @ + 1]
  /\ UNCHANGED <<inode, nstate, iwait, root>>

\* The next component; at the end, or at a name that does not exist, or when
\* what was found is no directory, the walk is over and the caller puts the path.
Step(w) ==
  /\ walk[w].at = "step"
  /\ LET over == ~(walk[w].path # <<>> /\ DirOf(w) # None /\ DirIno(w) \in Dirs) IN
     \/ over /\ walk' = [walk EXCEPT ![w].at = "dput", ![w].drop = walk[w].cur,
                                     ![w].cur = None, ![w].path = <<>>]
             /\ UNCHANGED <<dentry, inode>>
     \/ /\ ~over /\ inode[DirOf(w)].mutex = None
        /\ inode' = [inode EXCEPT ![DirOf(w)].mutex = w]
        /\ walk' = [walk EXCEPT ![w].at = "lookup"]
        /\ UNCHANGED dentry
  /\ UNCHANGED <<nstate, iwait, root>>

\* dcache_find_locked.
Found(parent, name) ==
  {d \in DOMAIN dentry : dentry[d].hashed /\ dentry[d].parent = parent /\ dentry[d].name = name}

\* path_lookup_locked up to the call of ext2_lookup: "." and "..", a cached
\* dentry, or a new one for which the directory is searched.
Lookup(w) ==
  LET cur == walk[w].cur
      name == Head(walk[w].path)
      Take(d) == /\ dentry' = [dentry EXCEPT ![d].count = @ + 1]
                 /\ walk' = [walk EXCEPT ![w].at = "unlock", ![w].d = d]
  IN /\ walk[w].at = "lookup"
     /\ \/ name = "." /\ Take(cur)
        \/ name = ".." /\ Take(IF dentry[cur].parent = None THEN cur ELSE dentry[cur].parent)
        \/ name \notin {".", ".."} /\ \E d \in Found(cur, name) : Take(d)
        \/ /\ name \notin {".", ".."} /\ Found(cur, name) = {}
           /\ \E d \in Fresh(Dentries, dentry) :
                /\ dentry' = Plus([dentry EXCEPT ![cur].count = @ + 1], d,
                                  [parent |-> cur, name |-> name, inode |-> None, count |-> 1,
                                   hashed |-> FALSE])
                /\ \/ walk' = [walk EXCEPT ![w].d = d,
                               ![w].at = IF <<DirIno(w), name>> \in DOMAIN Disk
                                         THEN "find" ELSE "insert"]
                   \/ walk' = [walk EXCEPT ![w].d = None, ![w].drop = d,   \* -EIO
                                           ![w].at = "dput", ![w].then = "unlock"]
     /\ UNCHANGED <<inode, nstate, iwait, root>>

\* dcache_insert of what the lookup returned.
DcacheInsert(w) ==
  LET d == walk[w].d
      other == Found(dentry[d].parent, dentry[d].name)
  IN /\ walk[w].at = "insert"
     /\ IF other = {}
        THEN /\ dentry' = [dentry EXCEPT ![d].hashed = TRUE]
             /\ Set(w, "unlock")
        ELSE \E o \in other :
             /\ dentry' = [dentry EXCEPT ![o].count = @ + 1]
             /\ walk' = [walk EXCEPT ![w].d = o, ![w].at = "dput", ![w].drop = d,
                                     ![w].then = "unlock"]
     /\ UNCHANGED <<inode, nstate, iwait, root>>

\* The directory is unlocked and path_walk puts it; the walk goes on with what
\* was found, or is over when that failed.
Unlock(w) ==
  /\ walk[w].at = "unlock"
  /\ inode' = [inode EXCEPT ![DirOf(w)].mutex = None]
  /\ walk' = [walk EXCEPT ![w].at = "dput", ![w].drop = walk[w].cur, ![w].cur = walk[w].d,
                          ![w].d = None, ![w].i = None,
                          ![w].path = IF walk[w].d = None THEN <<>> ELSE SubSeq(@, 2, Len(@)),
                          ![w].then = IF walk[w].d = None THEN "idle" ELSE "step"]
  /\ UNCHANGED <<dentry, nstate, iwait, root>>

-----------------------------------------------------------------------------
(* ext2_iget over the inode cache.                                         *)

WantIno(w) == Disk[<<DirIno(w), dentry[walk[w].d].name>>]

\* icache_find_locked.
Icached(n) == {i \in DOMAIN inode : inode[i].hashed /\ inode[i].ino = n}

\* icache_wait_locked: the task is on the queue before icache_lock is dropped.
IcacheWait(w) ==
  /\ iwait' = PrepareToWait(iwait, w)
  /\ nstate' = [nstate EXCEPT ![w] = "UNINTERRUPTIBLE"]
  /\ UNCHANGED <<dentry, inode, walk>>

Awake(w) == nstate[w] = "RUNNABLE"

\* The dentry gets the inode, with the reference the task took.
Attach(w, i, inodes) ==
  /\ inode' = inodes
  /\ dentry' = [dentry EXCEPT ![walk[w].d].inode = i]
  /\ walk' = [walk EXCEPT ![w].at = "insert", ![w].i = None]

Held(inodes, i) == [inodes EXCEPT ![i].count = @ + 1]

\* icache_find, and i_alloc when there is none.
IcacheFind(w) ==
  /\ walk[w].at = "find" /\ Awake(w)
  /\ LET cached == Icached(WantIno(w)) IN
     \/ \E i \in cached : inode[i].state # "ready" /\ IcacheWait(w)
     \/ \E i \in cached :
          /\ inode[i].state = "ready"
          /\ Attach(w, i, Held(inode, i))
          /\ iwait' = FinishWait(iwait, w) /\ UNCHANGED nstate
     \/ /\ cached = {}
        /\ \E i \in Fresh(Inodes, inode) :
             /\ inode' = Plus(inode, i, [ino |-> WantIno(w), count |-> 1, hashed |-> FALSE,
                                         state |-> "ready", mutex |-> None])
             /\ walk' = [walk EXCEPT ![w].at = "publish", ![w].i = i]
        /\ iwait' = FinishWait(iwait, w) /\ UNCHANGED <<dentry, nstate>>
  /\ UNCHANGED root

\* icache_insert: another task may have been faster; its inode is used, and the
\* own one, never published, is destroyed by its iput.
IcacheInsert(w) ==
  /\ walk[w].at = "publish" /\ Awake(w)
  /\ LET cached == Icached(WantIno(w)) IN
     \/ \E i \in cached : inode[i].state # "ready" /\ IcacheWait(w)
     \/ \E i \in cached :
          /\ inode[i].state = "ready"
          /\ Attach(w, i, Minus(Held(inode, i), walk[w].i))
          /\ iwait' = FinishWait(iwait, w) /\ UNCHANGED nstate
     \/ /\ cached = {}
        /\ inode' = [inode EXCEPT ![walk[w].i].state = "new", ![walk[w].i].hashed = TRUE]
        /\ Set(w, "read")
        /\ iwait' = FinishWait(iwait, w) /\ UNCHANGED <<dentry, nstate>>
  /\ UNCHANGED root

\* Faulty variant: a failed read wakes nobody.
AbortWakeNone == nstate

AbortWake == WakeUpAll(nstate, iwait)

\* ext2_read_inode, then icache_ready or icache_abort.
ReadInode(w) ==
  LET i == walk[w].i IN
  /\ walk[w].at = "read"
  /\ \/ /\ Attach(w, i, [inode EXCEPT ![i].state = "ready"])
        /\ nstate' = WakeUpAll(nstate, iwait)
     \/ /\ inode' = [inode EXCEPT ![i].state = "ready", ![i].hashed = FALSE]
        /\ nstate' = AbortWake
        /\ Set(w, "abort")
        /\ UNCHANGED dentry
  /\ UNCHANGED <<iwait, root>>

\* iput of the inode that could not be read; the lookup fails.
Abort(w) ==
  LET i == walk[w].i IN
  /\ walk[w].at = "abort"
  /\ inode' = Minus(inode, i)
  /\ walk' = [walk EXCEPT ![w].i = None, ![w].at = "dput", ![w].drop = walk[w].d,
                          ![w].d = None, ![w].then = "unlock"]
  /\ UNCHANGED <<dentry, nstate, iwait, root>>

-----------------------------------------------------------------------------
(* dput and iput.                                                          *)

\* A dentry without references leaves the table; its inode is put, then its
\* parent is.
Dput(w) ==
  LET d == walk[w].drop
      last == dentry[d].count = 1
  IN /\ walk[w].at = "dput"
     /\ \/ /\ ~last
           /\ dentry' = [dentry EXCEPT ![d].count = @ - 1]
           /\ walk' = [walk EXCEPT ![w].at = walk[w].then, ![w].drop = None, ![w].then = "idle"]
        \/ /\ last /\ dentry[d].inode # None
           /\ dentry' = [dentry EXCEPT ![d].count = 0, ![d].hashed = FALSE]
           /\ Set(w, "iput")
        \/ /\ last /\ dentry[d].inode = None
           /\ dentry' = Minus(dentry, d)
           /\ walk' = [walk EXCEPT ![w].drop = dentry[d].parent]
     /\ UNCHANGED <<inode, nstate, iwait, root>>

FreeDentry(w) ==
  /\ dentry' = Minus(dentry, walk[w].drop)
  /\ walk' = [walk EXCEPT ![w].drop = dentry[@].parent, ![w].at = "dput"]

\* Faulty variant: the inode can still be found while it is evicted.
LastStateReady == "ready"

\* i_state of a cached inode whose last reference is gone.
LastState == "freeing"

Iput(w) ==
  LET i == dentry[walk[w].drop].inode IN
  /\ walk[w].at = "iput"
  /\ \/ /\ inode[i].count > 1
        /\ inode' = [inode EXCEPT ![i].count = @ - 1]
        /\ FreeDentry(w)
     \/ /\ inode[i].count = 1
        /\ inode' = [inode EXCEPT ![i].count = 0, ![i].state = LastState]
        /\ Set(w, "evict")
        /\ UNCHANGED dentry
  /\ UNCHANGED <<nstate, iwait, root>>

\* evict_inode is done: the inode leaves the table and is destroyed.
Evicted(w) ==
  LET i == dentry[walk[w].drop].inode IN
  /\ walk[w].at = "evict"
  /\ inode' = Minus(inode, i)
  /\ nstate' = WakeUpAll(nstate, iwait)
  /\ FreeDentry(w)
  /\ UNCHANGED <<iwait, root>>

NameiNext ==
  \E w \in Walkers :
    \/ Resolve(w) \/ Step(w) \/ Lookup(w) \/ DcacheInsert(w) \/ Unlock(w)
    \/ IcacheFind(w) \/ IcacheInsert(w) \/ ReadInode(w) \/ Abort(w)
    \/ Dput(w) \/ Iput(w) \/ Evicted(w)

NameiSpec == NameiInit /\ [][NameiNext]_nameiVars

-----------------------------------------------------------------------------
(* Properties.                                                             *)

DentryRefs(d) ==
  Cardinality({x \in DOMAIN dentry : dentry[x].parent = d})
  + Cardinality({w \in Walkers : walk[w].cur = d}) + Cardinality({w \in Walkers : walk[w].d = d})
  + Cardinality({w \in Walkers : walk[w].at = "dput" /\ walk[w].drop = d})
  + (IF d = root THEN 1 ELSE 0)

\* One inode object per inode number and one dentry per name are in the caches,
\* although two directories may link the same inode and evictions, failed reads
\* and lookups overlap; every dentry and inode has the references that dentries and
\* tasks hold, none is found while it is read in or evicted, and none is destroyed
\* that a dentry points to.
CachesInv ==
  /\ \A n \in {inode[i].ino : i \in DOMAIN inode} : Cardinality(Icached(n)) <= 1
  /\ \A d, e \in DOMAIN dentry :
       d # e /\ dentry[d].hashed /\ dentry[e].hashed =>
         <<dentry[d].parent, dentry[d].name>> # <<dentry[e].parent, dentry[e].name>>
  /\ \A d \in DOMAIN dentry : dentry[d].inode \in DOMAIN inode \cup {None}
                              /\ dentry[d].parent \in DOMAIN dentry \cup {None}
                              /\ dentry[d].count = DentryRefs(d)
                              /\ (dentry[d].hashed => dentry[d].count > 0)
  /\ \A i \in DOMAIN inode :
       /\ inode[i].count = Cardinality({d \in DOMAIN dentry : dentry[d].inode = i})
                           + Cardinality({w \in Walkers : walk[w].i = i})
                           - Cardinality({w \in Walkers : walk[w].at = "evict"
                                            /\ dentry[walk[w].drop].inode = i})
       /\ inode[i].state = "ready" /\ inode[i].hashed => inode[i].count > 0

\* A task sleeps in icache_wait_locked only while the inode it wants is being
\* read in or evicted: whoever does that will wake it.
NoLostIcacheWake ==
  \A w \in Walkers :
    nstate[w] # "RUNNABLE" =>
      \E i \in Icached(WantIno(w)) :
        \/ inode[i].state = "new" /\ \E x \in Walkers : walk[x].i = i /\ walk[x].at = "read"
        \/ inode[i].state = "freeing"
           /\ \E x \in Walkers : walk[x].at = "evict" /\ dentry[walk[x].drop].inode = i
=============================================================================
