----------------------------- MODULE PageCache -----------------------------
(***************************************************************************)
(* The page cache, mm/mapping.c: lookup and insertion, the LRU, dirty      *)
(* pages, writeback, flushing, purging and the flusher thread, above a     *)
(* block device that may fail.                                             *)
(*                                                                         *)
(* Every section under cache.mutex is one step; the steps between them are *)
(* separate, and other tasks come in.  A page's own mutex is held over     *)
(* read_page, over a change of its data and over write_page, so its holder *)
(* is part of the state.  A file's pages are used under the inode mutex    *)
(* (mapping.mutex); the metadata mapping has none, and there the callers   *)
(* (ext2_free_block, ext2_alloc_branch) purge a block only while nobody    *)
(* else uses it.  The order of the dirty list is left out, and any page of *)
(* the LRU may be its first.                                               *)
(***************************************************************************)
EXTENDS Naturals, FiniteSets, Sequences

CONSTANTS
  Users,     \* tasks in the file system
  Keys,      \* the (mapping, index) pairs in use
  FileKeys,  \* those of a mapping that has a mutex; the others share one
             \* mapping without
  Cps,       \* struct cache_page objects
  Limits,    \* values of MAPPING_CACHE_PAGES, each with the pairs that are used then
  Values,    \* page contents
  Flusher,   \* the flusher thread
  None

CacheTasks == Users \cup {Flusher}
MapOf(k) == IF k \in FileKeys THEN "file" ELSE "meta"
Mappings == {"file", "meta"}

VARIABLES
  cp,      \* the cache pages in being: [key, hashed, refs, owner, error, state,
           \* list, data]
  disk,    \* what the device holds
  merror,  \* mapping->m_error
  mrefs,   \* references that m_ops->get took and m_ops->put has not dropped
  mutex,   \* mapping->mutex of the file
  task,    \* each task: [at, key, page, list, dirty]
  panicked,\* the call whose Assert failed, or None
  limit,   \* [pages, keys]: MAPPING_CACHE_PAGES and the pairs in use
  truth    \* history: what was last written to each page

pcVars == <<cp, disk, merror, mrefs, mutex, task, panicked, limit, truth>>

Rest == [at |-> "idle", key |-> None, page |-> None, list |-> {}, dirty |-> FALSE]

PcInit ==
  /\ cp = <<>>
  /\ \E v \in Values : disk = [k \in Keys |-> v]
  /\ merror = [m \in Mappings |-> FALSE]
  /\ mrefs = [m \in Mappings |-> 0]
  /\ mutex = None
  /\ task = [t \in CacheTasks |-> Rest]
  /\ panicked = None
  /\ limit \in Limits
  /\ truth = disk

\* Where a task is; nothing moves once the kernel has panicked.
Running == panicked = None
At(t, s) == Running /\ task[t].at = s
Resting(t) == Running /\ task[t] = Rest

Live == DOMAIN cp
Without(f, x) == [y \in DOMAIN f \ {x} |-> f[y]]
With(f, x, v) == [y \in DOMAIN f \cup {x} |-> IF y = x THEN v ELSE f[y]]

\* mapping_find.
Cached(k) == {c \in Live : cp[c].hashed /\ cp[c].key = k}

\* Faulty variant: a page goes back to the LRU whoever still holds it.
ListOfAny(r) ==
  CASE ~r.hashed -> "none"
    [] r.hashed /\ r.state # "clean" -> "dirty"
    [] r.hashed /\ r.state = "clean" -> "lru"

ListOf(r) ==
  CASE ~r.hashed -> "none"
    [] r.hashed /\ r.state # "clean" -> "dirty"
    [] r.hashed /\ r.state = "clean" /\ r.refs = 1 -> "lru"
    [] OTHER -> "none"

\* mapping_link.
Link(r) == [r EXCEPT !.list = ListOf(r)]

\* mapping_put, and the page freed with the last reference.
Put(pages, c) ==
  IF pages[c].refs = 1 THEN Without(pages, c)
  ELSE [pages EXCEPT ![c] = Link([@ EXCEPT !.refs = @ - 1])]

Hold(m) == mrefs' = [mrefs EXCEPT ![m] = @ + 1]
Release(m) == mrefs' = [mrefs EXCEPT ![m] = @ - 1]

-----------------------------------------------------------------------------
(* mapping_get, by a caller that owns the mapping's mutex if it has one.   *)

\* The caller's mutex_lock of mapping->mutex, if there is one, and its unlock;
\* the lock is held until the task rests again.
Enter(t, m) ==
  /\ m = "file" => mutex = None
  /\ mutex' = IF m = "file" THEN t ELSE mutex
Leave(t) == mutex' = IF mutex = t THEN None ELSE mutex

\* The users of a page between their mapping_get and their mapping_put.
Using(k) == {u \in Users : task[u].key = k}

\* The first lookup; without a page, one is allocated and its mutex taken.
Get(u, k) ==
  /\ Resting(u) /\ Enter(u, MapOf(k))
  /\ \A x \in Using(k) : task[x].at \notin {"purge", "detach", "putPurged"}
  /\ \/ \E c \in Cached(k) :
          /\ cp' = [cp EXCEPT ![c] = Link([@ EXCEPT !.refs = @ + 1])]
          /\ task' = [task EXCEPT ![u] = [Rest EXCEPT !.at = "ready", !.key = k, !.page = c]]
     \/ /\ Cached(k) = {}
        /\ \E c \in Cps \ Live :
             /\ cp' = With(cp, c, [key |-> k, hashed |-> FALSE, refs |-> 1, owner |-> u,
                                   error |-> FALSE, state |-> "clean", list |-> "none",
                                   data |-> None])
             /\ task' = [task EXCEPT ![u] = [Rest EXCEPT !.at = "insert", !.key = k, !.page = c]]
  /\ UNCHANGED <<disk, merror, mrefs, panicked, limit, truth>>

Nr == Cardinality({c \in Live : cp[c].hashed})
Lru == {c \in Live : cp[c].list = "lru"}

\* Faulty variant: nobody is expected to have inserted the page meanwhile.
RacedNever(k) == {}

\* The second lookup.
Raced(k) == Cached(k)

\* The page enters the table; there is room, or victim leaves it.
Hashed(pages, c) == [pages EXCEPT ![c].hashed = TRUE, ![c].refs = @ + 1]

Insert(u) ==
  LET c == task[u].page
      k == task[u].key
  IN /\ At(u, "insert")
     /\ \/ \E x \in Raced(k) :
             /\ cp' = Without([cp EXCEPT ![x] = Link([@ EXCEPT !.refs = @ + 1])], c)
             /\ task' = [task EXCEPT ![u].at = "ready", ![u].page = x]
             /\ UNCHANGED <<panicked, mutex>>
        \/ /\ Raced(k) = {} /\ Nr < limit.pages
           /\ cp' = Hashed(cp, c)
           /\ task' = [task EXCEPT ![u].at = "load"]
           /\ UNCHANGED <<panicked, mutex>>
        \/ \E v \in Lru :
             /\ Raced(k) = {} /\ Nr >= limit.pages
             /\ panicked' = IF cp[v].refs # 1 \/ cp[v].state # "clean" THEN "make_room" ELSE None
             /\ cp' = IF panicked' = None THEN Hashed(Without(cp, v), c) ELSE cp
             /\ task' = [task EXCEPT ![u].at = "load"]
             /\ UNCHANGED mutex
        \/ /\ Raced(k) = {} /\ Nr >= limit.pages /\ Lru = {}   \* -ENOMEM
           /\ cp' = Without(cp, c)
           /\ task' = [task EXCEPT ![u] = Rest, ![Flusher].at = IF @ = "sleep" THEN "idle" ELSE @]
           /\ Leave(u)
           /\ UNCHANGED panicked
     /\ UNCHANGED <<disk, merror, mrefs, limit, truth>>

\* read_page; a page that could not be read leaves the table again.
Load(u) ==
  LET c == task[u].page
      k == task[u].key
  IN /\ At(u, "load")
     /\ \/ /\ cp' = [cp EXCEPT ![c].data = disk[k], ![c].owner = None]
           /\ task' = [task EXCEPT ![u].at = "use"]
        \/ /\ cp' = [cp EXCEPT ![c].error = TRUE, ![c].hashed = FALSE, ![c].refs = @ - 1,
                               ![c].owner = None]
           /\ task' = [task EXCEPT ![u].at = "put"]
     /\ UNCHANGED <<disk, merror, mrefs, mutex, panicked, limit, truth>>

\* ready: waits until whoever loads the page is done.
Ready(u) ==
  LET c == task[u].page IN
  /\ At(u, "ready") /\ cp[c].owner = None
  /\ task' = [task EXCEPT ![u].at = IF cp[c].error THEN "put" ELSE "use"]
  /\ UNCHANGED <<cp, disk, merror, mrefs, mutex, panicked, limit, truth>>

\* The caller changes the data under the page mutex, and mapping_dirty.
Dirty(u) ==
  LET c == task[u].page
      k == task[u].key
      first == cp[c].state # "dirty"
  IN /\ At(u, "use") /\ cp[c].owner = None
     /\ panicked' = IF cp[c].hashed THEN None ELSE "dirty"
     /\ \E v \in Values :
          /\ cp' = [cp EXCEPT ![c] = Link([@ EXCEPT !.data = v, !.state = "dirty"])]
          /\ truth' = [truth EXCEPT ![k] = v]
     /\ IF first THEN Hold(MapOf(k)) ELSE UNCHANGED mrefs
     /\ task' = [task EXCEPT ![u].at = "put"]
     /\ UNCHANGED <<disk, merror, mutex, limit>>

PutPage(u) ==
  /\ (At(u, "use") \/ At(u, "put"))
  /\ cp' = Put(cp, task[u].page)
  /\ task' = [task EXCEPT ![u] = Rest]
  /\ Leave(u)
  /\ UNCHANGED <<disk, merror, mrefs, panicked, limit, truth>>

-----------------------------------------------------------------------------
(* mapping_purge of one page; its contents are not wanted any more.        *)

\* The loop looks for a page of the range ...
PurgeFind(u, k) ==
  /\ \/ Resting(u) /\ Using(k) = {} /\ Cached(k) # {} /\ Enter(u, MapOf(k))
     \/ At(u, "purge") /\ task[u].key = k /\ Cached(k) # {} /\ UNCHANGED mutex
     \/ At(u, "purge") /\ task[u].key = k /\ Cached(k) = {} /\ Leave(u)
  /\ \/ \E c \in Cached(k) :
          /\ cp' = [cp EXCEPT ![c].refs = @ + 1]
          /\ task' = [task EXCEPT ![u] = [Rest EXCEPT !.at = "detach", !.key = k, !.page = c]]
     \/ /\ Cached(k) = {}
        /\ task' = [task EXCEPT ![u] = Rest]
        /\ UNCHANGED cp
  /\ UNCHANGED <<disk, merror, mrefs, panicked, limit, truth>>

\* ... and takes it out of the table under both mutexes.
PurgeDetach(u) ==
  LET c == task[u].page
      k == task[u].key
      in == cp[c].hashed
  IN /\ At(u, "detach") /\ cp[c].owner = None
     /\ panicked' = IF in /\ cp[c].state = "writeback" THEN "purge" ELSE None
     /\ cp' = IF in THEN [cp EXCEPT ![c].hashed = FALSE, ![c].state = "clean",
                                    ![c].list = "none", ![c].refs = @ - 1]
              ELSE cp
     /\ task' = [task EXCEPT ![u].at = "putPurged", ![u].dirty = in /\ cp[c].state = "dirty"]
     /\ truth' = IF in THEN [truth EXCEPT ![k] = disk[k]] ELSE truth
     /\ UNCHANGED <<disk, merror, mrefs, mutex, limit>>

PurgePut(u) ==
  /\ At(u, "putPurged")
  /\ cp' = Put(cp, task[u].page)
  /\ IF task[u].dirty THEN Release(MapOf(task[u].key)) ELSE UNCHANGED mrefs
  /\ task' = [task EXCEPT ![u] = [Rest EXCEPT !.at = "purge", !.key = task[u].key]]
  /\ UNCHANGED <<disk, merror, mutex, panicked, limit, truth>>

-----------------------------------------------------------------------------
(* mapping_flush, mapping_writeback and the flusher.                       *)

\* mapping_collect: the dirty pages of one mapping, or of all.
Collected(ms) == {c \in Live : cp[c].list = "dirty" /\ MapOf(cp[c].key) \in ms}

Collect(t, ms, next) ==
  LET pages == Collected(ms) IN
  /\ cp' = [c \in Live |-> IF c \in pages THEN [cp[c] EXCEPT !.refs = @ + 1] ELSE cp[c]]
  /\ mrefs' = [m \in Mappings |->
                 mrefs[m] + Cardinality({c \in pages : MapOf(cp[c].key) = m})]
  /\ task' = [task EXCEPT ![t] = [Rest EXCEPT !.at = next, !.list = pages]]

Flush(u) ==
  /\ Resting(u)
  /\ \E m \in Mappings :
       /\ Enter(u, m)
       /\ Collect(u, {m}, "flush")
  /\ UNCHANGED <<disk, merror, panicked, limit, truth>>

FlusherCollect ==
  /\ At(Flusher, "idle")
  /\ \/ /\ Collected(Mappings) # {}
        /\ Collect(Flusher, Mappings, "flush")
     \/ /\ Collected(Mappings) = {}
        /\ task' = [task EXCEPT ![Flusher].at = "sleep"]
        /\ UNCHANGED <<cp, mrefs>>
  /\ UNCHANGED <<disk, merror, mutex, panicked, limit, truth>>

\* mapping_writeback of the next page, up to write_page; the flusher locks the
\* file's mutex around it.
Writeback(t) ==
  /\ At(t, "flush")
  /\ \/ \E c \in task[t].list :
          LET k == cp[c].key
              dirty == cp[c].state = "dirty"
          IN /\ cp[c].owner = None
             /\ t = Flusher /\ k \in FileKeys => mutex = None
             /\ mutex' = IF t = Flusher /\ k \in FileKeys THEN t ELSE mutex
             /\ cp' = IF dirty
                      THEN [cp EXCEPT ![c] = Link([@ EXCEPT !.state = "writeback",
                                                            !.refs = @ + 1, !.owner = t])]
                      ELSE cp
             /\ task' = [task EXCEPT ![t].at = IF dirty THEN "write" ELSE "putFlushed",
                                     ![t].list = @ \ {c}, ![t].page = c]
     \/ /\ task[t].list = {}
        /\ task' = [task EXCEPT ![t] = Rest]
        /\ Leave(t)
        /\ UNCHANGED cp
  /\ UNCHANGED <<disk, merror, mrefs, panicked, limit, truth>>

\* Faulty variant: an error is not remembered.
ErrorAfterNone(m, failed) == merror[m]

ErrorAfter(m, failed) == merror[m] \/ failed

\* write_page and what follows it.
Written(t) ==
  LET c == task[t].page
      k == cp[c].key
  IN /\ At(t, "write")
     /\ \E failed \in BOOLEAN :
          /\ disk' \in IF failed THEN {disk, [disk EXCEPT ![k] = cp[c].data]}
                       ELSE {[disk EXCEPT ![k] = cp[c].data]}
          /\ merror' = [merror EXCEPT ![MapOf(k)] = ErrorAfter(MapOf(k), failed)]
     /\ cp' = [cp EXCEPT ![c] = Link([@ EXCEPT !.state = "clean", !.refs = @ - 1,
                                               !.owner = None])]
     /\ Release(MapOf(k))
     /\ task' = [task EXCEPT ![t].at = "putFlushed"]
     /\ UNCHANGED <<mutex, panicked, limit, truth>>

PutFlushed(t) ==
  LET c == task[t].page
      k == cp[c].key
  IN /\ At(t, "putFlushed")
     /\ mutex' = IF t = Flusher /\ k \in FileKeys THEN None ELSE mutex
     /\ cp' = Put(cp, c)
     /\ Release(MapOf(k))
     /\ task' = [task EXCEPT ![t].at = "flush", ![t].page = None]
     /\ UNCHANGED <<disk, merror, panicked, limit, truth>>

PcNext ==
  \/ \E u \in Users :
       \/ \E k \in limit.keys : Get(u, k) \/ PurgeFind(u, k)
       \/ Insert(u) \/ Load(u) \/ Ready(u) \/ Dirty(u) \/ PutPage(u)
       \/ PurgeDetach(u) \/ PurgePut(u)
       \/ Flush(u)
  \/ FlusherCollect
  \/ \E t \in CacheTasks : Writeback(t) \/ Written(t) \/ PutFlushed(t)
  \/ ~Running /\ UNCHANGED pcVars

PcSpec == PcInit /\ [][PcNext]_pcVars

-----------------------------------------------------------------------------
(* Properties.                                                             *)

Holders(c) ==
  Cardinality({t \in CacheTasks : task[t].page = c})
  + Cardinality({t \in CacheTasks : c \in task[t].list})
  + Cardinality({t \in CacheTasks : task[t].page = c /\ task[t].at = "write"})
  + IF cp[c].hashed THEN 1 ELSE 0

Counts(m) ==
  Cardinality({c \in Live : MapOf(cp[c].key) = m /\ cp[c].state # "clean"})
  + Cardinality({x \in Live \X CacheTasks : MapOf(cp[x[1]].key) = m /\ x[1] \in task[x[2]].list})
  + Cardinality({t \in CacheTasks : task[t].at \in {"write", "putFlushed"}
                                   /\ MapOf(cp[task[t].page].key) = m})
  + Cardinality({t \in CacheTasks : task[t].at = "putPurged" /\ task[t].dirty
                                   /\ MapOf(task[t].key) = m})

\* mm/mapping.c keeps one cached page per (mapping, index), never more than
\* MAPPING_CACHE_PAGES, each with exactly the references of the table and of the
\* tasks that use it, and as many references on the inode as dirty pages and
\* collected pages need; what is on the LRU is clean and used by nobody, except by a
\* purge that found it: a page is not freed under a user, and the inode is not
\* evicted under a dirty page.  Nobody dirties a page that has left the table or
\* purges one that is being written (the Asserts of mapping_dirty, mapping_purge).
CacheInv ==
  /\ panicked \in {None, "make_room"}
  /\ Running =>
    /\ \A k \in Keys : Cardinality(Cached(k)) <= 1
    /\ Nr <= limit.pages
    /\ \A t \in CacheTasks : task[t].list \subseteq Live /\ task[t].page \in Live \cup {None}
    /\ \A c \in Live : cp[c].refs = Holders(c)
    /\ \A c \in Lru : cp[c].state = "clean"
                     /\ (cp[c].refs = 1 \/ \E u \in Users : task[u].page = c /\ task[u].at = "detach")
    /\ \A m \in Mappings : mrefs[m] = Counts(m)

\* No write is lost: while no writeback of the mapping has failed, a cached page
\* holds what was last written to it, and the device does when the page is clean
\* or not cached, whatever eviction, flusher and purge did in between.
DataInv ==
  \A k \in Keys :
    ~merror[MapOf(k)] /\ Running =>
      /\ \A c \in Cached(k) : cp[c].data # None => cp[c].data = truth[k]
      /\ (\A c \in Cached(k) : cp[c].data # None => cp[c].state = "clean") => disk[k] = truth[k]

\* Assert of mapping_make_room: "busy page on the mapping LRU".
NoBusyVictim == panicked # "make_room"
=============================================================================
