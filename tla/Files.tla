------------------------------- MODULE Files -------------------------------
(* Descriptor tables and open files: fs/vfs/fdtable.c, fs/vfs/file.c, the    *)
(* descriptor side of pipe2 and the table's part in fork, exec and exit.     *)
(*                                                                           *)
(* A table belongs to one task, which runs one system call at a time; open   *)
(* files and the directories they and the working directories pin are shared *)
(* after fork.  A call that uses a file takes a reference, may wait for the  *)
(* file position, works, and drops the reference: other tasks run between.   *)
EXTENDS Integers, FiniteSets, FiniteSetsExt

CONSTANTS
  Tasks, FirstTask,
  NFds,         \* BITS_PER_LONG
  NStdio,       \* descriptors fdtable_init reserves
  Files,
  Nodes,        \* the paths that are opened: "dir" and "reg"
  Asks,         \* pairs of a path and the access it is opened for
  Ops,          \* the calls on an open file that are made
  MaxPos, None

Fds == 0 .. NFds - 1

FilesAssumption ==
  FirstTask \in Tasks /\ NStdio <= NFds /\ Nodes \subseteq {"dir", "reg"} /\ None \notin Files

VARIABLES
  tab,          \* task -> [bits, cloexec, files]
  file,         \* file -> [count, kind, mode, pos, lock], and in want the
                \* position its users have moved it to
  call,         \* task -> the call it is in
  cwd,          \* task -> its working directory, None when it is not alive
  prefs         \* node -> references that struct path holds

filesVars == <<tab, file, call, cwd, prefs>>

NoFile == [count |-> 0, kind |-> "none", mode |-> "none", pos |-> 0, want |-> 0,
           lock |-> None]
NoTable == [bits |-> {}, cloexec |-> {}, files |-> [fd \in Fds |-> None]]
NoCall == [at |-> "none"]

Live == {t \in Tasks : cwd[t] # None}
Idle(t) == t \in Live /\ call[t] = NoCall
Free == {f \in Files : file[f].count = 0}
One(b) == IF b THEN 1 ELSE 0

FilesInit ==
  /\ tab = [t \in Tasks |-> IF t = FirstTask THEN [NoTable EXCEPT !.bits = 0 .. NStdio - 1]
                            ELSE NoTable]
  /\ file = [f \in Files |-> NoFile]
  /\ call = [t \in Tasks |-> NoCall]
  /\ cwd = [t \in Tasks |-> IF t = FirstTask THEN "dir" ELSE None]
  /\ prefs = [n \in Nodes |-> One(n = "dir")]

-----------------------------------------------------------------------------
(* References. *)

\* fput, k[f] times for each file f: the last one releases the path
Dropped(k) == {f \in Files : k[f] > 0 /\ file[f].count = k[f]}
Fput(k) == file' = [f \in Files |-> IF f \in Dropped(k) THEN NoFile
                                    ELSE [file[f] EXCEPT !.count = @ - k[f]]]
PathsOf(k, n) == Cardinality({f \in Dropped(k) : file[f].kind = n})
Only(f) == [g \in Files |-> One(g = f)]

\* how many descriptors of S refer to each file
Uses(t, S) == [f \in Files |-> Cardinality({fd \in S : tab[t].files[fd] = f})]

\* fget
Get(f, k) == [file EXCEPT ![f].count = @ + k]

\* find_next_zero_bit from min on; NFds for -EMFILE
AllocFrom(t, min) == Min({fd \in Fds \ tab[t].bits : fd >= min} \cup {NFds})

\* fd_replace
Replaced(tb, fd, f, cloexec) ==
  [bits |-> tb.bits \cup {fd}, files |-> [tb.files EXCEPT ![fd] = f],
   cloexec |-> IF cloexec THEN tb.cloexec \cup {fd} ELSE tb.cloexec \ {fd}]

\* fd_install leaves the close-on-exec bit as it finds it
Installed(tb, fd, f) == [tb EXCEPT !.bits = @ \cup {fd}, !.files[fd] = f]

\* Faulty variant: the close-on-exec bits stay.
ClosedBits(tb, S) ==
  [tb EXCEPT !.bits = @ \ S, !.files = [fd \in Fds |-> IF fd \in S THEN None ELSE @[fd]]]

\* fd_close of the descriptors in S
Closed(tb, S) ==
  [bits |-> tb.bits \ S, cloexec |-> tb.cloexec \ S,
   files |-> [fd \in Fds |-> IF fd \in S THEN None ELSE tb.files[fd]]]

-----------------------------------------------------------------------------
(* Calls that change a table. *)

\* vfs_open and sys_openat; without a free descriptor the file is put again
Open(t, n, mode, cloexec) ==
  LET fd == AllocFrom(t, 0)
      f == CHOOSE f \in Free : TRUE
  IN /\ Idle(t) /\ Free # {} /\ fd < NFds
     /\ n = "dir" => mode = "r"
     /\ file' = [file EXCEPT ![f] = [NoFile EXCEPT !.count = 1, !.kind = n, !.mode = mode]]
     /\ prefs' = [prefs EXCEPT ![n] = @ + 1]
     /\ tab' = [tab EXCEPT ![t] = Replaced(@, fd, f, cloexec)]
     /\ UNCHANGED <<call, cwd>>

\* sys_pipe2; when a descriptor, memory or the user's array is missing, both
\* reservations are given back
Pipe2(t, cloexec) ==
  LET r == CHOOSE f \in Free : TRUE
      w == CHOOSE f \in Free \ {r} : TRUE
      fd0 == AllocFrom(t, 0)
      fd1 == AllocFrom(t, fd0 + 1)
      Pipe(mode) == [NoFile EXCEPT !.count = 1, !.kind = "pipe", !.mode = mode]
  IN /\ Idle(t) /\ Cardinality(Free) > 1 /\ fd1 < NFds
     /\ file' = [file EXCEPT ![r] = Pipe("r"), ![w] = Pipe("w")]
     /\ tab' = [tab EXCEPT ![t] = Replaced(Replaced(@, fd0, r, cloexec), fd1, w, cloexec)]
     /\ UNCHANGED <<call, cwd, prefs>>

\* sys_close
Close(t, fd) ==
  LET k == Uses(t, {fd})
  IN /\ Idle(t) /\ tab[t].files[fd] # None
     /\ Fput(k)
     /\ prefs' = [n \in Nodes |-> prefs[n] - PathsOf(k, n)]
     /\ tab' = [tab EXCEPT ![t] = Closed(@, {fd})]
     /\ UNCHANGED <<call, cwd>>

\* sys_dup
Dup(t, old) ==
  LET f == tab[t].files[old]
      fd == AllocFrom(t, 0)
  IN /\ Idle(t) /\ f # None /\ fd < NFds
     /\ file' = Get(f, 1)
     /\ tab' = [tab EXCEPT ![t] = Installed(@, fd, f)]
     /\ UNCHANGED <<call, cwd, prefs>>

\* fcntl F_DUPFD and F_DUPFD_CLOEXEC
DupFd(t, old, min, cloexec) ==
  LET f == tab[t].files[old]
      fd == AllocFrom(t, min)
  IN /\ Idle(t) /\ f # None /\ fd < NFds
     /\ file' = Get(f, 1)
     /\ tab' = [tab EXCEPT ![t] = Replaced(@, fd, f, cloexec)]
     /\ UNCHANGED <<call, cwd, prefs>>

\* sys_dup3: the file that was there is put after the table is unlocked
Dup3(t, old, new, cloexec) ==
  LET f == tab[t].files[old]
      k == Uses(t, {new})
  IN /\ Idle(t) /\ f # None /\ old # new
     /\ file' = [g \in Files |->
                   IF g \in Dropped(k) /\ g # f THEN NoFile
                   ELSE [file[g] EXCEPT !.count = @ + One(g = f) - k[g]]]
     /\ prefs' = [n \in Nodes |->
                    prefs[n] - Cardinality({g \in Dropped(k) \ {f} : file[g].kind = n})]
     /\ tab' = [tab EXCEPT ![t] = Replaced(@, new, f, cloexec)]
     /\ UNCHANGED <<call, cwd>>

\* fcntl F_SETFD
SetCloexec(t, fd, on) ==
  /\ Idle(t) /\ tab[t].files[fd] # None
  /\ tab' = [tab EXCEPT ![t].cloexec = IF on THEN @ \cup {fd} ELSE @ \ {fd}]
  /\ UNCHANGED <<file, call, cwd, prefs>>

\* Faulty variant: the copied descriptors hold no references.
CloneGetsNone(t) == [f \in Files |-> file[f]]

\* the table's part of clone: fdtable_clone and the working directory
CloneGets(t) == [f \in Files |-> [file[f] EXCEPT !.count = @ + Uses(t, Fds)[f]]]
Fork(t, c) ==
  /\ Idle(t) /\ c \notin Live
  /\ tab' = [tab EXCEPT ![c] = tab[t]]
  /\ file' = CloneGets(t)
  /\ cwd' = [cwd EXCEPT ![c] = cwd[t]]
  /\ prefs' = [prefs EXCEPT ![cwd[t]] = @ + 1]
  /\ UNCHANGED <<call>>

\* fdtable_close_on_exec
Exec(t) ==
  LET S == {fd \in tab[t].cloexec : tab[t].files[fd] # None}
      k == Uses(t, S)
  IN /\ Idle(t) /\ tab[t].cloexec # {}
     /\ Fput(k)
     /\ prefs' = [n \in Nodes |-> prefs[n] - PathsOf(k, n)]
     /\ tab' = [tab EXCEPT ![t] = Closed(@, S)]
     /\ UNCHANGED <<call, cwd>>

\* free_resource: fdtable_destroy and the working directory; the first task
\* does not exit
Exit(t) ==
  LET k == Uses(t, tab[t].bits)
  IN /\ Idle(t) /\ t # FirstTask
     /\ Fput(k)
     /\ prefs' = [n \in Nodes |-> prefs[n] - PathsOf(k, n) - One(n = cwd[t])]
     /\ tab' = [tab EXCEPT ![t] = NoTable]
     /\ cwd' = [cwd EXCEPT ![t] = None]
     /\ UNCHANGED <<call>>

\* sys_chdir
Chdir(t) ==
  /\ Idle(t)
  /\ prefs' = [prefs EXCEPT !["dir"] = @ + 1 - One(cwd[t] = "dir")]
  /\ cwd' = [cwd EXCEPT ![t] = "dir"]
  /\ UNCHANGED <<tab, file, call>>

-----------------------------------------------------------------------------
(* Calls that use an open file. *)

\* what each call demands of the file before it works on it: FILE_READ or
\* FILE_WRITE, and for the calls with an offset of their own llseek ...
AdmitsIo(op, f) ==
  CASE op \in {"read", "readv"} -> file[f].mode # "w"
    [] op \in {"write", "writev"} -> file[f].mode # "r"
    [] op = "pread" -> file[f].kind # "pipe" /\ file[f].mode # "w"
    [] op = "pwrite" -> file[f].kind # "pipe" /\ file[f].mode # "r"
    [] OTHER -> FALSE

\* ... and for the others an operation of the file, or a kind
AdmitsMeta(op, f) ==
  CASE op = "lseek" -> file[f].kind # "pipe"
    [] op = "getdents" -> file[f].kind = "dir"
    [] op = "ftruncate" -> file[f].kind = "reg" /\ file[f].mode # "r"
    [] op = "fsync" -> file[f].kind = "reg"
    [] op = "fchdir" -> file[f].kind = "dir"
    [] OTHER -> op = "fstat"

\* Faulty variant: lseek does not lock.
PositionedNoSeek == {"read", "write", "readv", "writev", "getdents"}

\* the calls that hold f_pos_lock: ext2_llseek does too
Positioned == {"read", "write", "readv", "writev", "getdents", "lseek"}

\* the calls that move the position
Moving == {"read", "write", "readv", "writev", "getdents", "lseek"}

\* fd_open and the checks
Begin(t, fd, op) ==
  LET f == tab[t].files[fd]
  IN /\ Idle(t) /\ f # None
     /\ AdmitsIo(op, f) \/ AdmitsMeta(op, f)
     /\ file' = Get(f, 1)
     /\ call' = [call EXCEPT ![t] = [op |-> op, f |-> f, pos |-> 0,
                       at |-> IF op \in Positioned THEN "lock" ELSE "work"]]
     /\ UNCHANGED <<tab, cwd, prefs>>

\* f_pos_lock is taken and the position read
LockPos(t) ==
  LET f == call[t].f
  IN /\ call[t].at = "lock" /\ file[f].lock = None
     /\ file' = [file EXCEPT ![f].lock = t]
     /\ call' = [call EXCEPT ![t].at = "work", ![t].pos = file[f].pos]
     /\ UNCHANGED <<tab, cwd, prefs>>

\* mutex_lock_interruptible gives up
Interrupted(t) ==
  /\ call[t].at = "lock" /\ call[t].op # "lseek"
  /\ call' = [call EXCEPT ![t] = [at |-> "put", f |-> call[t].f]]
  /\ UNCHANGED <<tab, file, cwd, prefs>>

\* file_read, file_write and getdents move the position they read by what they
\* did, which is nothing for a pipe or a directory that is read, and seek sets
\* it; then the lock is released
Move(t, n) ==
  LET f == call[t].f
      pos == IF call[t].op = "lseek" THEN n ELSE call[t].pos + n
  IN /\ call[t].at = "work" /\ call[t].op \in Moving
     /\ pos <= MaxPos
     /\ file[f].kind # "reg" /\ call[t].op \notin {"getdents", "lseek"} => n = 0
     /\ file' = [file EXCEPT ![f].pos = pos, ![f].want = IF call[t].op = "lseek" THEN n ELSE @ + n,
                             ![f].lock = IF @ = t THEN None ELSE @]
     /\ call' = [call EXCEPT ![t] = [at |-> "put", f |-> f]]
     /\ UNCHANGED <<tab, cwd, prefs>>

\* pread, fstat and the like leave the file alone; fchdir moves the working
\* directory
Work(t) ==
  LET op == call[t].op
  IN /\ call[t].at = "work" /\ op \notin Moving
     /\ call' = [call EXCEPT ![t] = [at |-> "put", f |-> call[t].f]]
     /\ IF op = "fchdir"
        THEN /\ prefs' = [prefs EXCEPT !["dir"] = @ + 1 - One(cwd[t] = "dir")]
             /\ cwd' = [cwd EXCEPT ![t] = "dir"]
        ELSE UNCHANGED <<cwd, prefs>>
     /\ UNCHANGED <<tab, file>>

\* the reference of the call goes
Finish(t) ==
  LET k == Only(call[t].f)
  IN /\ call[t].at = "put"
     /\ Fput(k)
     /\ prefs' = [n \in Nodes |-> prefs[n] - PathsOf(k, n)]
     /\ call' = [call EXCEPT ![t] = NoCall]
     /\ UNCHANGED <<tab, cwd>>

FilesNext ==
  \/ \E t \in Tasks :
       \/ Exec(t) \/ Exit(t) \/ Chdir(t) \/ LockPos(t) \/ Interrupted(t) \/ Work(t)
       \/ Finish(t)
       \/ \E c \in Tasks : Fork(t, c)
       \/ \E n \in 0 .. MaxPos : Move(t, n)
       \/ \E fd \in Fds : Close(t, fd) \/ Dup(t, fd) \/ \E op \in Ops : Begin(t, fd, op)
       \/ \E b \in BOOLEAN :
            \/ Pipe2(t, b)
            \/ \E a \in Asks : Open(t, a[1], a[2], b)
            \/ \E fd \in Fds : SetCloexec(t, fd, b)
            \/ \E fd, new \in Fds : DupFd(t, fd, new, b) \/ Dup3(t, fd, new, b)

FilesSpec == FilesInit /\ [][FilesNext]_filesVars

-----------------------------------------------------------------------------
(* An open file lives exactly as long as a descriptor of some task or a call *)
(* in progress uses it, whatever the tasks that share it after fork close,   *)
(* replace, or lose by exec and exit; likewise the directories that files    *)
(* and working directories pin.  A descriptor is allocated exactly when it   *)
(* holds a file (the standard ones may be reserved) and a free one carries   *)
(* no close-on-exec mark into its next use (fdtable.c, fget, fput, fchdir).  *)
FdInv ==
  /\ \A f \in Files :
       file[f].count = Cardinality({<<t, fd>> \in Tasks \X Fds : tab[t].files[fd] = f})
                       + Cardinality({t \in Tasks : call[t] # NoCall /\ call[t].f = f})
  /\ \A n \in Nodes : prefs[n] = Cardinality({f \in Files : file[f].kind = n})
                                 + Cardinality({t \in Tasks : cwd[t] = n})
  /\ \A t \in Live : /\ \A fd \in Fds : tab[t].files[fd] # None => fd \in tab[t].bits
                     /\ \A fd \in tab[t].bits : tab[t].files[fd] # None \/ fd < NStdio
                     /\ tab[t].cloexec \subseteq tab[t].bits

(* Tasks that share an open file never lose each other's moves: while nobody *)
(* holds f_pos_lock the position is the sum of what reads, writes and        *)
(* getdents did since the last seek (file_read, file_write, sys_getdents64,  *)
(* ext2_llseek).                                                             *)
SeekInv == \A f \in Files : file[f].count > 0 /\ file[f].lock = None =>
                              file[f].pos = file[f].want
=============================================================================
