-------------------------------- MODULE Pid --------------------------------
(***************************************************************************)
(* Process identities, kernel/pid.c: the bitmap of numbers, the reference  *)
(* counts and the hash table of struct pid, process groups and sessions.   *)
(* A number stands for its struct pid: the bit is set before the struct is *)
(* reachable and cleared before it is freed.  A step is a critical section *)
(* of pid_lock, or a pid_put outside it.  TID and TGID are the same.       *)
(***************************************************************************)
EXTENDS Integers, Sequences, FiniteSets, FiniteSetsExt

CONSTANTS Tasks, InitTask, PidMax

PidInit == 1
Numbers == PidInit .. PidMax - 1
Types == {"TID", "TGID", "PGID", "SID"}

PidAssumption == InitTask \in Tasks /\ PidMax \in Nat /\ PidMax > PidInit + 1

VARIABLES
  phase,    \* "free", "alloc" (pid_alloc), "new" (pid_prepare), "live", "zombie", "reaped"
  pids,     \* task.pids; 0 is NULL
  parent, noexec,  \* task.parent, TF_FORKNOEXEC
  pidmap, nextPid, \* the bitmap and next_pid
  refs,     \* pid.refcount
  hashed,   \* numbers in pid_table
  held,     \* references of sys_setpgid and sys_setsid that are still to be put
  todo      \* the tasks a sys_kill has yet to signal, each with its TID when found

taskVars == <<phase, pids, parent, noexec>>
mapVars  == <<pidmap, nextPid>>
vars     == <<taskVars, mapVars, refs, hashed, held, todo>>

NoPids == [ty \in Types |-> 0]

Init ==
  /\ phase = [t \in Tasks |-> IF t = InitTask THEN "live" ELSE "free"]
  /\ pids = [t \in Tasks |-> IF t = InitTask THEN [ty \in Types |-> PidInit] ELSE NoPids]
  /\ parent = [t \in Tasks |-> InitTask] /\ noexec = {}
  /\ pidmap = {PidInit} /\ nextPid = PidInit + 1
  /\ refs = [n \in Numbers |-> IF n = PidInit THEN 4 ELSE 0]
  /\ hashed = {PidInit}
  /\ held = [t \in Tasks |-> <<>>] /\ todo = [t \in Tasks |-> {}]

Published == {t \in Tasks : phase[t] \in {"live", "zombie"}}

\* pid->tasks[ty] when the tasks of P are linked and have these pids.
Members(P, ids, n, ty) == {t \in P : ids[t][ty] = n}

Used(P, ids, n) == \E ty \in Types : Members(P, ids, n, ty) # {}

\* How many references ids[t] holds to n.
Count(id, n) == Cardinality({ty \in Types : id[ty] = n})

-----------------------------------------------------------------------------
(* Numbers.                                                                *)

FindNextZeroBit(limit, from) ==
  LET free == {n \in from .. limit - 1 : n \notin pidmap} IN
  IF free = {} THEN limit ELSE Min(free)

\* Faulty variant: the search does not start again at the bottom.
PidFoundNoWrap == FindNextZeroBit(PidMax, nextPid)

\* The number pid_alloc takes; PidMax stands for -EAGAIN.
PidFound ==
  LET nr == FindNextZeroBit(PidMax, nextPid)
      low == FindNextZeroBit(nextPid, PidInit)
  IN IF nr # PidMax THEN nr ELSE IF low # nextPid THEN low ELSE PidMax

NextPid(n) == IF n + 1 = PidMax THEN PidInit ELSE n + 1

\* Faulty variant: the group and the session are not counted.
PrepareRefsOwn(n, id) == [refs EXCEPT ![n] = 4]

\* Every identity is counted, and the reference of pid_alloc is put at the end.
PrepareRefs(n, id) == [m \in Numbers |-> refs[m] + Count(id, m) - (IF m = n THEN 1 ELSE 0)]

\* t executes its program: it is in no system call.
Idle(t) ==
  /\ phase[t] = "live" /\ held[t] = <<>> /\ todo[t] = {}
  /\ \A c \in Tasks : phase[c] \in {"alloc", "new"} => parent[c] # t

\* sys_clone: task_alloc, and pid_alloc at the start of pid_prepare.
PidAlloc(p, c) ==
  LET n == PidFound IN
  /\ Idle(p) /\ phase[c] = "free" /\ n # PidMax
  /\ pidmap' = pidmap \cup {n}
  /\ nextPid' = NextPid(n)
  /\ refs' = [refs EXCEPT ![n] = 1]
  /\ pids' = [pids EXCEPT ![c] = [NoPids EXCEPT !["TID"] = n, !["TGID"] = n]]
  /\ phase' = [phase EXCEPT ![c] = "alloc"]
  /\ parent' = [parent EXCEPT ![c] = p]
  /\ noexec' = noexec \cup {c}
  /\ UNCHANGED <<hashed, held, todo>>

\* The rest of it: the group and the session are those the parent has by then.
PidPrepare(c) ==
  LET p == parent[c]
      id == [pids[c] EXCEPT !["PGID"] = pids[p]["PGID"], !["SID"] = pids[p]["SID"]]
  IN
  /\ phase[c] = "alloc"
  /\ refs' = PrepareRefs(id["TID"], id)
  /\ pids' = [pids EXCEPT ![c] = id]
  /\ phase' = [phase EXCEPT ![c] = "new"]
  /\ UNCHANGED <<parent, noexec, mapVars, hashed, held, todo>>

\* Faulty variant: the number is given back when it is not in the table.
UnreferencedUnhashed(n) == n \notin hashed

Unreferenced(n) == refs[n] = 0

\* pid_put, when the count is zero: the bit is cleared and the struct is freed.
PidPut(n) ==
  /\ n \in pidmap /\ Unreferenced(n)
  /\ pidmap' = pidmap \ {n}
  /\ UNCHANGED <<taskVars, nextPid, refs, hashed, held, todo>>

-----------------------------------------------------------------------------
(* The life of a task, as far as it changes its identities.                *)

PidPublish(t) ==
  /\ phase[t] = "new"
  /\ phase' = [phase EXCEPT ![t] = "live"]
  /\ hashed' = hashed \cup {pids[t][ty] : ty \in Types}
  /\ UNCHANGED <<pids, parent, noexec, mapVars, refs, held, todo>>

\* sys_execve clears TF_FORKNOEXEC.
Exec(t) ==
  /\ Idle(t) /\ t \in noexec
  /\ noexec' = noexec \ {t}
  /\ UNCHANGED <<phase, pids, parent, mapVars, refs, hashed, held, todo>>

\* A task in user mode exits; its children go to init, pid_reparent.
Exit(t) ==
  /\ Idle(t) /\ t # InitTask
  /\ phase' = [phase EXCEPT ![t] = "zombie"]
  /\ parent' = [c \in Tasks |-> IF parent[c] = t THEN InitTask ELSE parent[c]]
  /\ UNCHANGED <<pids, noexec, mapVars, refs, hashed, held, todo>>

\* Faulty variant: only the task's own number leaves the table.
UnhashOwn(P, ids, t) == {ids[t]["TID"]}

\* unhash_unused_pid, for the identities t had.
UnhashUnused(P, ids, t) == {n \in {pids[t][ty] : ty \in Types} : ~Used(P, ids, n)}

\* sys_wait4 of its parent: pid_unpublish.
PidUnpublish(t) ==
  /\ phase[t] = "zombie"
  /\ phase' = [phase EXCEPT ![t] = "reaped"]
  /\ hashed' = hashed \ UnhashUnused(Published \ {t}, pids, t)
  /\ UNCHANGED <<pids, parent, noexec, mapVars, refs, held, todo>>

\* Faulty variant: the senders of signals take no reference.
HeldBySenderNot(t) == FALSE

\* task_get under pid_lock: the task is not freed before it was signalled.
HeldBySender(t) == \E s \in Tasks : \E x \in todo[s] : x[1] = t

\* The last task_put drops the references.
TaskPut(t) ==
  /\ phase[t] = "reaped" /\ ~HeldBySender(t)
  /\ phase' = [phase EXCEPT ![t] = "free"]
  /\ refs' = [n \in Numbers |-> refs[n] - Count(pids[t], n)]
  /\ pids' = [pids EXCEPT ![t] = NoPids]
  /\ parent' = [parent EXCEPT ![t] = InitTask] /\ noexec' = noexec \ {t}
  /\ UNCHANGED <<mapVars, hashed, held, todo>>

-----------------------------------------------------------------------------
(* Groups and sessions.                                                    *)

\* change_pid for t, which gets the identities id; the caller holds the old ones
\* until it has dropped pid_lock.
ChangePid(caller, t, id, old) ==
  /\ pids' = [pids EXCEPT ![t] = id]
  /\ refs' = [n \in Numbers |-> refs[n] + Count(id, n) - Count(pids[t], n)
                                + Cardinality({i \in DOMAIN old : old[i] = n})]
  /\ hashed' = hashed \ UnhashUnused(Published, pids', t)
  /\ held' = [held EXCEPT ![caller] = old]

MaySetpgid(cur, t) ==
  /\ \/ t = cur
     \/ parent[t] = cur /\ pids[t]["SID"] = pids[cur]["SID"] /\ t \in noexec
  /\ pids[t]["SID"] # pids[t]["TGID"]

\* The group may be t's own, or one whose first member is in t's session; the order
\* of the members is left out.
MayJoin(t, g) ==
  \/ g = pids[t]["TGID"]
  \/ \E m \in Members(Published, pids, g, "PGID") : pids[m]["SID"] = pids[t]["SID"]

SysSetpgid(cur, t, g) ==
  /\ Idle(cur) /\ t \in Published
  /\ MaySetpgid(cur, t) /\ g \in hashed /\ MayJoin(t, g) /\ g # pids[t]["PGID"]
  /\ ChangePid(cur, t, [pids[t] EXCEPT !["PGID"] = g], <<pids[t]["PGID"]>>)
  /\ UNCHANGED <<phase, parent, noexec, mapVars, todo>>

\* pid_setsid.
SysSetsid(t) ==
  LET n == pids[t]["TGID"] IN
  /\ Idle(t)
  /\ pids[t]["SID"] # n /\ Members(Published, pids, n, "PGID") = {}
  /\ ChangePid(t, t, [ty \in Types |-> n], <<pids[t]["PGID"], pids[t]["SID"]>>)
  /\ UNCHANGED <<phase, parent, noexec, mapVars, todo>>

\* pid_put of the old identities after the unlock.
PutOld(t) ==
  /\ held[t] # <<>>
  /\ refs' = [refs EXCEPT ![Head(held[t])] = @ - 1]
  /\ held' = [held EXCEPT ![t] = Tail(@)]
  /\ UNCHANGED <<taskVars, mapVars, hashed, todo>>

-----------------------------------------------------------------------------
(* Signals to processes.                                                   *)

\* Whom sys_kill, sys_tkill or sys_tgkill signals: one task, the group g, or
\* everybody but init and the caller.
Named(n) == Members(Published, pids, n, "TID")
Group(g) == Members(Published, pids, g, "PGID")
Everybody(cur) == {t \in Published : pids[t]["TGID"] \notin {PidInit, pids[cur]["TGID"]}}

\* The tasks are collected in one critical section.
SysKill(cur, targets) ==
  /\ Idle(cur) /\ targets # {}
  /\ todo' = [todo EXCEPT ![cur] = {<<t, pids[t]["TID"]>> : t \in targets}]
  /\ UNCHANGED <<taskVars, mapVars, refs, hashed, held>>

\* They are signalled one by one after it; each gets its task_put.
SignalTasks(cur) ==
  \E x \in todo[cur] :
    /\ todo' = [todo EXCEPT ![cur] = @ \ {x}]
    /\ UNCHANGED <<taskVars, mapVars, refs, hashed, held>>

-----------------------------------------------------------------------------
Next ==
  \/ \E p, c \in Tasks : PidAlloc(p, c)
  \/ \E n \in Numbers : PidPut(n)
  \/ \E t \in Tasks :
       \/ PidPrepare(t) \/ PidPublish(t) \/ Exec(t) \/ Exit(t) \/ PidUnpublish(t) \/ TaskPut(t)
       \/ SysSetsid(t) \/ PutOld(t)
  \/ \E cur, t \in Tasks, g \in Numbers : SysSetpgid(cur, t, g)
  \/ \E cur \in Tasks, n \in Numbers : SysKill(cur, Named(n)) \/ SysKill(cur, Group(n))
  \/ \E cur \in Tasks : SysKill(cur, Everybody(cur)) \/ SignalTasks(cur)

Spec == Init /\ [][Next]_vars

-----------------------------------------------------------------------------
\* Every variable has its type.
TypeOK ==
  /\ phase \in [Tasks -> {"free", "alloc", "new", "live", "zombie", "reaped"}]
  /\ pids \in [Tasks -> [Types -> Numbers \cup {0}]]
  /\ parent \in [Tasks -> Tasks] /\ noexec \subseteq Tasks
  /\ pidmap \subseteq Numbers /\ nextPid \in Numbers
  /\ refs \in [Numbers -> Int] /\ hashed \subseteq Numbers /\ held \in [Tasks -> Seq(Numbers)]
  /\ todo \in [Tasks -> SUBSET (Tasks \X Numbers)]

\* The table finds a number exactly while some published task is named, grouped or
\* in a session by it, and then references keep its struct, through every change of
\* a group or a session: a pid_put that drops the last one never finds the number in
\* the table, as its Assert says.
HashInv ==
  /\ TypeOK
  /\ \A n \in Numbers : n \in hashed <=> Used(Published, pids, n)
  /\ \A n \in hashed : refs[n] > 0

\* A signal goes to the process that was found under pid_lock, though it may exit,
\* be reaped and leave its group before signal_tasks comes to it.
TargetInv == \A s \in Tasks : \A x \in todo[s] : pids[x[1]]["TID"] = x[2]

\* A number is not given out again while a task, alive or not yet freed, still has
\* it as its own, its group or its session: a signal to an old group cannot reach
\* a new process, and two tasks never have one TID.
FreshStep == \A n \in pidmap' \ pidmap : \A t \in Tasks, ty \in Types : pids[t][ty] # n
FreshNumber == [][FreshStep]_vars

\* pid_alloc fails only when every number is in use.
AllocComplete == PidFound = PidMax => pidmap = Numbers
=============================================================================
