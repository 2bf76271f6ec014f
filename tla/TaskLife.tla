------------------------------ MODULE TaskLife ------------------------------
(***************************************************************************)
(* The life of user tasks, kernel/task.c: clone and vfork, exit, wait4 and *)
(* the references that keep a task alive.  A step is a critical section of *)
(* child_wait.lock, of a signal_lock, or what a task does between two of   *)
(* them.  Of completions it assumes what Completion shows: a killable wait *)
(* ends by a completion or by SIGKILL.  A task is a slot that is used      *)
(* again after kfree.  Nobody sends SIGKILL to init: task_exit asserts     *)
(* that init does not exit, which is up to the programs, not to the code.  *)
(***************************************************************************)
EXTENDS WaitQueue, TLC

CONSTANTS
  Tasks, InitTask, None,
  Calls,      \* the system calls that tasks make
  Signals     \* the sets of signal bits that senders raise

ASSUME TaskLifeAssumption ==
  /\ InitTask \in Tasks /\ None \notin Tasks
  /\ Signals \subseteq SUBSET {"SIGPENDING", "SIGKILL"}

VARIABLES
  pc,         \* where the task is, from "free" to "dead"
  parent,     \* task.parent; itself while it is not on a list of children
  refs,       \* task.refcount
  published,  \* tasks that the PID table knows
  onSched,    \* tasks the scheduler holds a reference to
  held,       \* tasks that a sender of a signal holds a reference to
  mm,         \* task.mm, as the set of the tasks that use it (mm_users counts them)
  lender,     \* history: the task whose vfork lent its mm, while both are in it
  vfork,      \* task.vfork_done: the task on whose stack it is, or None
  done,       \* tasks whose completion of sys_clone is done
  child,      \* the child that sys_clone made, or that sys_wait4 asks for or found
  waiters,    \* child_wait.waiters
  lock,       \* the task inside a critical section of child_wait.lock, or None
  state,      \* task.state
  sig         \* the signal bits of the task that matter to its sleeps

treeVars == <<parent, published>>
refVars  == <<refs, onSched, held>>
waitVars == <<waiters, lock, state>>
vforkVars == <<mm, lender, vfork, done>>
vars == <<pc, treeVars, refVars, vforkVars, child, waitVars, sig>>

Init ==
  /\ pc = [t \in Tasks |-> IF t = InitTask THEN "user" ELSE "free"]
  /\ parent = [t \in Tasks |-> IF t = InitTask THEN t ELSE None]
  /\ refs = [t \in Tasks |-> IF t = InitTask THEN 2 ELSE 0]
  /\ published = {InitTask} /\ onSched = {InitTask} /\ held = {}
  /\ mm = [t \in Tasks |-> {InitTask} \cap {t}] /\ lender = [t \in Tasks |-> None]
  /\ vfork = [t \in Tasks |-> None] /\ done = {}
  /\ child = [t \in Tasks |-> None]
  /\ waiters = <<>> /\ lock = None
  /\ state = [t \in Tasks |-> "RUNNABLE"]
  /\ sig = [t \in Tasks |-> {}]

Goto(t, l) == pc' = [pc EXCEPT ![t] = l]

Children(p) == {c \in Tasks \ {p} : parent[c] = p}

\* task_put, with t at l and its signals s when it is not the last reference.
TaskPut(t, l, s) ==
  /\ refs' = [refs EXCEPT ![t] = @ - 1]
  /\ pc' = [l EXCEPT ![t] = IF refs[t] = 1 THEN "free" ELSE @]
  /\ parent' = [parent EXCEPT ![t] = IF refs[t] = 1 THEN None ELSE @]
  /\ sig' = [s EXCEPT ![t] = IF refs[t] = 1 THEN {} ELSE @]

\* Faulty variant: the address space is released after the parent was told.
ExitOrderSwapped == <<"vdone", "exit">>

\* task_exit calls free_resource, then task_vfork_done.
ExitOrder == <<"exit", "vdone">>

\* The end of a system call: get_signal takes SIGKILL before any other signal,
\* so a task that was killed does not see user mode again.
ToUser(t) == IF "SIGKILL" \in sig[t] THEN ExitOrder[1] ELSE "user"

-----------------------------------------------------------------------------
(* sys_clone.                                                              *)

\* Faulty variant: the scheduler takes no reference.
PublishRefsNone(c) == UNCHANGED refs

PublishRefs(c) == refs' = [refs EXCEPT ![c] = @ + 1]

\* A system call is entered.
Syscall(t, l, arg) ==
  /\ pc[t] = "user" /\ l \in Calls
  /\ Goto(t, l)
  /\ child' = [child EXCEPT ![t] = arg]
  /\ UNCHANGED <<treeVars, refVars, vforkVars, waitVars, sig>>

\* It returns.
Return(t) == Goto(t, ToUser(t)) /\ child' = [child EXCEPT ![t] = None]

\* sys_clone fails before the child is known to anybody.
CloneFails(p) ==
  /\ pc[p] = "clone"
  /\ Return(p)
  /\ UNCHANGED <<treeVars, refVars, vforkVars, waitVars, sig>>

\* The child of a vfork uses what the caller uses; any other one has a copy.
CloneMm(p, c, vm) ==
  IF vm THEN [t \in Tasks |-> IF t \in mm[p] \cup {c} THEN mm[p] \cup {c} ELSE mm[t]]
        ELSE [mm EXCEPT ![c] = {c}]

\* task_alloc, the copies, and the link into the list of children.
CloneLink(p, c, vm) ==
  /\ pc[p] = "clone" /\ pc[c] = "free" /\ lock = None
  /\ pc' = [pc EXCEPT ![p] = "publish", ![c] = "new"]
  /\ refs' = [refs EXCEPT ![c] = 1]
  /\ mm' = CloneMm(p, c, vm) /\ lender' = [lender EXCEPT ![c] = IF vm THEN p ELSE None]
  /\ vfork' = [vfork EXCEPT ![c] = IF vm THEN p ELSE None]
  /\ UNCHANGED done
  /\ child' = [child EXCEPT ![p] = c]
  /\ parent' = [parent EXCEPT ![c] = p]
  /\ UNCHANGED <<published, onSched, held, waitVars, sig>>

SchedPublish(p) ==
  LET c == child[p] IN
  /\ pc[p] = "publish"
  /\ published' = published \cup {c}
  /\ PublishRefs(c)
  /\ onSched' = onSched \cup {c}
  /\ pc' = [pc EXCEPT ![p] = IF vfork[c] = p THEN "vfork" ELSE ToUser(p), ![c] = "user"]
  /\ child' = IF vfork[c] = p THEN child ELSE [child EXCEPT ![p] = None]
  /\ UNCHANGED <<parent, held, vforkVars, waitVars, sig>>

\* Faulty variant: any signal ends the wait.
VforkWaitEndsAny(p) == p \in done \/ sig[p] # {}

\* wait_for_completion_killable.
VforkWaitEnds(p) == p \in done \/ "SIGKILL" \in sig[p]

VforkWait(p) ==
  /\ pc[p] = "vfork" /\ VforkWaitEnds(p)
  /\ Goto(p, "clear")
  /\ UNCHANGED <<treeVars, refVars, vforkVars, child, waitVars, sig>>

\* Faulty variant: the pointer to the completion is left behind.
ClearVforkNot(c) == UNCHANGED vfork

ClearVfork(c) == vfork' = [vfork EXCEPT ![c] = None]

\* The pointer is cleared under signal_lock and the frame is left.
VforkClear(p) ==
  /\ pc[p] = "clear"
  /\ ClearVfork(child[p])
  /\ done' = done \ {p}
  /\ Return(p)
  /\ UNCHANGED <<treeVars, refVars, mm, lender, waitVars, sig>>

\* task_vfork_done.
TaskVforkDone(t) ==
  /\ done' = IF vfork[t] = None THEN done ELSE done \cup {vfork[t]}
  /\ vfork' = [vfork EXCEPT ![t] = None]

\* t goes on with the address space that only S uses, and mm_put takes it off the
\* users of the old one; those it lent that to stay in it.
LeaveMm(t, S) ==
  /\ mm' = [u \in Tasks |-> IF u = t THEN S ELSE mm[u] \ {t}]
  /\ lender' = [u \in Tasks |-> IF t \in {u, lender[u]} THEN None ELSE lender[u]]

\* sys_execve when it succeeds: switch_mm and then task_vfork_done.
SwitchMm(t) ==
  /\ pc[t] = "execve"
  /\ LeaveMm(t, {t})
  /\ Goto(t, "exec")
  /\ UNCHANGED <<treeVars, refVars, vfork, done, child, waitVars, sig>>

ExecDone(t) ==
  /\ pc[t] = "exec"
  /\ TaskVforkDone(t)
  /\ Goto(t, ToUser(t))
  /\ UNCHANGED <<treeVars, refVars, mm, lender, child, waitVars, sig>>

-----------------------------------------------------------------------------
(* task_exit and task_finish_exit.                                         *)

\* Faulty variant: one waiter is woken, whoever's child it was.
ChildWakesOne(states) == WakeUpOne(states, waiters)

ChildWakes(states) == WakeUpAll(states, waiters)

\* notify_parent for the tasks of S, whose parents are in par.  A parent that
\* handles SIGCHLD has a signal pending afterwards.
NotifyParents(S, par) ==
  \E told \in SUBSET {par[c] : c \in {d \in S : Signals # {}}} :
    /\ sig' = [t \in Tasks |-> IF t \in told THEN sig[t] \cup {"SIGPENDING"} ELSE sig[t]]
    /\ state' = IF S = {} THEN state
                ELSE ChildWakes([t \in Tasks |-> IF t \in told THEN "RUNNABLE" ELSE state[t]])

\* sys_exit, or the default action of a signal.
TaskExit(t) ==
  /\ pc[t] = "user" /\ t # InitTask
  /\ Goto(t, ExitOrder[1])
  /\ UNCHANGED <<treeVars, refVars, vforkVars, child, waitVars, sig>>

ExitNext(l) == IF l = ExitOrder[1] THEN ExitOrder[2] ELSE "reparent"

FreeResource(t) ==
  /\ pc[t] = "exit"
  /\ LeaveMm(t, {})
  /\ Goto(t, ExitNext("exit"))
  /\ UNCHANGED <<treeVars, refVars, vfork, done, child, waitVars, sig>>

ExitVforkDone(t) ==
  /\ pc[t] = "vdone"
  /\ TaskVforkDone(t)
  /\ Goto(t, ExitNext("vdone"))
  /\ UNCHANGED <<treeVars, refVars, mm, lender, child, waitVars, sig>>

\* Faulty variant: init does not hear of the zombies it inherits.
InheritedNone(t) == {}

\* The zombies among the children that nobody has reaped.
Inherited(t) == {c \in Children(t) : pc[c] = "dead"}

ReparentChildren(t) ==
  /\ pc[t] = "reparent" /\ lock = None
  /\ parent' = [c \in Tasks |-> IF c \in Children(t) THEN InitTask ELSE parent[c]]
  /\ NotifyParents(Inherited(t), parent')
  /\ Goto(t, "sched")
  /\ UNCHANGED <<published, refVars, vforkVars, child, waiters, lock>>

\* sched_exit: the task is ZOMBIE and still on its stack.
SchedExit(t) ==
  /\ pc[t] = "sched"
  /\ Goto(t, "zombie")
  /\ UNCHANGED <<treeVars, refVars, vforkVars, child, waitVars, sig>>

\* task_finish_exit, on the next task's stack: kstack becomes NULL.
TaskFinishExit(t) ==
  /\ pc[t] = "zombie" /\ lock = None
  /\ Goto(t, "dead")
  /\ NotifyParents({t}, parent)
  /\ UNCHANGED <<treeVars, refVars, vforkVars, child, waiters, lock>>

FinishPut(t) ==
  /\ pc[t] = "dead" /\ t \in onSched
  /\ onSched' = onSched \ {t}
  /\ TaskPut(t, pc, sig)
  /\ UNCHANGED <<published, held, vforkVars, child, waitVars>>

-----------------------------------------------------------------------------
(* sys_wait4.                                                              *)

\* At the top of the loop; "poll" is the first round of a call with WNOHANG.
AtTop(t) == pc[t] \in {"wait", "poll"} \/ (pc[t] = "parked" /\ state[t] = "RUNNABLE")

Matching(t) == {c \in Children(t) : child[t] \in {None, c}}

\* Faulty variant: a zombie that is still on its stack is reaped.
ReapableEarly(t) == {c \in Matching(t) : pc[c] \in {"zombie", "dead"}}

Reapable(t) == {c \in Matching(t) : pc[c] = "dead"}

\* Faulty variant: the child's identity stays in the table.
PidUnpublishNot(c) == published

PidUnpublish(c) == published \ {c}

Detached(c) == c

\* The loop, to the check for a signal.
Wait4Top(t) ==
  /\ AtTop(t) /\ lock = None
  /\ waiters' = FinishWait(waiters, t)
  /\ state' = SchedWake(state, t)
  /\ \/ \E c \in Reapable(t) :
          /\ child' = [child EXCEPT ![t] = c]
          /\ published' = PidUnpublish(c)
          /\ parent' = [parent EXCEPT ![c] = Detached(c)]
          /\ Goto(t, "reap")
          /\ UNCHANGED lock
     \/ /\ Reapable(t) = {}
        /\ Matching(t) = {} \/ pc[t] = "poll" \/ "SIGPENDING" \in sig[t]
        /\ Return(t)
        /\ UNCHANGED <<lock, treeVars>>
     \/ /\ Reapable(t) = {} /\ Matching(t) # {} /\ pc[t] # "poll" /\ "SIGPENDING" \notin sig[t]
        /\ lock' = t
        /\ Goto(t, "prepare")
        /\ UNCHANGED <<child, treeVars>>
  /\ UNCHANGED <<refVars, vforkVars, sig>>

Wait4Prepare(t) ==
  /\ pc[t] = "prepare"
  /\ waiters' = PrepareToWait(waiters, t)
  /\ state' = [state EXCEPT ![t] = "INTERRUPTIBLE"]
  /\ lock' = None
  /\ Goto(t, "park")
  /\ UNCHANGED <<treeVars, refVars, vforkVars, child, sig>>

SchedPark(t) ==
  LET cancelled == state[t] = "RUNNABLE" \/ PendingState(state[t], sig[t]) IN
  /\ pc[t] = "park"
  /\ state' = IF cancelled THEN [state EXCEPT ![t] = "RUNNABLE"] ELSE state
  /\ Goto(t, IF cancelled THEN "wait" ELSE "parked")
  /\ UNCHANGED <<treeVars, refVars, vforkVars, child, waiters, lock, sig>>

\* The return of sys_wait4 drops the last reference of the tree.
Wait4Return(t) ==
  /\ pc[t] = "reap"
  /\ TaskPut(child[t], [pc EXCEPT ![t] = ToUser(t)], sig)
  /\ child' = [child EXCEPT ![t] = None]
  /\ UNCHANGED <<published, onSched, held, vforkVars, waitVars>>

-----------------------------------------------------------------------------
(* Senders of signals.                                                     *)

\* pid_get_task.
PidGetTask(t) ==
  /\ t \in published /\ t \notin held
  /\ held' = held \cup {t}
  /\ refs' = [refs EXCEPT ![t] = @ + 1]
  /\ UNCHANGED <<pc, treeVars, onSched, vforkVars, child, waitVars, sig>>

\* send_signal of SIGKILL or of a handled signal, and task_put.
SendSignal(t, bits) ==
  /\ t \in held /\ (t = InitTask => "SIGKILL" \notin bits)
  /\ held' = held \ {t}
  /\ state' = [state EXCEPT ![t] = IF PendingState(@, bits) THEN "RUNNABLE" ELSE @]
  /\ TaskPut(t, pc, [sig EXCEPT ![t] = @ \cup bits])
  /\ UNCHANGED <<published, onSched, vforkVars, child, waiters, lock>>

\* get_signal runs a handler on the way to user mode.
GetSignal(t) ==
  /\ pc[t] = "user" /\ sig[t] = {"SIGPENDING"}
  /\ sig' = [sig EXCEPT ![t] = {}]
  /\ UNCHANGED <<pc, treeVars, refVars, vforkVars, child, waitVars>>

-----------------------------------------------------------------------------
CloneStep(t) == SchedPublish(t) \/ VforkWait(t) \/ VforkClear(t) \/ ExecDone(t)
ExitStep(t) ==
  \/ FreeResource(t) \/ ExitVforkDone(t) \/ ReparentChildren(t) \/ SchedExit(t)
  \/ TaskFinishExit(t) \/ FinishPut(t)
WaitStep(t) == Wait4Top(t) \/ Wait4Prepare(t) \/ SchedPark(t) \/ Wait4Return(t)

Next ==
  \E t \in Tasks :
    \/ Syscall(t, "clone", None)
    \/ Syscall(t, "execve", None)
    \/ \E c \in Tasks \cup {None}, l \in {"wait", "poll"} : Syscall(t, l, c)
    \/ \E c \in Tasks, vm \in {v \in BOOLEAN : v => "execve" \in Calls} : CloneLink(t, c, vm)
    \/ CloneFails(t) \/ SwitchMm(t) \/ TaskExit(t)
    \/ CloneStep(t) \/ ExitStep(t) \/ WaitStep(t)
    \/ Signals # {} /\ PidGetTask(t)
    \/ GetSignal(t)
    \/ \E bits \in Signals : SendSignal(t, bits)

Spec == Init /\ [][Next]_vars

\* A task inside the kernel goes on whenever it can.
Fairness == \A t \in Tasks : WF_vars(CloneStep(t) \/ ExitStep(t) \/ WaitStep(t))
FairSpec == Spec /\ Fairness

\* Nothing tells the tasks other than init apart.
Symmetry == Permutations(Tasks \ {InitTask})

-----------------------------------------------------------------------------
\* What a task has passed when it can no longer adopt or reap children.
Gone == {"free", "new", "sched", "zombie", "dead"}

\* Every variable has its type, and a slot in use has a parent.
TypeOK ==
  /\ pc \in [Tasks -> Gone \cup {"user", "clone", "publish", "vfork", "clear", "execve", "exec",
                                 "exit", "vdone", "reparent",
                                 "wait", "poll", "prepare", "park", "parked", "reap"}]
  /\ parent \in [Tasks -> Tasks \cup {None}]
  /\ \A t \in Tasks : parent[t] = None <=> pc[t] = "free"
  /\ refs \in [Tasks -> 0 .. 3]
  /\ published \subseteq Tasks /\ onSched \subseteq Tasks /\ held \subseteq Tasks
  /\ mm \in [Tasks -> SUBSET Tasks] /\ \A t, u \in Tasks : u \in mm[t] => mm[u] = mm[t]
  /\ lender \in [Tasks -> Tasks \cup {None}] /\ vfork \in [Tasks -> Tasks \cup {None}]
  /\ done \subseteq Tasks
  /\ child \in [Tasks -> Tasks \cup {None}]
  /\ waiters \in Seq(Tasks) /\ lock \in Tasks \cup {None}
  /\ state \in [Tasks -> {"RUNNABLE", "INTERRUPTIBLE"}]
  /\ sig \in [Tasks -> SUBSET {"SIGPENDING", "SIGKILL"}]

\* The reference of the process tree: the parent's, or its wait4's.
InTree(t) ==
  \/ t = InitTask
  \/ parent[t] \notin {t, None}
  \/ \E p \in Tasks : pc[p] = "reap" /\ child[p] = t

\* A reference, if there is one.
Ref(holds) == IF holds THEN 1 ELSE 0

\* The reference count of a task is the number of its holders: tree, scheduler
\* and senders of signals.
RefInv ==
  \A t \in Tasks : refs[t] = Ref(InTree(t)) + Ref(t \in onSched) + Ref(t \in held)

\* Every task that was not reaped hangs below a parent that can still reap it:
\* the exits of parent and child in any order leave no zombie behind, and
\* notify_parent and sys_getppid never follow a pointer to a dead parent.
ParentInv ==
  \A t \in Tasks \ {InitTask} :
    /\ pc[t] \notin {"free", "dead"} => parent[t] # t
    /\ parent[t] \notin {t, None} => pc[parent[t]] \notin Gone

\* task_put destroys only what its assertions allow: a dead task that is
\* detached, without children, unknown to the PID table and the scheduler.
DestroyOK ==
  [][\A t \in Tasks : refs[t] > 0 /\ refs'[t] = 0 =>
       /\ pc[t] = "dead" /\ parent[t] = t /\ Children(t) = {} /\ mm[t] = {}
       /\ t \notin published \cup onSched' \cup held']_vars

\* A parent does not sleep in wait4 while a child it asks for can be reaped.
NoLostChild ==
  \A t \in Tasks : state[t] # "RUNNABLE" => Reapable(t) = {}

\* Neither side of a vfork follows a pointer that dangles: child->vfork_done points
\* to a frame of sys_clone that has not returned, and the child whose signal_lock
\* that frame takes, also after the child has completed it and died, is still the
\* caller's to reap.
VforkFrame ==
  /\ \A c \in Tasks : vfork[c] # None =>
       pc[vfork[c]] \in {"publish", "vfork", "clear"} /\ child[vfork[c]] = c
  /\ \A p \in Tasks : pc[p] \in {"publish", "vfork", "clear"} =>
       parent[child[p]] = p /\ refs[child[p]] > 0

\* After vfork the caller does not return to user mode before the child has left the
\* address space they share: a signal that ends the wait ends the caller too.
VforkMm ==
  \A c \in Tasks : lender[c] # None => c \in mm[lender[c]] /\ pc[lender[c]] # "user"

\* The process tree: counts are holders, every task that was not reaped hangs below
\* a parent that can reap it, and no parent sleeps in wait4 over such a child.
TreeInv == TypeOK /\ RefInv /\ ParentInv /\ NoLostChild

\* vfork: the child completes a frame of its parent that has not returned, and the
\* parent does not run beside the child in the address space they share.
VforkInv == VforkFrame /\ VforkMm

\* A child that exits while its parent waits for it is reaped, when no signal
\* interrupts the wait: no order of the steps of task_exit, task_finish_exit and
\* sys_wait4 loses the wakeup.
ExitReaped ==
  \A c \in Tasks \ {InitTask} : \A p \in Tasks \ {c} :
    (/\ parent[c] = p /\ child[p] = c
     /\ pc[p] \in {"wait", "prepare", "park", "parked"}
     /\ pc[c] \in {"exit", "vdone", "reparent", "sched", "zombie", "dead"})
    ~> c \notin published
=============================================================================
