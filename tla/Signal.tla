------------------------------- MODULE Signal -------------------------------
(***************************************************************************)
(* Signals of one task, kernel/signal.c and arch/riscv/signal.c: senders   *)
(* on other CPUs against the task's own delivery loop, its masks, actions  *)
(* and signal frames, stop and continue.  A step is a critical section of  *)
(* signal_lock (with the wakeups made inside it), or what the task or a    *)
(* sender does between two of them.  pending.list and siginfo are left out. *)
(***************************************************************************)
EXTENDS Naturals, Sequences, FiniteSets

CONSTANTS
  Sigs,      \* the signals in use
  Actions,   \* the values of struct sigaction that the program installs
  Masks,     \* the sets it passes to sigprocmask and sigsuspend
  Faults,    \* the signals that exceptions of the program raise
  MaxFrames  \* how many signal frames fit on the user stack

Number == [SIGINT |-> 2, SIGILL |-> 4, SIGKILL |-> 9, SIGSEGV |-> 11, SIGCHLD |-> 17,
           SIGCONT |-> 18, SIGSTOP |-> 19, SIGTSTP |-> 20]
StopMask == {"SIGSTOP", "SIGTSTP"}
UnblockMask == {"SIGKILL", "SIGSTOP"}
SigIgnored == {"SIGCHLD", "SIGCONT"}
SigDfl == [handler |-> "SIG_DFL", mask |-> {}, nodefer |-> FALSE, reset |-> FALSE]

\* struct sigaction: which function the handler is makes no difference, and SIGKILL and
\* SIGSTOP are taken out of its mask.
Sigactions ==
  [handler : {"SIG_DFL", "SIG_IGN", "handler"}, mask : SUBSET (Sigs \ UnblockMask),
   nodefer : BOOLEAN, reset : BOOLEAN]

ASSUME SignalAssumption ==
  /\ Sigs \subseteq DOMAIN Number /\ Masks \subseteq SUBSET Sigs
  /\ Faults \subseteq Sigs \ ({"SIGKILL"} \cup StopMask)
  /\ SigDfl \in Actions /\ Actions \subseteq Sigactions
  /\ MaxFrames \in Nat

VARIABLES
  pc, state,      \* where the task is; task.state
  pending,        \* pending.signal
  blocked, sigmask, actions,
  sigpending, suspend, stopping, \* TF_SIGPENDING, TF_SIGSUSPEND, TF_STOPPENDING
  ksig,           \* struct ksignal, of the signal being delivered
  frames,         \* uc_sigmask of the signal frames on the user stack, newest first
  waking,         \* signals whose sender has yet to call sched_wake_signal
  resumed,        \* history: the last of all stop, continue and kill signals was no stop
  mine, outer     \* history: the mask the program last ran with, and those below it

taskVars == <<pc, state, ksig>>
pendVars == <<pending, sigpending>>
maskVars == <<blocked, sigmask, suspend, frames>>
history  == <<mine, outer>>
vars == <<taskVars, pendVars, maskVars, actions, stopping, waking, resumed, history>>

NoSig == [sig |-> "none", fatal |-> FALSE, action |-> SigDfl, oldmask |-> {}]

Init ==
  /\ pc = "user" /\ state = "RUNNABLE" /\ ksig = NoSig
  /\ pending = {} /\ sigpending = FALSE
  /\ blocked = {} /\ sigmask = {} /\ suspend = FALSE /\ frames = <<>>
  /\ actions = [s \in Sigs |-> SigDfl]
  /\ stopping = FALSE /\ waking = {} /\ resumed = TRUE
  /\ mine = {} /\ outer = <<>>

Handled(a) == a.handler \notin {"SIG_DFL", "SIG_IGN"}

SignalIgnored(a, s) == a.handler = "SIG_IGN" \/ (a.handler = "SIG_DFL" /\ s \in SigIgnored)

\* recalc_sigpending, for the new pending set and mask.
RecalcSigpending == sigpending' = (pending' \ blocked' # {})

-----------------------------------------------------------------------------
(* Senders.                                                                *)

\* What the arrival of s removes.
Opposed(s) ==
  IF s \in StopMask THEN {"SIGCONT"} ELSE IF s = "SIGCONT" THEN StopMask ELSE {}

\* Faulty variant: the stop already dequeued is not called off.
ResumesContOnly(s) == s = "SIGCONT"

Resumes(s) == s \in {"SIGCONT", "SIGKILL"}

\* Faulty variant: the flag is read before it is brought up to date.
NotifiesStale(s) == sigpending

Notifies(s) == sigpending'

\* send_signal up to the unlock; a signal that is pending already stays so.
SendSignal(s) ==
  /\ pc # "dead" /\ s \notin waking
  /\ pending' = (pending \ Opposed(s))
                \cup {x \in {s} : s \in blocked \/ ~SignalIgnored(actions[s], s)}
  /\ stopping' = (stopping /\ ~Resumes(s))
  /\ state' = IF Resumes(s) /\ state = "STOPPED" THEN "RUNNABLE" ELSE state
  /\ resumed' = IF s \in StopMask THEN "SIGKILL" \in pending ELSE resumed \/ s \in {"SIGCONT", "SIGKILL"}
  /\ UNCHANGED <<pc, ksig, blocked, sigmask, suspend, frames, actions, history>>
  /\ RecalcSigpending
  /\ waking' = IF Notifies(s) THEN waking \cup {s} ELSE waking

\* sched_wake_signal after it.
SchedWakeSignal(s) ==
  /\ s \in waking
  /\ waking' = waking \ {s}
  /\ state' = IF state = "INTERRUPTIBLE" THEN "RUNNABLE" ELSE state
  /\ UNCHANGED <<pc, ksig, pendVars, maskVars, actions, stopping, resumed, history>>

-----------------------------------------------------------------------------
(* System calls.                                                           *)

Returns == pc = "user" /\ pc' = "ret"

SysRtSigprocmask(new) ==
  /\ Returns
  /\ blocked' \in {blocked \cup (new \ UnblockMask), blocked \ (new \ UnblockMask), new \ UnblockMask}
  /\ mine' = blocked'
  /\ UNCHANGED <<state, ksig, pending, sigmask, suspend, frames, actions, stopping, waking, resumed, outer>>
  /\ RecalcSigpending

SysRtSigaction(s, act) ==
  /\ Returns /\ s \notin {"SIGKILL", "SIGSTOP"}
  /\ actions' = [actions EXCEPT ![s] = act]
  /\ pending' = IF SignalIgnored(act, s) THEN pending \ {s} ELSE pending
  /\ UNCHANGED <<state, ksig, maskVars, stopping, waking, resumed, history>>
  /\ RecalcSigpending

\* sys_rt_sigsuspend up to wait_for_signal.
SysRtSigsuspend(set) ==
  /\ pc = "user" /\ pc' = "wait"
  /\ sigmask' = blocked
  /\ blocked' = set \ UnblockMask
  /\ suspend' = TRUE
  /\ UNCHANGED <<state, ksig, pending, frames, actions, stopping, waking, resumed, history>>
  /\ RecalcSigpending

\* sys_rt_sigreturn pops the newest frame.
SysRtSigreturn ==
  /\ Returns /\ frames # <<>>
  /\ blocked' = Head(frames) \ UnblockMask
  /\ frames' = Tail(frames)
  /\ mine' = Head(outer) /\ outer' = Tail(outer)
  /\ UNCHANGED <<state, ksig, pending, sigmask, suspend, actions, stopping, waking, resumed>>
  /\ RecalcSigpending

\* signal_clone, in sys_execve; the new program has a new stack.
SignalClone ==
  /\ Returns
  /\ actions' = [s \in Sigs |-> IF actions[s].handler = "SIG_IGN" THEN [SigDfl EXCEPT !.handler = "SIG_IGN"]
                                ELSE SigDfl]
  /\ frames' = <<>> /\ outer' = <<>>
  /\ UNCHANGED <<state, ksig, pendVars, blocked, sigmask, suspend, stopping, waking, resumed, mine>>

\* Any other trap.
Trap == Returns /\ UNCHANGED <<state, ksig, pendVars, maskVars, actions, stopping, waking, resumed, history>>

-----------------------------------------------------------------------------
(* Delivery.                                                               *)

\* arch_do_signal on the way back to user mode.
ArchDoSignal ==
  /\ pc = "ret"
  /\ pc' = IF sigpending \/ suspend THEN "get" ELSE "user"
  /\ UNCHANGED <<state, ksig, pendVars, maskVars, actions, stopping, waking, resumed, history>>

NextSignal(S) ==
  IF "SIGKILL" \in S THEN "SIGKILL" ELSE CHOOSE s \in S : \A r \in S : Number[s] <= Number[r]

\* Faulty variant: the mask sigsuspend installed is taken for the program's own.
OldMaskBlocked == blocked

OldMask == IF suspend THEN sigmask ELSE blocked

\* Faulty variant: the flag is not brought up to date.
RecalcNot == UNCHANGED sigpending

RecalcDequeued == RecalcSigpending

DequeueSignalLocked(s) == pending \ {s}

\* get_signal with s chosen, to the unlock: dequeue_signal_locked, the snapshot
\* of the action, SA_RESETHAND, and the intent to stop.
Dequeue(s, fault) ==
  LET a == actions[s]
      fatal == fault /\ (s \in blocked \/ ~Handled(a))
  IN
  /\ pc' = "act"
  /\ ksig' = [sig |-> s, fatal |-> fatal, action |-> a, oldmask |-> OldMask]
  /\ pending' = DequeueSignalLocked(s)
  /\ actions' = [actions EXCEPT ![s].handler = IF ~fatal /\ Handled(a) /\ a.reset THEN "SIG_DFL" ELSE @]
  /\ stopping' = (stopping \/ (a.handler = "SIG_DFL" /\ s \in StopMask))
  /\ UNCHANGED <<state, maskVars, waking, resumed, history>>
  /\ RecalcDequeued

\* An exception enters get_signal with its own signal.
Fault(s) == pc = "user" /\ Dequeue(s, TRUE)

\* Faulty variant: sigsuspend returns as soon as nothing is pending.
NothingPendingReturn == "user"

\* Where the loop goes when no signal can be delivered.
NothingPending == IF suspend THEN "wait" ELSE "user"

GetSignal ==
  /\ pc = "get"
  /\ IF pending \ blocked # {}
     THEN Dequeue(NextSignal(pending \ blocked), FALSE)
     ELSE /\ pc' = NothingPending
          /\ UNCHANGED <<state, ksig, pendVars, maskVars, actions, stopping, waking, resumed, history>>

\* wait_for_signal: registers the sleep, parks, comes back.
WaitForSignal ==
  /\ \/ pc = "wait" /\ sigpending /\ pc' = "get" /\ UNCHANGED state
     \/ pc = "wait" /\ ~sigpending /\ pc' = "park" /\ state' = "INTERRUPTIBLE"
     \/ pc = "park" /\ ~sigpending /\ state = "INTERRUPTIBLE" /\ pc' = "parked" /\ UNCHANGED state
     \/ pc = "park" /\ (sigpending \/ state = "RUNNABLE") /\ pc' = "wait" /\ state' = "RUNNABLE"
     \/ pc = "parked" /\ state = "RUNNABLE" /\ pc' = "wait" /\ UNCHANGED state
  /\ UNCHANGED <<ksig, pendVars, maskVars, actions, stopping, waking, resumed, history>>

\* sched_stop, and the return from it once the task is resumed.
SchedStop ==
  /\ \/ /\ pc = "act" /\ ~ksig.fatal /\ ksig.action.handler = "SIG_DFL" /\ ksig.sig \in StopMask
        /\ state' = IF stopping THEN "STOPPED" ELSE state
        /\ pc' = "stopped" /\ stopping' = FALSE /\ ksig' = NoSig
     \/ pc = "stopped" /\ state = "RUNNABLE" /\ pc' = "get" /\ UNCHANGED <<state, ksig, stopping>>
  /\ UNCHANGED <<pendVars, maskVars, actions, waking, resumed, history>>

\* task_exit, for a fatal fault or by default.
TaskExit ==
  /\ pc = "act"
  /\ \/ ksig.fatal
     \/ ksig.action.handler = "SIG_DFL" /\ ksig.sig \notin SigIgnored \cup StopMask
  /\ pc' = "dead" /\ ksig' = NoSig
  /\ UNCHANGED <<state, pendVars, maskVars, actions, stopping, waking, resumed, history>>

\* The signal was set to be ignored after it had become pending.
Ignore ==
  /\ pc = "act" /\ ~ksig.fatal /\ SignalIgnored(ksig.action, ksig.sig)
  /\ pc' = "get" /\ ksig' = NoSig
  /\ UNCHANGED <<state, pendVars, maskVars, actions, stopping, waking, resumed, history>>

\* setup_signal_frame and signal_delivered; no room on the stack is fatal.  sigmask
\* has no meaning once TF_SIGSUSPEND is clear and is forgotten.
SetupSignalFrame ==
  /\ pc = "act" /\ ~ksig.fatal /\ Handled(ksig.action)
  /\ ksig' = NoSig
  /\ UNCHANGED <<state, pending, actions, stopping, waking, resumed>>
  /\ \/ /\ Len(frames) = MaxFrames
        /\ pc' = "dead"
        /\ UNCHANGED <<sigpending, maskVars, history>>
     \/ /\ Len(frames) < MaxFrames
        /\ pc' = "user" /\ suspend' = FALSE /\ sigmask' = {}
        /\ frames' = <<ksig.oldmask>> \o frames
        /\ blocked' = blocked \cup ksig.action.mask \cup (IF ksig.action.nodefer THEN {} ELSE {ksig.sig})
        /\ outer' = <<mine>> \o outer /\ mine' = blocked'
        /\ RecalcSigpending

-----------------------------------------------------------------------------
TaskStep ==
  \/ ArchDoSignal \/ GetSignal \/ WaitForSignal \/ SchedStop \/ TaskExit \/ Ignore \/ SetupSignalFrame

Syscall ==
  \/ \E set \in Masks : SysRtSigprocmask(set) \/ SysRtSigsuspend(set)
  \/ \E s \in Sigs, act \in Actions : SysRtSigaction(s, act)
  \/ SysRtSigreturn \/ SignalClone

Next ==
  \/ TaskStep \/ Syscall \/ Trap
  \/ \E s \in Faults : Fault(s)
  \/ \E s \in Sigs : SendSignal(s) \/ SchedWakeSignal(s)

Spec == Init /\ [][Next]_vars

\* The task goes on unless it sleeps, the timer interrupts its program in the end,
\* and a sender finishes its call.
FairSpec ==
  /\ Spec
  /\ WF_vars(TaskStep) /\ WF_vars(Trap)
  /\ \A s \in Sigs : WF_vars(SchedWakeSignal(s))

-----------------------------------------------------------------------------
\* Every variable has its type; SIGKILL and SIGSTOP are never blocked.
TypeOK ==
  /\ pc \in {"user", "ret", "get", "wait", "park", "parked", "act", "stopped", "dead"}
  /\ state \in {"RUNNABLE", "INTERRUPTIBLE", "STOPPED"}
  /\ pending \subseteq Sigs /\ sigpending \in BOOLEAN
  /\ blocked \subseteq Sigs \ UnblockMask /\ sigmask \subseteq Sigs \ UnblockMask
  /\ waking \subseteq Sigs /\ stopping \in BOOLEAN /\ suspend \in BOOLEAN
  /\ Len(frames) <= MaxFrames /\ Len(outer) = Len(frames)

\* TF_SIGPENDING, which the scheduler and the sleeps read without signal_lock, says
\* exactly whether some pending signal is not blocked: "pair every pending/mask/
\* action change with this update", signal.h.  The flag is a function of the pending
\* set and the mask alone, so an action that changes without it, as in signal_clone,
\* leaves it true.
FlagInv ==
  /\ TypeOK
  /\ (sigpending <=> pending \ blocked # {})

\* Once SIGCONT or SIGKILL was sent after the last stop signal the task is not
\* stopped, even if its get_signal had dequeued the stop before and not acted on
\* it yet; a stop signal sent to a killed task does not stop it.
ResumedInv == resumed => state # "STOPPED"

\* Back in its program the task has the mask of that program: sigsuspend and
\* handlers, nested in any way, put back what they found.
MaskInv == pc = "user" => blocked = mine

\* sigsuspend does not return to the program before a handler was set up.
SuspendInv == pc = "user" => ~suspend

\* TF_SIGPENDING says whether a pending signal is not blocked, a resumed task is not
\* stopped, and the program gets back its own mask, after sigsuspend with a handler.
SignalInv == FlagInv /\ ResumedInv /\ SuspendInv /\ MaskInv

\* A task with SIGKILL pending dies: in its program, in sigsuspend, stopped or about
\* to stop, or with another signal on its way to a handler.
KillKills == "SIGKILL" \in pending ~> pc = "dead"
=============================================================================
