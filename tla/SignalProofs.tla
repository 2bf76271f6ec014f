---------------------------- MODULE SignalProofs ----------------------------
(***************************************************************************)
(* The signals of one task, for any set of signals, actions and masks and  *)
(* any depth of signal frames: what kernel/signal.c keeps together under   *)
(* signal_lock, and the theorem that follows.                              *)
(***************************************************************************)
EXTENDS Signal, TLAPS

USE SMTT(30)

USE DEF taskVars, pendVars, maskVars, history

SigMasks == SUBSET (Sigs \ UnblockMask)
KSignals == [sig : Sigs \cup {"none"}, fatal : BOOLEAN, action : Sigactions, oldmask : SigMasks]

\* Every variable has its type, the frames on the user stack included.
TypeInv ==
  /\ TypeOK
  /\ blocked \in SigMasks /\ sigmask \in SigMasks /\ mine \in SigMasks
  /\ frames \in Seq(SigMasks) /\ resumed \in BOOLEAN
  /\ actions \in [Sigs -> Sigactions]
  /\ ksig \in KSignals

\* The mask that the next signal frame saves, and the ones saved already, are those
\* of the program and of the handlers it was in.
NestInv ==
  /\ OldMask = mine /\ frames = outer
  /\ pc = "act" => ksig.oldmask = mine

\* Nobody catches or ignores SIGKILL and SIGSTOP.
DefaultInv ==
  /\ \A s \in Sigs \cap UnblockMask : actions[s].handler = "SIG_DFL"
  /\ pc = "act" => ksig.sig \in Sigs /\ (ksig.sig \in UnblockMask => ksig.action.handler = "SIG_DFL")

\* The task has dequeued SIGKILL.
Killed == pc = "act" /\ ksig.sig = "SIGKILL"

\* Nothing takes SIGKILL away from the task.  A stop signal that is pending when the
\* task was resumed comes after a SIGKILL, which get_signal takes first.
KillInv ==
  /\ "SIGKILL" \in pending => resumed
  /\ resumed => ~stopping /\ state # "STOPPED"
  /\ resumed /\ pending \cap StopMask # {} => "SIGKILL" \in pending \/ Killed \/ pc = "dead"

\* The inductive invariant.
SignalIInv == TypeInv /\ FlagInv /\ SuspendInv /\ NestInv /\ DefaultInv /\ KillInv

-----------------------------------------------------------------------------
\* The signals a mask never holds, and the ones that stop or resume a task.
LEMMA SigFacts ==
  /\ {} \in SigMasks /\ SigDfl \in Sigactions /\ SigDfl.handler = "SIG_DFL"
  /\ Sigs \subseteq {"SIGINT", "SIGILL", "SIGKILL", "SIGSEGV", "SIGCHLD", "SIGCONT", "SIGSTOP", "SIGTSTP"}
  /\ "SIGKILL" \in UnblockMask /\ "SIGKILL" \notin StopMask /\ "SIGCONT" \notin StopMask
  /\ "SIGKILL" \notin SigIgnored
  BY SignalAssumption DEF SigMasks, Sigactions, SigDfl, Number, UnblockMask, StopMask, SigIgnored

\* No signal is being delivered.
LEMMA NoSigFacts == NoSig \in KSignals
  BY SigFacts DEF NoSig, KSignals

\* get_signal chooses one of the signals it is offered, and SIGKILL before all others.
LEMMA NextSignalFacts ==
  ASSUME NEW S \in SUBSET Sigs, S # {}
  PROVE  NextSignal(S) \in S /\ ("SIGKILL" \in S => NextSignal(S) = "SIGKILL")
<1>1. CASE "SIGKILL" \in S  BY <1>1 DEF NextSignal
<1>2. CASE "SIGKILL" \notin S
  <2>1. /\ Number["SIGINT"] = 2 /\ Number["SIGILL"] = 4 /\ Number["SIGSEGV"] = 11
        /\ Number["SIGCHLD"] = 17 /\ Number["SIGCONT"] = 18 /\ Number["SIGSTOP"] = 19
        /\ Number["SIGTSTP"] = 20
    BY DEF Number
  <2>2. \A s \in S : s \in {"SIGINT", "SIGILL", "SIGSEGV", "SIGCHLD", "SIGCONT", "SIGSTOP", "SIGTSTP"}
    BY <1>2, SigFacts
  <2>3. \E s \in S : \A r \in S : Number[s] <= Number[r]
    <3>1. CASE "SIGINT" \in S  BY <2>1, <2>2, <3>1
    <3>2. CASE "SIGINT" \notin S /\ "SIGILL" \in S  BY <2>1, <2>2, <3>2
    <3>3. CASE {"SIGINT", "SIGILL"} \cap S = {} /\ "SIGSEGV" \in S  BY <2>1, <2>2, <3>3
    <3>4. CASE {"SIGINT", "SIGILL", "SIGSEGV"} \cap S = {} /\ "SIGCHLD" \in S  BY <2>1, <2>2, <3>4
    <3>5. CASE {"SIGINT", "SIGILL", "SIGSEGV", "SIGCHLD"} \cap S = {} /\ "SIGCONT" \in S
      BY <2>1, <2>2, <3>5
    <3>6. CASE {"SIGINT", "SIGILL", "SIGSEGV", "SIGCHLD", "SIGCONT"} \cap S = {} /\ "SIGSTOP" \in S
      BY <2>1, <2>2, <3>6
    <3>7. CASE {"SIGINT", "SIGILL", "SIGSEGV", "SIGCHLD", "SIGCONT", "SIGSTOP"} \cap S = {}
      BY <2>1, <2>2, <3>7
    <3> QED  BY <3>1, <3>2, <3>3, <3>4, <3>5, <3>6, <3>7
  <2> QED  BY <1>2, <2>3 DEF NextSignal
<1> QED  BY <1>1, <1>2

\* The task starts with nothing pending, blocked or handled.
LEMMA InitStep == Init => SignalIInv
<1> SUFFICES ASSUME Init PROVE SignalIInv  OBVIOUS
<1>1. TypeInv
  <2>0. Len(frames) <= MaxFrames /\ Len(outer) = Len(frames)  BY SignalAssumption DEF Init
  <2>1. TypeOK  BY <2>0, Zenon DEF Init, TypeOK
  <2>2. actions \in [Sigs -> Sigactions]  BY SigFacts DEF Init
  <2>3. ksig \in KSignals
    BY NoSigFacts DEF Init
  <2> QED  BY <2>1, <2>2, <2>3, SigFacts DEF Init, TypeInv
<1>2. NestInv /\ FlagInv /\ SuspendInv
  BY <1>1 DEF Init, NestInv, FlagInv, SuspendInv, OldMask, TypeInv
<1>3. KillInv /\ DefaultInv  BY SigFacts DEF Init, KillInv, DefaultInv
<1> QED  BY <1>1, <1>2, <1>3 DEF SignalIInv

\* A sender: the flag, the stop that a SIGCONT or SIGKILL calls off, and the signals
\* that the new one removes change together.
LEMMA SendStep ==
  ASSUME SignalIInv, NEW s \in Sigs, SendSignal(s)
  PROVE  SignalIInv'
<1> USE DEF SignalIInv
<1>1. TypeInv'
  <2>1. TypeOK'  BY DEF SendSignal, TypeInv, TypeOK, RecalcSigpending
  <2>2. resumed' \in BOOLEAN
    <3>1. CASE s \in StopMask  BY <3>1 DEF SendSignal
    <3>2. CASE s \notin StopMask  BY <3>2 DEF SendSignal, TypeInv
    <3> QED  BY <3>1, <3>2
  <2> QED  BY <2>1, <2>2 DEF SendSignal, TypeInv
<1>2. NestInv' /\ SuspendInv' /\ DefaultInv'
  BY DEF SendSignal, NestInv, SuspendInv, OldMask, DefaultInv
<1>3. FlagInv'
  BY <1>1, Zenon DEF SendSignal, FlagInv, RecalcSigpending, TypeInv
<1>4. KillInv'
  <2>1. /\ "SIGKILL" \in pending => "SIGKILL" \in pending'
        /\ "SIGKILL" \in pending' => "SIGKILL" \in pending \/ s = "SIGKILL"
    BY SigFacts DEF SendSignal, Opposed
  <2>2. s = "SIGKILL" => "SIGKILL" \in pending'
    BY SigFacts DEF SendSignal, SignalIgnored, DefaultInv
  <2>3. CASE s \in StopMask
    BY <2>1, <2>3, SigFacts, Zenon DEF SendSignal, KillInv, Resumes, Killed
  <2>4. CASE s = "SIGCONT"
    <3>1. pending' \cap StopMask = {}  BY <2>4, SigFacts DEF SendSignal, Opposed
    <3> QED  BY <2>1, <2>4, <3>1, Zenon DEF SendSignal, KillInv, Resumes
  <2>5. CASE s \notin StopMask /\ s # "SIGCONT"
    <3>1. pending' \cap StopMask = pending \cap StopMask  BY <2>5 DEF SendSignal, Opposed
    <3> QED  BY <2>1, <2>2, <2>5, <3>1, SigFacts, Zenon DEF SendSignal, KillInv, Resumes, Killed
  <2> QED  BY <2>3, <2>4, <2>5
<1> QED  BY <1>1, <1>2, <1>3, <1>4

\* get_signal: no stop is dequeued for a task that was resumed.
LEMMA DequeueStep ==
  ASSUME SignalIInv, NEW s \in Sigs, NEW fault \in BOOLEAN, Dequeue(s, fault),
         pc \notin {"act", "dead"}, resumed => s \notin StopMask,
         s = "SIGKILL" \/ "SIGKILL" \notin pending \/ fault
  PROVE  SignalIInv'
<1> USE DEF SignalIInv
<1>1. TypeInv'
  <2>1. TypeOK'
    BY DEF Dequeue, DequeueSignalLocked, TypeInv, TypeOK, RecalcDequeued, RecalcSigpending
  <2>2. actions[s] \in Sigactions /\ OldMask \in SigMasks  BY DEF TypeInv, OldMask
  <2>3. actions' \in [Sigs -> Sigactions]
    <3> DEFINE a == actions[s]
               fatal == fault /\ (s \in blocked \/ ~Handled(a))
    <3>0. actions' = [actions EXCEPT ![s].handler =
                        IF ~fatal /\ Handled(a) /\ a.reset THEN "SIG_DFL" ELSE a.handler]
      BY DEF Dequeue, DequeueSignalLocked
    <3>1. PICK h \in {"SIG_DFL", "SIG_IGN", "handler"} : actions' = [actions EXCEPT ![s].handler = h]
      <4>1. a.handler \in {"SIG_DFL", "SIG_IGN", "handler"}  BY <2>2 DEF Sigactions
      <4>2. CASE ~fatal /\ Handled(a) /\ a.reset  BY <3>0, <4>2
      <4>3. CASE ~(~fatal /\ Handled(a) /\ a.reset)  BY <3>0, <4>1, <4>3, Zenon
      <4> QED  BY <4>2, <4>3
    <3>2. [actions[s] EXCEPT !.handler = h] \in Sigactions  BY <2>2 DEF Sigactions
    <3>3. actions' = [actions EXCEPT ![s] = [actions[s] EXCEPT !.handler = h]]  BY <3>1
    <3> QED  BY <3>2, <3>3 DEF TypeInv
  <2>4. ksig' \in KSignals
    BY <2>2 DEF Dequeue, DequeueSignalLocked, Handled, KSignals
  <2> QED  BY <2>1, <2>3, <2>4 DEF Dequeue, DequeueSignalLocked, TypeInv
<1>2. NestInv' /\ SuspendInv'
  BY <1>1 DEF Dequeue, DequeueSignalLocked, NestInv, SuspendInv, OldMask, TypeInv
<1>3. FlagInv'
  BY <1>1, Zenon DEF Dequeue, DequeueSignalLocked, FlagInv, RecalcDequeued, RecalcSigpending, TypeInv
<1>4. KillInv'
  BY SigFacts, Zenon DEF Dequeue, DequeueSignalLocked, KillInv, Killed, TypeInv
<1>5. DefaultInv'
  BY SigFacts DEF Dequeue, DequeueSignalLocked, DefaultInv, Handled, TypeInv, Sigactions
<1> QED  BY <1>1, <1>2, <1>3, <1>4, <1>5

\* What a step that leaves signals, masks and flags alone preserves.
LEMMA QuietStep ==
  ASSUME SignalIInv, UNCHANGED <<pending, sigpending, blocked, sigmask, suspend, frames, actions,
                                 stopping, waking, resumed, mine, outer>>,
         pc' \in {"user", "ret", "get", "wait", "park", "parked", "stopped", "dead"},
         state' \in {"RUNNABLE", "INTERRUPTIBLE", state},
         ksig' \in {ksig, NoSig}, pc' = "user" => ~suspend, Killed \/ pc = "dead" => pc' = "dead"
  PROVE  SignalIInv'
<1> USE DEF SignalIInv
<1>1. TypeInv'
  <2>1. TypeOK'  BY DEF TypeInv, TypeOK
  <2>2. ksig' \in KSignals
    BY NoSigFacts DEF TypeInv
  <2> QED  BY <2>1, <2>2 DEF TypeInv
<1>2. NestInv' /\ SuspendInv' /\ DefaultInv'  BY DEF NestInv, SuspendInv, OldMask, DefaultInv
<1>3. FlagInv'  BY <1>1 DEF FlagInv, TypeInv
<1>4. KillInv'  BY DEF KillInv
<1> QED  BY <1>1, <1>2, <1>3, <1>4

\* The system calls that change the mask, the actions or the frames.
LEMMA SyscallStep ==
  ASSUME SignalIInv, Syscall
  PROVE  SignalIInv'
<1> USE DEF SignalIInv
<1>0. pc = "user" /\ ~suspend /\ blocked = mine
  BY DEF Syscall, SysRtSigprocmask, SysRtSigsuspend, SysRtSigaction, SysRtSigreturn, SignalClone,
         Returns, SuspendInv, NestInv, OldMask
<1>1. ASSUME NEW new \in Masks, SysRtSigprocmask(new) PROVE SignalIInv'
  <2>1. blocked' \in SigMasks
    BY <1>1, SignalAssumption DEF SysRtSigprocmask, TypeInv, SigMasks
  <2>2. TypeOK'
    BY <1>1, <2>1 DEF SysRtSigprocmask, TypeInv, TypeOK, SigMasks, RecalcSigpending, Returns
  <2>3. TypeInv'  BY <1>1, <2>1, <2>2 DEF SysRtSigprocmask, TypeInv
  <2>4. NestInv' /\ SuspendInv'
    BY <1>0, <1>1 DEF SysRtSigprocmask, NestInv, SuspendInv, OldMask, Returns
  <2>5. FlagInv'  BY <1>1, <2>2, Zenon DEF SysRtSigprocmask, FlagInv, RecalcSigpending
  <2>6. KillInv' /\ DefaultInv'
    BY <1>0, <1>1 DEF SysRtSigprocmask, KillInv, Killed, DefaultInv, Returns
  <2> QED  BY <2>3, <2>4, <2>5, <2>6
<1>2. ASSUME NEW set \in Masks, SysRtSigsuspend(set) PROVE SignalIInv'
  <2>1. blocked' \in SigMasks /\ sigmask' \in SigMasks
    BY <1>2, SignalAssumption DEF SysRtSigsuspend, TypeInv, SigMasks
  <2>2. TypeOK'
    BY <1>2, <2>1 DEF SysRtSigsuspend, TypeInv, TypeOK, SigMasks, RecalcSigpending
  <2>3. TypeInv'  BY <1>2, <2>1, <2>2 DEF SysRtSigsuspend, TypeInv
  <2>4. NestInv' /\ SuspendInv'
    BY <1>0, <1>2 DEF SysRtSigsuspend, NestInv, SuspendInv, OldMask
  <2>5. FlagInv'  BY <1>2, <2>2, Zenon DEF SysRtSigsuspend, FlagInv, RecalcSigpending
  <2>6. KillInv' /\ DefaultInv'
    BY <1>0, <1>2 DEF SysRtSigsuspend, KillInv, Killed, DefaultInv
  <2> QED  BY <2>3, <2>4, <2>5, <2>6
<1>3. ASSUME NEW s \in Sigs, NEW act \in Actions, SysRtSigaction(s, act) PROVE SignalIInv'
  <2>1. actions' \in [Sigs -> Sigactions]
    BY <1>3, SignalAssumption DEF SysRtSigaction, TypeInv
  <2>2. TypeOK'
    BY <1>3 DEF SysRtSigaction, TypeInv, TypeOK, RecalcSigpending, Returns
  <2>3. TypeInv'  BY <1>3, <2>1, <2>2 DEF SysRtSigaction, TypeInv
  <2>4. NestInv' /\ SuspendInv'
    BY <1>0, <1>3 DEF SysRtSigaction, NestInv, SuspendInv, OldMask, Returns
  <2>5. FlagInv'  BY <1>3, <2>2, Zenon DEF SysRtSigaction, FlagInv, RecalcSigpending
  <2>6. /\ s \notin UnblockMask /\ s # "SIGKILL" /\ actions' = [actions EXCEPT ![s] = act]
        /\ pending' \subseteq pending /\ ("SIGKILL" \in pending => "SIGKILL" \in pending')
    BY <1>3 DEF SysRtSigaction, UnblockMask
  <2>7. KillInv' /\ DefaultInv'
    BY <1>0, <1>3, <2>6 DEF SysRtSigaction, KillInv, Killed, TypeInv, DefaultInv, Returns
  <2> QED  BY <2>3, <2>4, <2>5, <2>7
<1>4. CASE SysRtSigreturn
  <2>1. Head(frames) \in SigMasks /\ frames' \in Seq(SigMasks) /\ Len(frames') <= MaxFrames
    BY <1>4, SignalAssumption DEF SysRtSigreturn, TypeInv, TypeOK
  <2>2. blocked' = Head(frames) /\ mine' = Head(frames) /\ outer' = frames'
    BY <1>4, <2>1 DEF SysRtSigreturn, NestInv, SigMasks
  <2>3. TypeOK'
    BY <1>4, <2>1, <2>2 DEF SysRtSigreturn, TypeInv, TypeOK, SigMasks, RecalcSigpending, Returns
  <2>4. TypeInv'  BY <1>4, <2>1, <2>2, <2>3, Zenon DEF SysRtSigreturn, TypeInv
  <2>5. NestInv' /\ SuspendInv'
    BY <1>0, <1>4, <2>2 DEF SysRtSigreturn, NestInv, SuspendInv, OldMask, Returns
  <2>6. FlagInv'  BY <1>4, <2>3, Zenon DEF SysRtSigreturn, FlagInv, RecalcSigpending
  <2>7. KillInv' /\ DefaultInv'
    BY <1>0, <1>4 DEF SysRtSigreturn, KillInv, Killed, DefaultInv, Returns
  <2> QED  BY <2>4, <2>5, <2>6, <2>7
<1>5. CASE SignalClone
  <2>1. actions' \in [Sigs -> Sigactions]
    <3>1. [SigDfl EXCEPT !.handler = "SIG_IGN"] \in Sigactions  BY SigFacts DEF Sigactions
    <3> QED  BY <1>5, <3>1, SigFacts DEF SignalClone
  <2>2. Len(frames') <= MaxFrames /\ Len(outer') = Len(frames') /\ frames' \in Seq(SigMasks)
    BY <1>5, SignalAssumption DEF SignalClone
  <2>3. TypeOK'  BY <1>5, <2>2 DEF SignalClone, TypeInv, TypeOK, Returns
  <2>4. TypeInv'  BY <1>5, <2>1, <2>2, <2>3 DEF SignalClone, TypeInv
  <2>5. NestInv' /\ SuspendInv'
    BY <1>0, <1>5 DEF SignalClone, NestInv, SuspendInv, OldMask, Returns
  <2>6. FlagInv'  BY <1>5, <2>3 DEF SignalClone, FlagInv
  <2>7. DefaultInv'  BY <1>5, SigFacts DEF SignalClone, DefaultInv, Returns
  <2>8. KillInv'  BY <1>0, <1>5 DEF SignalClone, KillInv, Killed
  <2> QED  BY <2>4, <2>5, <2>6, <2>7, <2>8
<1> QED  BY <1>1, <1>2, <1>3, <1>4, <1>5 DEF Syscall

\* setup_signal_frame: the frame saves the mask of the program, or of the handler,
\* that the signal interrupts, and ends a sigsuspend.
LEMMA FrameStep ==
  ASSUME SignalIInv, SetupSignalFrame
  PROVE  SignalIInv'
<1> USE DEF SignalIInv
<1>0. /\ pc = "act" /\ ksig \in KSignals /\ ksig.sig \in Sigs \ UnblockMask /\ ~Killed
      /\ ksig.oldmask = mine /\ ksig.oldmask \in SigMasks /\ ksig.action.mask \in SigMasks
  BY SigFacts DEF SetupSignalFrame, TypeInv, KSignals, Sigactions, SigMasks, NestInv, DefaultInv,
                  Killed, Handled
<1>1. CASE Len(frames) = MaxFrames /\ pc' = "dead" /\ UNCHANGED <<sigpending, maskVars, history>>
  <2>1. UNCHANGED <<pending, sigpending, blocked, sigmask, suspend, frames, actions,
                    stopping, waking, resumed, mine, outer>> /\ ksig' = NoSig /\ state' = state
    BY <1>1 DEF SetupSignalFrame
  <2> QED  BY <1>1, <2>1, QuietStep
<1>2. CASE /\ Len(frames) < MaxFrames
           /\ pc' = "user" /\ suspend' = FALSE /\ sigmask' = {}
           /\ frames' = <<ksig.oldmask>> \o frames
           /\ blocked' = blocked \cup ksig.action.mask \cup (IF ksig.action.nodefer THEN {} ELSE {ksig.sig})
           /\ outer' = <<mine>> \o outer /\ mine' = blocked'
           /\ RecalcSigpending
  <2>0. ksig' = NoSig /\ UNCHANGED <<state, pending, actions, stopping, waking, resumed>>
    BY DEF SetupSignalFrame
  <2>2. blocked' \in SigMasks  BY <1>0, <1>2 DEF TypeInv, SigMasks
  <2>3. /\ frames' \in Seq(SigMasks) /\ Len(frames') = Len(frames) + 1 /\ Len(frames') <= MaxFrames
        /\ outer' = frames'
    BY <1>0, <1>2, SignalAssumption DEF TypeInv, NestInv
  <2>4. TypeOK'
    BY <1>2, <2>0, <2>2, <2>3, SigFacts, Zenon DEF TypeInv, TypeOK, SigMasks, RecalcSigpending
  <2>5. TypeInv'  BY <1>2, <2>0, <2>2, <2>3, <2>4, SigFacts, NoSigFacts DEF TypeInv
  <2>6. NestInv' /\ SuspendInv'  BY <1>2, <2>3 DEF NestInv, SuspendInv, OldMask
  <2>7. FlagInv'  BY <1>2, <2>4, Zenon DEF FlagInv, RecalcSigpending
  <2>8. KillInv' /\ DefaultInv'  BY <1>0, <1>2, <2>0 DEF KillInv, DefaultInv
  <2> QED  BY <2>5, <2>6, <2>7, <2>8
<1> QED  BY <1>1, <1>2, Zenon DEF SetupSignalFrame

\* Every step of the task and of the senders preserves the invariant.
LEMMA SignalStep == SignalIInv /\ [Next]_vars => SignalIInv'
<1> SUFFICES ASSUME SignalIInv, [Next]_vars PROVE SignalIInv'  OBVIOUS
<1>1. CASE ArchDoSignal
  <2>1. ~Killed /\ pc # "dead"  BY <1>1 DEF ArchDoSignal, Killed
  <2> QED  BY <1>1, <2>1, QuietStep DEF ArchDoSignal
<1>2. CASE GetSignal
  <2>1. CASE pending \ blocked # {}
    <3>1. PICK s \in pending \ blocked : s = NextSignal(pending \ blocked) /\ s \in Sigs
      BY <2>1, NextSignalFacts DEF SignalIInv, TypeInv, TypeOK
    <3>2. Dequeue(s, FALSE) /\ pc = "get"  BY <1>2, <2>1, <3>1, Zenon DEF GetSignal
    <3>3. "SIGKILL" \in pending => s = "SIGKILL"
      <4>1. "SIGKILL" \notin blocked  BY SigFacts DEF SignalIInv, TypeInv, SigMasks
      <4>2. pending \ blocked \in SUBSET Sigs  BY DEF SignalIInv, TypeInv, TypeOK
      <4> QED  BY <2>1, <3>1, <4>1, <4>2, NextSignalFacts
    <3>4. resumed => s \notin StopMask
      BY <3>1, <3>2, <3>3, SigFacts DEF SignalIInv, KillInv, Killed
    <3> QED  BY <3>1, <3>2, <3>3, <3>4, DequeueStep, Zenon
  <2>2. CASE pending \ blocked = {}
    <3>1. ~Killed /\ pc # "dead"  BY <1>2 DEF GetSignal, Killed
    <3> QED  BY <1>2, <2>2, <3>1, QuietStep, Zenon DEF GetSignal, NothingPending
  <2> QED  BY <2>1, <2>2
<1>3. CASE WaitForSignal
  <2>1. ~Killed /\ pc # "dead"  BY <1>3 DEF WaitForSignal, Killed
  <2>2. UNCHANGED <<pending, sigpending, blocked, sigmask, suspend, frames, actions,
                    stopping, waking, resumed, mine, outer>> /\ ksig' = ksig
    BY <1>3 DEF WaitForSignal
  <2>3. pc' \in {"get", "park", "parked", "wait"} /\ state' \in {"RUNNABLE", "INTERRUPTIBLE", state}
    BY <1>3 DEF WaitForSignal
  <2> QED  BY <2>1, <2>2, <2>3, QuietStep
<1>4. CASE SchedStop
  <2> USE DEF SignalIInv
  <2>1. CASE pc = "stopped"
    <3>1. ~Killed  BY <2>1 DEF Killed
    <3> QED  BY <1>4, <2>1, <3>1, QuietStep DEF SchedStop
  <2>2. CASE pc = "act"
    <3>1. /\ ksig.sig \in StopMask /\ ksig' = NoSig /\ pc' = "stopped"
          /\ state' = (IF stopping THEN "STOPPED" ELSE state) /\ stopping' = FALSE
          /\ UNCHANGED <<pending, sigpending, blocked, sigmask, suspend, frames, actions,
                         waking, resumed, mine, outer>>
      BY <1>4, <2>2 DEF SchedStop
    <3>2. TypeOK'  BY <3>1, Zenon DEF TypeInv, TypeOK
    <3>3. TypeInv'  BY <3>1, <3>2, NoSigFacts DEF TypeInv
    <3>4. NestInv' /\ SuspendInv' /\ DefaultInv'
      BY <3>1 DEF NestInv, SuspendInv, OldMask, DefaultInv
    <3>5. FlagInv'  BY <3>1, <3>2 DEF FlagInv
    <3>6. KillInv'  BY <2>2, <3>1, SigFacts DEF KillInv, Killed
    <3> QED  BY <3>3, <3>4, <3>5, <3>6
  <2> QED  BY <1>4, <2>1, <2>2 DEF SchedStop
<1>5. CASE TaskExit
  <2>1. /\ UNCHANGED <<pending, sigpending, blocked, sigmask, suspend, frames, actions,
                       stopping, waking, resumed, mine, outer>>
        /\ ksig' = NoSig /\ state' = state /\ pc' = "dead"
    BY <1>5 DEF TaskExit
  <2> QED  BY <2>1, QuietStep
<1>6. CASE Ignore
  <2>1. /\ UNCHANGED <<pending, sigpending, blocked, sigmask, suspend, frames, actions,
                       stopping, waking, resumed, mine, outer>>
        /\ ksig' = NoSig /\ state' = state /\ pc' = "get" /\ pc # "dead"
    BY <1>6 DEF Ignore
  <2>2. ~Killed
    BY <1>6, SigFacts DEF Ignore, Killed, SignalIgnored, SignalIInv, DefaultInv
  <2> QED  BY <2>1, <2>2, QuietStep
<1>7. CASE SetupSignalFrame  BY <1>7, FrameStep
<1>8. CASE Syscall  BY <1>8, SyscallStep
<1>9. CASE Trap
  <2>1. ~Killed /\ pc # "dead"  BY <1>9 DEF Trap, Returns, Killed
  <2> QED  BY <1>9, <2>1, QuietStep DEF Trap, Returns
<1>10. ASSUME NEW s \in Faults, Fault(s) PROVE SignalIInv'
  <2>1. s \in Sigs /\ s \notin StopMask  BY SignalAssumption
  <2>2. Dequeue(s, TRUE) /\ pc = "user"  BY <1>10, Zenon DEF Fault
  <2> QED  BY <2>1, <2>2, DequeueStep, Zenon
<1>11. ASSUME NEW s \in Sigs, SendSignal(s) PROVE SignalIInv'  BY <1>11, SendStep
<1>w. ASSUME UNCHANGED <<pc, ksig, pending, sigpending, blocked, sigmask, suspend, frames, actions,
                         stopping, resumed, mine, outer>>,
             state' \in {"RUNNABLE", state}, waking' \subseteq waking
      PROVE  SignalIInv'
  <2> USE DEF SignalIInv
  <2>1. TypeOK'  BY <1>w DEF TypeInv, TypeOK
  <2>2. TypeInv'  BY <1>w, <2>1 DEF TypeInv
  <2>3. NestInv' /\ SuspendInv' /\ DefaultInv'  BY <1>w DEF NestInv, SuspendInv, OldMask, DefaultInv
  <2>4. FlagInv'  BY <1>w, <2>1 DEF FlagInv
  <2>5. KillInv'  BY <1>w DEF KillInv, Killed
  <2> QED  BY <2>2, <2>3, <2>4, <2>5
<1>12. ASSUME NEW s \in Sigs, SchedWakeSignal(s) PROVE SignalIInv'
  BY <1>w, <1>12 DEF SchedWakeSignal
<1>13. CASE UNCHANGED vars
  BY <1>w, <1>13 DEF vars
<1> QED
  BY <1>1, <1>2, <1>3, <1>4, <1>5, <1>6, <1>7, <1>8, <1>9, <1>10, <1>11, <1>12, <1>13
  DEF Next, TaskStep

(***************************************************************************)
(* What senders on other CPUs, the delivery loop and the task's own system *)
(* calls keep together, for any signals, actions, masks and stack depth.   *)
(***************************************************************************)
THEOREM SignalInvariant == Spec => []SignalIInv
BY InitStep, SignalStep, PTL DEF Spec

(***************************************************************************)
(* TF_SIGPENDING is exact after every critical section of signal_lock; a   *)
(* SIGCONT or SIGKILL beats the stop it follows, dequeued or not; and      *)
(* sigsuspend and nested handlers give the program its own mask back.      *)
(***************************************************************************)
THEOREM SignalCorrect == Spec => []SignalInv
<1>1. SignalIInv => SignalInv
  BY DEF SignalIInv, SignalInv, ResumedInv, KillInv, MaskInv, SuspendInv, NestInv, OldMask
<1> QED  BY <1>1, SignalInvariant, PTL
=============================================================================
