---------------------------- MODULE SchedProofs ----------------------------
(***************************************************************************)
(* The scheduler of any number of CPUs and tasks: the lemmas about its     *)
(* operators, every step preserves the inductive invariant, the theorems   *)
(* about kernel/sched.c that follow, and every step is a step of the       *)
(* contract that the sleeping primitives rely on.                          *)
(***************************************************************************)
EXTENDS Sched, TLAPS

USE DEF placeVars, queueVars, cpuVars, exitVars, ipiVars, idleOnly
USE ZenonT(40)

\* CPU 0 exists, tasks and idle threads differ, and next_cpu stays in range.
LEMMA CpuFacts ==
  /\ 0 \in Cpus /\ Tasks \cap Cpus = {} /\ None \notin Threads
  /\ \A c \in Cpus : NextCpu(c) \in Cpus
  BY SMTT(30), NrCpusAssumption, TasksAssumption DEF Cpus, Threads, NextCpu

\* A task adds one to the load of its CPU, an idle thread nothing.
LEMMA BusyFacts == \A x : Busy(x) \in {0, 1} /\ (x \in Tasks => Busy(x) = 1) /\ (x \notin Tasks => Busy(x) = 0)
  BY DEF Busy

\* What the type invariant says of the run queue of one CPU.
LEMMA TypeFacts ==
  ASSUME TypeOK
  PROVE  /\ Tasks \subseteq Threads /\ Cpus \subseteq Threads
         /\ \A c \in Cpus : /\ curr[c] \in Threads /\ curr[c] \in Tasks \cup {c}
                           /\ switching[c] \in Threads \cup {None}
                           /\ ready[c] \in Seq(Tasks) /\ Len(ready[c]) \in Nat
                           /\ nrRunnable[c] \in Int
  BY SMTT(30) DEF TypeOK, Threads

\* sched_prepare_switch_locked keeps the types.
LEMMA SwitchTyping ==
  ASSUME TypeOK, NEW c \in Cpus, NEW st \in States, SchedPrepareSwitch(c, st),
         UNCHANGED sig, step' \in [Threads -> Steps]
  PROVE  TypeOK'
<1>1. CASE KeepCurrent(c, st)
  BY <1>1, CpuFacts DEF TypeOK, KeepCurrent, SchedPrepareSwitch, Threads
<1>2. CASE SwitchTo(c, st)
  <2> DEFINE next == IF PickFrom(c, st) = <<>> THEN c ELSE Head(PickFrom(c, st))
  <2>1. PickFrom(c, st) \in Seq(Tasks)
    BY SMTT(30), CpuFacts DEF TypeOK, PickFrom
  <2>2. next \in Tasks \cup {c} /\ next \in Threads /\ curr[c] \in Threads
    BY SMTT(30), <2>1 DEF TypeOK, Threads
  <2>3. onRq' \in [Threads -> BOOLEAN]
    BY <1>2, <2>2 DEF TypeOK, SwitchTo
  <2>4. /\ curr' \in [Cpus -> Threads] /\ \A d \in Cpus : curr'[d] \in Tasks \cup {d}
        /\ switching' \in [Cpus -> Threads \cup {None}]
    BY <1>2, <2>2 DEF TypeOK, SwitchTo
  <2>5. ready' \in [Cpus -> Seq(Tasks)]
    BY SMTT(30), <1>2, <2>1 DEF TypeOK, SwitchTo
  <2>6. nrRunnable' \in [Cpus -> Int] /\ state' \in [Threads -> States]
    BY SMTT(30), <1>2, <2>2 DEF TypeOK, SwitchTo
  <2>7. onCpu' \in [Threads -> BOOLEAN] /\ needResched' \in [Threads -> BOOLEAN]
    BY <1>2, <2>2 DEF TypeOK, SwitchTo
  <2> QED
    BY <2>3, <2>4, <2>5, <2>6, <2>7 DEF TypeOK, SchedPrepareSwitch
<1> QED BY <1>1, <1>2 DEF SchedPrepareSwitch

\* The state a switch goes by is a task state.
LEMMA EffectiveTyping ==
  ASSUME TypeOK, NEW c \in Cpus
  PROVE  Effective(c) \in States
BY DEF TypeOK, Effective, States

\* enqueue_task keeps the types.
LEMMA EnqueueTyping ==
  ASSUME TypeOK, NEW c \in Cpus, NEW t \in Tasks, NEW x \in Threads, NEW me \in Cpus,
         EnqueueTask(c, t), NotifyIdle(x, me, c)
  PROVE  /\ ready' \in [Cpus -> Seq(Tasks)] /\ onRq' \in [Threads -> BOOLEAN]
         /\ needResched' \in [Threads -> BOOLEAN] /\ nrRunnable' \in [Cpus -> Int]
         /\ notify' \in [Threads -> Cpus \cup {None}]
<1>1. c \in Threads /\ t \in Threads  BY DEF Threads
<1>2. ready' \in [Cpus -> Seq(Tasks)]  BY SMTT(30) DEF TypeOK, EnqueueTask
<1>3. needResched' \in [Threads -> BOOLEAN]  BY <1>1 DEF TypeOK, EnqueueTask
<1>4. onRq' \in [Threads -> BOOLEAN] /\ nrRunnable' \in [Cpus -> Int]  BY SMTT(30), <1>1 DEF TypeOK, EnqueueTask
<1>5. notify' \in [Threads -> Cpus \cup {None}]  BY DEF TypeOK, NotifyIdle
<1> QED  BY <1>2, <1>3, <1>4, <1>5

(***************************************************************************)
(* Every variable keeps its type.                                          *)
(***************************************************************************)
LEMMA TypingStep == IInv /\ [Next]_vars => TypeOK'
<1> SUFFICES ASSUME IInv, [Next]_vars PROVE TypeOK'  OBVIOUS
<1> USE DEF IInv
<1> USE CpuFacts
<1>1. CASE SchedTask
  BY <1>1 DEF SchedTask, Idles, TypeOK, Steps, Threads
<1>2. ASSUME NEW x \in Threads, CpuSendResched(x) PROVE TypeOK'
  BY <1>2 DEF CpuSendResched, TypeOK
<1>3. ASSUME NEW t \in Tasks, SigChange(t) PROVE TypeOK'
  BY SMTT(30), <1>3 DEF SigChange, TypeOK, Threads
<1>4. ASSUME NEW c \in Cpus, CpuStep(c) PROVE TypeOK'
  <2>0. c \in Threads /\ curr[c] \in Threads  BY DEF Threads, TypeOK
  <2>1. ASSUME NEW t \in Tasks, NEW x \in Threads, SchedPublish(x, c, t) PROVE TypeOK'
    <3>1. PICK d \in Cpus : /\ nextCpu' = NextCpu(d)
                            /\ cpuId' = [cpuId EXCEPT ![t] = d]
                            /\ state' = [state EXCEPT ![t] = "RUNNABLE"]
                            /\ EnqueueTask(d, t)
                            /\ NotifyIdle(x, c, d)
      BY <2>1 DEF SchedPublish
    <3>2. state' \in [Threads -> States] /\ cpuId' \in [Threads -> Cpus \cup {None}]
      BY <3>1 DEF TypeOK, States, Threads
    <3> QED  BY <2>1, <3>1, <3>2, EnqueueTyping DEF SchedPublish, TypeOK
  <2>2. ASSUME NEW t \in Tasks, NEW x \in Threads, WakeTask(x, c, t) PROVE TypeOK'
    <3>1. cpuId[t] \in Cpus  BY SMTT(30), <2>2 DEF WakeTask, WakeMasks, OnCpuInv, TypeOK, Sleeps, Threads
    <3> QED  BY <2>2, <3>1, EnqueueTyping DEF WakeTask, TypeOK, States
  <2>3. ASSUME NEW st \in Sleeps, SchedSetSleep(c, st) PROVE TypeOK'
    BY <2>0, <2>3 DEF SchedSetSleep, TypeOK, Steps, States, Blocked
  <2>4. CASE SchedStop(c)
    BY <2>0, <2>4 DEF SchedStop, TypeOK, Steps, States, Blocked
  <2>5. CASE SchedPark(c)
    BY <2>0, <2>5, SwitchTyping, EffectiveTyping DEF SchedPark, TypeOK, Steps
  <2>6. CASE PreemptSchedule(c)
    BY <2>6, SwitchTyping, EffectiveTyping DEF PreemptSchedule, TypeOK
  <2>7. CASE SchedExit(c)
    BY <2>7, SwitchTyping DEF SchedExit, TypeOK, States
  <2>8. CASE SchedFinishSwitch(c)
    BY <2>8 DEF SchedFinishSwitch, TypeOK, Threads, IdleInv
  <2>9. CASE TaskFinishExit(c)
    BY SMTT(30), <2>9 DEF TaskFinishExit, TypeOK
  <2>10. CASE SchedTick(c)
    BY <2>0, <2>10 DEF SchedTick, TypeOK
  <2>11. CASE CpuHandleIpi(c)
    BY <2>11 DEF CpuHandleIpi, TypeOK
  <2>12. CASE IdleAck(c) \/ IdleCheck(c) \/ IdleWake(c) \/ IdleIrqOff(c)
    BY <2>0, <2>12 DEF IdleAck, IdleCheck, IdleWake, IdleIrqOff, Idles, TypeOK, Steps
  <2>13. CASE IdleSwitch(c)
    BY <2>0, <2>13, SwitchTyping, EffectiveTyping DEF IdleSwitch, Idles, TypeOK, Steps
  <2> QED
    BY <1>4, <2>1, <2>2, <2>3, <2>4, <2>5, <2>6, <2>7, <2>8, <2>9, <2>10, <2>11, <2>12,
       <2>13 DEF CpuStep
<1>5. CASE UNCHANGED vars
  BY <1>5 DEF vars, TypeOK
<1> QED  BY <1>1, <1>2, <1>3, <1>4, <1>5 DEF Next

-----------------------------------------------------------------------------
(* Queues.                                                                 *)

\* list_add_tail of a task that is not on the list: one more, still distinct.
LEMMA AppendElems ==
  ASSUME NEW S, NEW s \in Seq(S), NEW e \in S
  PROVE  /\ Elems(Append(s, e)) = Elems(s) \cup {e}
         /\ Distinct(s) /\ e \notin Elems(s) => Distinct(Append(s, e))
         /\ Append(s, e) # <<>> /\ Len(Append(s, e)) = Len(s) + 1
<1>1. /\ Len(Append(s, e)) = Len(s) + 1 /\ Len(s) \in Nat
      /\ \A i \in 1 .. Len(s) : Append(s, e)[i] = s[i]
      /\ Append(s, e)[Len(s) + 1] = e
  BY SMTT(30)
<1>2. Elems(Append(s, e)) = Elems(s) \cup {e}
  <2>1. ASSUME NEW x \in Elems(Append(s, e)) PROVE x \in Elems(s) \cup {e}
    BY SMTT(30), <1>1, <2>1 DEF Elems
  <2>2. ASSUME NEW x \in Elems(s) PROVE x \in Elems(Append(s, e))
    <3>1. PICK i \in 1 .. Len(s) : x = s[i]  BY DEF Elems
    <3>2. i \in 1 .. Len(Append(s, e)) /\ x = Append(s, e)[i]  BY SMTT(30), <1>1, <3>1
    <3> QED  BY <3>2 DEF Elems
  <2>3. e \in Elems(Append(s, e))
    <3>1. Len(s) + 1 \in 1 .. Len(Append(s, e))  BY SMTT(30), <1>1
    <3> QED  BY <1>1, <3>1 DEF Elems
  <2> QED  BY <2>1, <2>2, <2>3
<1>3. Distinct(s) /\ e \notin Elems(s) => Distinct(Append(s, e))
  BY SMTT(30), <1>1 DEF Distinct, Elems
<1> QED  BY SMTT(30), <1>1, <1>2, <1>3

\* list_del_init of the first entry: all the others, still distinct.
LEMMA TailElems ==
  ASSUME NEW S, NEW s \in Seq(S), s # <<>>, Distinct(s)
  PROVE  /\ Elems(Tail(s)) = Elems(s) \ {Head(s)} /\ Head(s) \in Elems(s)
         /\ Distinct(Tail(s)) /\ Len(Tail(s)) = Len(s) - 1 /\ Tail(s) \in Seq(S)
<1>1. /\ Len(s) \in Nat \ {0} /\ Len(Tail(s)) = Len(s) - 1 /\ Tail(s) \in Seq(S)
      /\ Head(s) = s[1]
      /\ \A i \in 1 .. Len(s) - 1 : Tail(s)[i] = s[i + 1]
  BY SMTT(30)
<1>2. Elems(Tail(s)) = Elems(s) \ {Head(s)}
  <2>1. ASSUME NEW x \in Elems(Tail(s)) PROVE x \in Elems(s) \ {Head(s)}
    <3>1. PICK i \in 1 .. Len(s) - 1 : x = s[i + 1]  BY <1>1 DEF Elems
    <3>2. i + 1 \in 1 .. Len(s) /\ 1 \in 1 .. Len(s) /\ i + 1 # 1  BY SMTT(30), <1>1
    <3> QED  BY <1>1, <3>1, <3>2 DEF Elems, Distinct
  <2>2. ASSUME NEW x \in Elems(s), x # Head(s) PROVE x \in Elems(Tail(s))
    <3>1. PICK i \in 1 .. Len(s) : x = s[i]  BY DEF Elems
    <3>2. i - 1 \in 1 .. Len(Tail(s)) /\ x = Tail(s)[i - 1]  BY SMTT(30), <1>1, <2>2, <3>1
    <3> QED  BY <3>2 DEF Elems
  <2> QED  BY <2>1, <2>2
<1>3. Head(s) \in Elems(s)
  <2>1. 1 \in 1 .. Len(s)  BY SMTT(30), <1>1
  <2> QED  BY <1>1, <2>1 DEF Elems
<1>4. Distinct(Tail(s))
  <2> SUFFICES ASSUME NEW i \in 1 .. Len(s) - 1, NEW j \in 1 .. Len(s) - 1,
                      Tail(s)[i] = Tail(s)[j]
               PROVE  i = j
    BY <1>1 DEF Distinct
  <2>1. i + 1 \in 1 .. Len(s) /\ j + 1 \in 1 .. Len(s) /\ s[i + 1] = s[j + 1]  BY SMTT(30), <1>1
  <2>2. i + 1 = j + 1  BY <2>1 DEF Distinct
  <2> QED  BY SMTT(30), <2>2
<1> QED  BY <1>1, <1>2, <1>3, <1>4

-----------------------------------------------------------------------------
(* A task enters a queue, through sched_publish or wake_task.              *)

SafeInv ==
  /\ IdleInv /\ OnCpuInv /\ QueueInv /\ LoadInv
  /\ NoLostTask /\ RunsRunnable /\ ReschedInv /\ NoSleepOverWork /\ FreedInv

\* A task that is off its CPU and becomes RUNNABLE by entering the queue, in
\* sched_publish or wake_task, preserves the invariant.
LEMMA EnqueueStep ==
  ASSUME IInv, TypeOK', NEW c \in Cpus, NEW t \in Tasks, NEW x \in Threads, NEW me \in Cpus,
         EnqueueTask(c, t), NotifyIdle(x, me, c), notify[x] = None,
         curr[c] = c /\ step[c] = "wfi" => c # me,
         ~onRq[t], ~onCpu[t], state[t] \notin {"RUNNABLE", "ZOMBIE"},
         state' = [state EXCEPT ![t] = "RUNNABLE"], cpuId' = [cpuId EXCEPT ![t] = c],
         UNCHANGED <<step, cpuVars, exitVars, ssip>>
  PROVE  SafeInv'
<1> USE CpuFacts DEF IInv
<1>0. c \in Threads /\ t \in Threads /\ t # c /\ t \notin Cpus  BY DEF Threads
<1> curr' = curr /\ switching' = switching /\ onCpu' = onCpu /\ step' = step
  OBVIOUS
<1>1. \A d \in Cpus : curr[d] # t /\ switching[d] # t
  BY <1>0 DEF OnCpuInv
<1>2. IdleInv'
  BY SMTT(30), <1>0 DEF IdleInv, EnqueueTask, TypeOK
<1>u. /\ onRq'[t] /\ cpuId'[t] = c /\ state'[t] = "RUNNABLE"
      /\ \A u \in Threads \ {t} : onRq'[u] = onRq[u] /\ cpuId'[u] = cpuId[u] /\ state'[u] = state[u]
  BY SMTT(30), <1>0 DEF EnqueueTask, TypeOK
<1>3. OnCpuInv'
  <2>1. \A u \in Tasks : cpuId'[u] = None <=> state'[u] = "NEW"
    BY SMTT(30), <1>0, <1>u DEF OnCpuInv, Threads
  <2>2. ASSUME NEW d \in Cpus
        PROVE  /\ cpuId'[d] = d /\ cpuId'[curr'[d]] = d
               /\ switching'[d] # None => cpuId'[switching'[d]] = d /\ switching'[d] # curr'[d]
    <3>1. d \in Threads /\ d # t /\ curr[d] \in Threads /\ switching[d] \in Threads \cup {None}
      BY <1>0, TypeFacts
    <3> QED  BY SMTT(30), <1>1, <1>u, <3>1 DEF OnCpuInv
  <2> QED  BY SMTT(30), <2>1, <2>2 DEF OnCpuInv
<1>4. /\ ready'[c] = Append(ready[c], t) /\ ready[c] \in Seq(Tasks)
      /\ \A d \in Cpus \ {c} : ready'[d] = ready[d]
  BY SMTT(30) DEF EnqueueTask, TypeOK
<1>5. t \notin Elems(ready[c]) /\ \A d \in Cpus : t \notin Elems(ready[d])
  BY DEF QueueInv
<1>6. /\ Elems(ready'[c]) = Elems(ready[c]) \cup {t} /\ Distinct(ready'[c])
      /\ Len(ready'[c]) = Len(ready[c]) + 1 /\ ready'[c] # <<>>
  BY SMTT(30), <1>4, <1>5, AppendElems DEF QueueInv
<1>7. QueueInv'
  <2>1. \A d \in Cpus : Distinct(ready'[d])
    BY <1>4, <1>6 DEF QueueInv
  <2>3. ASSUME NEW d \in Cpus, NEW u \in Tasks
        PROVE  u \in Elems(ready'[d]) <=> onRq'[u] /\ cpuId'[u] = d
    <3>1. u \in Threads /\ (u \in Elems(ready[d]) <=> onRq[u] /\ cpuId[u] = d)
      BY DEF QueueInv, Threads
    <3>2. u \in Elems(ready'[d]) <=> u \in Elems(ready[d]) \/ (d = c /\ u = t)
      BY <1>4, <1>6
    <3> QED  BY <1>u, <1>5, <3>1, <3>2
  <2>4. \A u \in Tasks : onRq'[u] => state'[u] = "RUNNABLE" /\ \A d \in Cpus : curr'[d] # u
    BY SMTT(30), <1>1, <1>u DEF QueueInv, Threads
  <2> QED  BY <2>1, <2>3, <2>4 DEF QueueInv
<1>8. LoadInv'
  <2>1. /\ nrRunnable'[c] = nrRunnable[c] + 1
        /\ \A d \in Cpus \ {c} : nrRunnable'[d] = nrRunnable[d]
    BY SMTT(30) DEF EnqueueTask, TypeOK
  <2>2. nrRunnable'[c] = Len(ready'[c]) + Busy(curr'[c])
    BY SMTT(30), <1>6, <2>1, TypeFacts, BusyFacts DEF LoadInv
  <2>3. ASSUME NEW d \in Cpus \ {c}
        PROVE  nrRunnable'[d] = Len(ready'[d]) + Busy(curr'[d])
    BY <1>4, <2>1 DEF LoadInv
  <2> QED  BY <2>2, <2>3 DEF LoadInv
<1>9. NoLostTask'
  BY SMTT(30), <1>0 DEF NoLostTask, EnqueueTask, TypeOK, Threads
<1>10. RunsRunnable'
  BY DEF RunsRunnable, TypeOK
<1>11. ReschedInv'
  BY SMTT(30), <1>0, <1>4, <1>6 DEF ReschedInv, EnqueueTask, TypeOK
<1>12. NoSleepOverWork'
  <2> SUFFICES ASSUME NEW d \in Cpus, curr[d] = d, step[d] = "wfi", ready'[d] # <<>>
               PROVE  ssip[d] \/ \E y \in Threads : notify'[y] = d
    BY DEF NoSleepOverWork
  <2>1. CASE d = c
    BY SMTT(30), <2>1 DEF NotifyIdle, TypeOK
  <2>2. CASE d # c
    <3>1. ssip[d] \/ \E y \in Threads : notify[y] = d  BY <1>4, <2>2 DEF NoSleepOverWork
    <3>2. \A y \in Threads \ {x} : notify'[y] = notify[y]  BY SMTT(30) DEF NotifyIdle, TypeOK
    <3>3. d # None  BY DEF Threads
    <3> QED  BY <3>1, <3>2, <3>3
  <2> QED  BY <2>1, <2>2
<1>13. FreedInv'
  BY SMTT(30), <1>0 DEF FreedInv, EnqueueTask, TypeOK, Threads
<1> QED
  BY <1>2, <1>3, <1>7, <1>8, <1>9, <1>10, <1>11, <1>12, <1>13 DEF SafeInv

-----------------------------------------------------------------------------
(* A CPU goes from one thread to the next.                                 *)

NextThread(c, st) == IF PickFrom(c, st) = <<>> THEN c ELSE Head(PickFrom(c, st))

\* What pick_next_task does to the queue, the requeued task included.
LEMMA PickFacts ==
  ASSUME IInv, NEW c \in Cpus, NEW st \in States, SwitchTo(c, st),
         st # "RUNNABLE" => curr[c] \in Tasks
  PROVE  /\ curr' = [curr EXCEPT ![c] = NextThread(c, st)]
         /\ NextThread(c, st) \in Tasks \cup {c} /\ NextThread(c, st) # curr[c]
         /\ NextThread(c, st) \in Tasks => NextThread(c, st) \in Elems(ready[c])
         /\ Distinct(ready'[c])
         /\ \A u \in Tasks : u \in Elems(ready'[c]) <=>
              /\ u # NextThread(c, st)
              /\ u \in Elems(ready[c]) \/ (u = curr[c] /\ st = "RUNNABLE")
         /\ \A d \in Cpus \ {c} : ready'[d] = ready[d]
         /\ st = "RUNNABLE" => Len(ready'[c]) + Busy(NextThread(c, st)) = Len(ready[c]) + Busy(curr[c])
         /\ st # "RUNNABLE" => Len(ready'[c]) + Busy(NextThread(c, st)) = Len(ready[c])
<1> USE CpuFacts DEF IInv
<1> DEFINE prev == curr[c]  queue == PickFrom(c, st)  next == NextThread(c, st)
<1>1. /\ prev \in Tasks \cup {c} /\ ready[c] \in Seq(Tasks) /\ Len(ready[c]) \in Nat
      /\ Distinct(ready[c]) /\ prev \notin Elems(ready[c]) /\ c \notin Tasks
  <2>1. prev \notin Elems(ready[c])
    <3>1. CASE prev \in Tasks  BY <3>1 DEF QueueInv
    <3>2. CASE prev \notin Tasks
      BY SMTT(30), <3>2, TypeFacts DEF Elems
    <3> QED  BY <3>1, <3>2
  <2> QED  BY <2>1, TypeFacts DEF QueueInv
<1>2. /\ curr' = [curr EXCEPT ![c] = next]
      /\ ready' = [ready EXCEPT ![c] = IF queue = <<>> THEN queue ELSE Tail(queue)]
      /\ st # "RUNNABLE" \/ (ready[c] # <<>> /\ (prev = c \/ needResched[prev]))
  BY DEF SwitchTo, NextThread
<1>3. /\ ready'[c] = (IF queue = <<>> THEN queue ELSE Tail(queue))
      /\ \A d \in Cpus \ {c} : ready'[d] = ready[d]
  BY <1>2 DEF TypeOK
<1>4. CASE st = "RUNNABLE" /\ prev \in Tasks
  <2>1. queue = Append(ready[c], prev)  BY <1>1, <1>4 DEF PickFrom
  <2>2. /\ queue \in Seq(Tasks) /\ queue # <<>> /\ Distinct(queue)
        /\ Elems(queue) = Elems(ready[c]) \cup {prev} /\ Len(queue) = Len(ready[c]) + 1
    <3>1. ready[c] \in Seq(Tasks) /\ prev \in Tasks  BY <1>1, <1>4
    <3>2. /\ Elems(Append(ready[c], prev)) = Elems(ready[c]) \cup {prev}
          /\ Distinct(Append(ready[c], prev))
          /\ Append(ready[c], prev) # <<>> /\ Len(Append(ready[c], prev)) = Len(ready[c]) + 1
      BY ONLY SMTT(30), <1>1, <3>1, AppendElems
    <3>3. Append(ready[c], prev) \in Seq(Tasks)  BY SMTT(30), <3>1
    <3> QED  BY <2>1, <3>2, <3>3
  <2>3. next = Head(ready[c])
    BY SMTT(30), <1>1, <1>2, <1>4, <2>1, <2>2 DEF NextThread
  <2>4. next \in Elems(ready[c])
    BY <1>1, <1>2, <1>4, <2>3, TailElems
  <2>5. next \in Tasks /\ next = Head(queue)
    BY SMTT(30), <1>1, <1>2, <1>4, <2>2, <2>3 DEF NextThread
  <2>6. /\ Elems(ready'[c]) = Elems(queue) \ {next} /\ Distinct(ready'[c])
        /\ Len(ready'[c]) = Len(queue) - 1
    BY <1>3, <2>2, <2>5, TailElems
  <2>7. Busy(next) = 1 /\ Busy(prev) = 1  BY <1>4, <2>5, BusyFacts
  <2> QED  BY SMTT(30), <1>1, <1>2, <1>3, <1>4, <2>2, <2>4, <2>5, <2>6, <2>7
<1>5. CASE ~(st = "RUNNABLE" /\ prev \in Tasks) /\ ready[c] # <<>>
  <2>1. queue = ready[c] /\ next = Head(ready[c]) /\ ready'[c] = Tail(ready[c])
    BY <1>1, <1>3, <1>5 DEF PickFrom, NextThread
  <2>2. /\ Elems(ready'[c]) = Elems(ready[c]) \ {next} /\ next \in Elems(ready[c])
        /\ Distinct(ready'[c]) /\ Len(ready'[c]) = Len(ready[c]) - 1
    BY <1>1, <1>5, <2>1, TailElems
  <2>3. next \in Tasks  BY SMTT(30), <1>1, <1>5, <2>1
  <2>4. \A u \in Tasks : u \in Elems(ready'[c]) <=>
              /\ u # next
              /\ u \in Elems(ready[c]) \/ (u = prev /\ st = "RUNNABLE")
    BY <1>5, <2>2
  <2>5. Busy(next) = 1 /\ (st = "RUNNABLE" => Busy(prev) = 0)  BY <1>5, <2>3, BusyFacts
  <2> QED  BY SMTT(30), <1>1, <1>2, <1>3, <2>2, <2>3, <2>4, <2>5
<1>6. CASE st # "RUNNABLE" /\ ready[c] = <<>>
  <2>1. queue = <<>> /\ next = c /\ ready'[c] = <<>> /\ prev \in Tasks
    BY <1>3, <1>6 DEF PickFrom, NextThread
  <2>2. \A u : u \notin Elems(ready[c])  BY SMTT(30), <1>6 DEF Elems
  <2>3. Busy(next) = 0  BY <1>1, <2>1, BusyFacts
  <2> QED  BY SMTT(30), <1>1, <1>2, <1>3, <1>6, <2>1, <2>2, <2>3 DEF Distinct
<1> QED  BY <1>1, <1>2, <1>4, <1>5, <1>6

\* A switch from the current thread to another one preserves the invariant.
LEMMA SwitchStep ==
  ASSUME IInv, TypeOK', NEW c \in Cpus, NEW st \in States, SwitchTo(c, st),
         switching[c] = None, st # "NEW", st # "RUNNABLE" => curr[c] \in Tasks,
         \A x \in Threads : x # curr[c] => step'[x] = step[x],
         curr[c] = c => step'[c] = "ack",
         UNCHANGED <<cpuId, dead, freed, notify, ssip>>
  PROVE  SafeInv'
<1> USE CpuFacts DEF IInv
<1> DEFINE prev == curr[c]  next == NextThread(c, st)
<1>1. /\ curr' = [curr EXCEPT ![c] = next]
      /\ next \in Tasks \cup {c} /\ next # prev
      /\ next \in Tasks => next \in Elems(ready[c])
      /\ Distinct(ready'[c])
      /\ \A u \in Tasks : u \in Elems(ready'[c]) <=>
           u # next /\ (u \in Elems(ready[c]) \/ (u = prev /\ st = "RUNNABLE"))
      /\ \A d \in Cpus \ {c} : ready'[d] = ready[d]
      /\ st = "RUNNABLE" => Len(ready'[c]) + Busy(next) = Len(ready[c]) + Busy(prev)
      /\ st # "RUNNABLE" => Len(ready'[c]) + Busy(next) = Len(ready[c])
  BY PickFacts
<1>2. /\ prev \in Threads /\ prev \in Tasks \cup {c} /\ next \in Threads /\ c \in Threads /\ c \notin Tasks
      /\ Tasks \subseteq Threads
  BY <1>1, TypeFacts
<1>3. /\ state'[prev] = st /\ needResched'[prev] = FALSE /\ onCpu'[next] = TRUE /\ onRq'[next] = FALSE
      /\ onRq'[prev] <=> st = "RUNNABLE" /\ prev # c
      /\ \A x \in Threads \ {prev} : state'[x] = state[x] /\ needResched'[x] = needResched[x]
      /\ \A x \in Threads \ {next} : onCpu'[x] = onCpu[x]
      /\ \A x \in Threads \ {prev, next} : onRq'[x] = onRq[x]
  <2>1. /\ state' = [state EXCEPT ![prev] = st]
        /\ needResched' = [needResched EXCEPT ![prev] = FALSE]
        /\ onRq' = [onRq EXCEPT ![prev] = st = "RUNNABLE" /\ prev # c, ![next] = FALSE]
        /\ onCpu' = [onCpu EXCEPT ![next] = TRUE]
    BY DEF SwitchTo, NextThread
  <2> HIDE DEF prev, next
  <2>2. state \in [Threads -> States] /\ needResched \in [Threads -> BOOLEAN]
    BY DEF TypeOK
  <2>3. onRq \in [Threads -> BOOLEAN] /\ onCpu \in [Threads -> BOOLEAN]
    BY DEF TypeOK
  <2>4. /\ state'[prev] = st /\ needResched'[prev] = FALSE
        /\ \A x \in Threads \ {prev} : state'[x] = state[x] /\ needResched'[x] = needResched[x]
    BY <1>2, <2>1, <2>2
  <2>5. onCpu'[next] = TRUE /\ \A x \in Threads \ {next} : onCpu'[x] = onCpu[x]
    BY <1>2, <2>1, <2>3
  <2>6. onRq'[next] = FALSE /\ \A x \in Threads \ {prev, next} : onRq'[x] = onRq[x]
    BY <1>2, <2>1, <2>3
  <2>7. onRq'[prev] <=> st = "RUNNABLE" /\ prev # c
    BY <1>1, <1>2, <2>1, <2>3
  <2> QED  BY <2>4, <2>5, <2>6, <2>7
<1>4. /\ curr'[c] = next /\ switching'[c] = prev
      /\ \A d \in Cpus \ {c} : curr'[d] = curr[d] /\ switching'[d] = switching[d]
      /\ st = "RUNNABLE" => nrRunnable'[c] = nrRunnable[c]
      /\ st # "RUNNABLE" => nrRunnable'[c] = nrRunnable[c] - 1
      /\ \A d \in Cpus \ {c} : nrRunnable'[d] = nrRunnable[d]
  BY SMTT(30), <1>1, <1>2 DEF SwitchTo, NextThread, TypeOK
<1>5. next \in Tasks => onRq[next] /\ cpuId[next] = c /\ state[next] = "RUNNABLE" /\ \A d \in Cpus : curr[d] # next
  BY <1>1 DEF QueueInv
<1>6. cpuId[next] = c /\ cpuId[prev] = c /\ state[next] = "RUNNABLE"
  BY SMTT(30), <1>1, <1>5 DEF OnCpuInv, IdleInv
<1>7. \A d \in Cpus \ {c} : curr[d] \notin {prev, next} /\ switching[d] \notin {prev, next}
  BY SMTT(30), <1>2, <1>6 DEF OnCpuInv, Threads
<1>8. next = c => curr[c] # c
  BY <1>1
<1> HIDE DEF prev, next
<1>9. IdleInv'
  <2> SUFFICES ASSUME NEW d \in Cpus
               PROVE  state'[d] = "RUNNABLE" /\ ~onRq'[d] /\ (curr'[d] # d => step'[d] = "ack")
    BY DEF IdleInv
  <2>0. d \in Threads /\ d \notin Tasks  BY DEF Threads
  <2>1. CASE d = c
    <3>1. state'[c] = "RUNNABLE" /\ ~onRq'[c]  BY SMTT(30), <1>2, <1>3, <1>1 DEF IdleInv, prev
    <3>2. prev # c => step'[c] = "ack"  BY <1>2 DEF IdleInv, prev
    <3>3. prev = c => step'[c] = "ack"  BY DEF prev
    <3> QED  BY <2>1, <3>1, <3>2, <3>3
  <2>2. CASE d # c
    <3>1. d # prev /\ d # next  BY <1>1, <1>2, <2>0, <2>2
    <3>2. step'[d] = step[d]  BY <2>0, <3>1 DEF prev
    <3> QED  BY SMTT(30), <1>3, <1>4, <2>0, <2>2, <3>1, <3>2 DEF IdleInv
  <2> QED  BY <2>1, <2>2
<1>10. OnCpuInv'
  <2>1. \A t \in Tasks : cpuId'[t] = None <=> state'[t] = "NEW"
    BY SMTT(30), <1>2, <1>3, <1>6 DEF OnCpuInv
  <2>2. ASSUME NEW d \in Cpus
        PROVE  /\ cpuId'[d] = d /\ cpuId'[curr'[d]] = d
               /\ switching'[d] # None => cpuId'[switching'[d]] = d /\ switching'[d] # curr'[d]
    BY SMTT(30), <1>1, <1>4, <1>6 DEF OnCpuInv
  <2>3. ASSUME NEW x \in Threads
        PROVE  onCpu'[x] <=> \E d \in Cpus : curr'[d] = x \/ switching'[d] = x
    <3>1. onCpu[x] <=> \E d \in Cpus : curr[d] = x \/ switching[d] = x  BY DEF OnCpuInv
    <3>2. CASE x = next  BY <1>3, <1>4, <3>2
    <3>3. CASE x # next
      <4>1. onCpu'[x] = onCpu[x]  BY <1>3, <3>3
      <4>2. curr[c] = x <=> switching'[c] = x  BY <1>4 DEF prev
      <4>3. switching[c] # x  BY DEF Threads
      <4> QED  BY <1>4, <3>1, <3>3, <4>1, <4>2, <4>3
    <3> QED  BY <3>2, <3>3
  <2> QED  BY <2>1, <2>2, <2>3 DEF OnCpuInv
<1>11. QueueInv'
  <2>1. \A d \in Cpus : Distinct(ready'[d])  BY <1>1 DEF QueueInv
  <2>2. ASSUME NEW d \in Cpus, NEW u \in Tasks
        PROVE  u \in Elems(ready'[d]) <=> onRq'[u] /\ cpuId'[u] = d
    <3>0. u \in Threads /\ u # c /\ (u \in Elems(ready[d]) <=> onRq[u] /\ cpuId[u] = d)
      BY <1>2 DEF QueueInv
    <3>1. CASE u = next
      BY <1>1, <1>3, <1>5, <1>6, <3>0, <3>1
    <3>2. CASE u = prev
      <4>1. \A e \in Cpus : u \notin Elems(ready[e])  BY <3>2 DEF QueueInv, prev
      <4> QED  BY <1>1, <1>3, <1>6, <3>0, <3>2, <4>1
    <3>3. CASE u # next /\ u # prev
      BY <1>1, <1>3, <3>0, <3>3
    <3> QED  BY <3>1, <3>2, <3>3
  <2>3. ASSUME NEW u \in Tasks, onRq'[u]
        PROVE  state'[u] = "RUNNABLE" /\ \A d \in Cpus : curr'[d] # u
    <3>1. u \in Threads /\ u # next  BY <1>2, <1>3, <2>3
    <3>2. CASE u = prev  BY SMTT(30), <1>1, <1>3, <1>4, <1>7, <2>3, <3>2
    <3>3. CASE u # prev  BY SMTT(30), <1>3, <1>4, <2>3, <3>1, <3>3 DEF QueueInv
    <3> QED  BY <3>2, <3>3
  <2> QED  BY <2>1, <2>2, <2>3 DEF QueueInv
<1>12. LoadInv'
  <2>1. nrRunnable'[c] = Len(ready'[c]) + Busy(curr'[c])
    <3>1. nrRunnable[c] = Len(ready[c]) + Busy(prev)  BY DEF LoadInv, prev
    <3>2. /\ Len(ready[c]) \in Nat /\ Len(ready'[c]) \in Nat
          /\ Busy(prev) \in {0, 1} /\ Busy(next) \in {0, 1}
      <4>1. ready'[c] \in Seq(Tasks)  BY DEF TypeOK
      <4> QED  BY SMTT(30), <4>1, TypeFacts, BusyFacts
    <3>3. st # "RUNNABLE" => Busy(prev) = 1  BY BusyFacts DEF prev
    <3> QED  BY SMTT(30), <1>1, <1>4, <3>1, <3>2, <3>3
  <2>2. ASSUME NEW d \in Cpus \ {c} PROVE nrRunnable'[d] = Len(ready'[d]) + Busy(curr'[d])
    BY <1>1, <1>4 DEF LoadInv
  <2> QED  BY <2>1, <2>2 DEF LoadInv
<1>13. NoLostTask'
  <2> SUFFICES ASSUME NEW u \in Tasks, state'[u] = "RUNNABLE"
               PROVE  onRq'[u] \/ \E d \in Cpus : curr'[d] = u
    BY DEF NoLostTask
  <2>1. CASE u = next  BY <1>4, <2>1
  <2>2. CASE u = prev  BY <1>2, <1>3, <2>2
  <2>3. CASE u # next /\ u # prev
    <3>1. u \in Threads /\ onRq'[u] = onRq[u] /\ state'[u] = state[u]
      BY <1>2, <1>3, <1>4, <2>3
    <3>2. \A d \in Cpus : curr[d] = u => d # c  BY <2>3 DEF prev
    <3>3. onRq[u] \/ \E d \in Cpus : curr[d] = u  BY <3>1 DEF NoLostTask
    <3>4. ASSUME NEW d \in Cpus, curr[d] = u PROVE curr'[d] = u  BY <1>4, <3>2, <3>4
    <3> QED  BY <3>1, <3>3, <3>4
  <2> QED  BY <2>1, <2>2, <2>3
<1>14. RunsRunnable'
  <2> SUFFICES ASSUME NEW d \in Cpus, curr'[d] \in Tasks, step'[curr'[d]] = "run"
               PROVE  state'[curr'[d]] = "RUNNABLE"
    BY DEF RunsRunnable
  <2>1. CASE d = c  BY SMTT(30), <1>1, <1>2, <1>3, <1>4, <1>6, <2>1
  <2>2. CASE d # c
    <3>1. curr'[d] = curr[d] /\ curr[d] # prev /\ curr[d] \in Threads  BY <1>2, <1>4, <1>7, <2>2
    <3>2. step'[curr[d]] = step[curr[d]]  BY <3>1 DEF prev
    <3>3. state'[curr[d]] = state[curr[d]]  BY <1>3, <3>1
    <3>4. state[curr[d]] = "RUNNABLE"  BY <3>1, <3>2 DEF RunsRunnable
    <3> QED  BY <3>1, <3>3, <3>4
  <2> QED  BY <2>1, <2>2
<1>15. ReschedInv'
  <2> SUFFICES ASSUME NEW x \in Threads, needResched'[x]
               PROVE  \E d \in Cpus : curr'[d] = x /\ ready'[d] # <<>>
    BY DEF ReschedInv
  <2>1. x # prev /\ needResched[x]  BY <1>3
  <2>2. PICK d \in Cpus : curr[d] = x /\ ready[d] # <<>>  BY <2>1 DEF ReschedInv
  <2>3. d # c  BY <2>1, <2>2 DEF prev
  <2>4. curr'[d] = x  BY <1>4, <2>2, <2>3, Zenon
  <2>5. ready'[d] = ready[d]  BY <1>1, <2>3, Zenon
  <2> QED  BY <2>2, <2>4, <2>5, Zenon
<1>16. NoSleepOverWork'
  <2> SUFFICES ASSUME NEW d \in Cpus, curr'[d] = d, step'[d] = "wfi", ready'[d] # <<>>
               PROVE  ssip[d] \/ \E x \in Threads : notify[x] = d
    BY DEF NoSleepOverWork
  <2>1. d # c
    <3>1. SUFFICES ASSUME d = c PROVE FALSE  OBVIOUS
    <3>2. prev # c  BY <1>1, <1>4, <3>1
    <3> QED  BY <1>2, <3>1, <3>2 DEF IdleInv, prev
  <2>2. curr[d] = d /\ ready'[d] = ready[d] /\ d \in Threads /\ d # prev  BY <1>1, <1>2, <1>4, <1>7, <2>1 DEF Threads
  <2>3. step'[d] = step[d]  BY <2>2 DEF prev
  <2> QED  BY <2>2, <2>3 DEF NoSleepOverWork
<1>17. FreedInv'
  <2> SUFFICES ASSUME NEW t \in Tasks, t \in freed \/ \E d \in Cpus : dead[d] = t
               PROVE  state'[t] = "ZOMBIE" /\ ~onRq'[t] /\ ~onCpu'[t]
    BY DEF FreedInv
  <2>1. state[t] = "ZOMBIE" /\ ~onRq[t] /\ ~onCpu[t]  BY DEF FreedInv
  <2>2. t # prev  BY <1>2, <2>1 DEF OnCpuInv, prev
  <2>3. t # next  BY <1>6, <2>1
  <2> QED  BY <1>2, <1>3, <2>1, <2>2, <2>3
<1> QED
  BY <1>9, <1>10, <1>11, <1>12, <1>13, <1>14, <1>15, <1>16, <1>17 DEF SafeInv

\* So do the early returns that keep the current thread.
LEMMA KeepStep ==
  ASSUME IInv, TypeOK', NEW c \in Cpus, KeepCurrent(c, "RUNNABLE"),
         \A x \in Threads : x # curr[c] => step'[x] = step[x],
         curr[c] = c => step'[c] = "ack",
         UNCHANGED <<cpuId, dead, freed, notify, ssip>>
  PROVE  SafeInv'
<1> USE CpuFacts DEF IInv
<1> DEFINE prev == curr[c]
<1>1. /\ curr' = curr /\ switching' = switching /\ onCpu' = onCpu
      /\ onRq' = onRq /\ ready' = ready /\ nrRunnable' = nrRunnable
  BY DEF KeepCurrent
<1>2. /\ prev \in Threads /\ prev \in Tasks \cup {c} /\ c \in Threads
      /\ Tasks \subseteq Threads /\ cpuId[prev] = c /\ onCpu[prev]
  BY TypeFacts DEF OnCpuInv
<1>3. /\ state'[prev] = "RUNNABLE" /\ \A x \in Threads \ {prev} : state'[x] = state[x]
      /\ \A x \in Threads : needResched'[x] => needResched[x]
  BY <1>2 DEF KeepCurrent, TypeOK
<1>4. IdleInv'
  BY <1>1, <1>2, <1>3 DEF IdleInv, Threads
<1>5. OnCpuInv'
  BY SMTT(30), <1>1, <1>2, <1>3 DEF OnCpuInv
<1>6. QueueInv' /\ LoadInv' /\ NoLostTask'
  BY SMTT(30), <1>1, <1>2, <1>3 DEF QueueInv, LoadInv, NoLostTask
<1>7. RunsRunnable'
  BY <1>1, <1>2, <1>3 DEF RunsRunnable
<1>8. ReschedInv'
  BY <1>1, <1>3 DEF ReschedInv
<1>9. NoSleepOverWork'
  BY <1>1, <1>2 DEF NoSleepOverWork, Threads
<1>10. FreedInv'
  BY <1>1, <1>2, <1>3 DEF FreedInv
<1> QED  BY <1>4, <1>5, <1>6, <1>7, <1>8, <1>9, <1>10 DEF SafeInv

\* sched_prepare_switch_locked as a whole preserves the invariant.
LEMMA PrepareStep ==
  ASSUME IInv, TypeOK', NEW c \in Cpus, NEW st \in States, SchedPrepareSwitch(c, st),
         switching[c] = None, st # "NEW", st # "RUNNABLE" => curr[c] \in Tasks,
         \A x \in Threads : x # curr[c] => step'[x] = step[x],
         curr[c] = c => step'[c] = "ack"
  PROVE  SafeInv'
<1>1. UNCHANGED <<cpuId, dead, freed, notify, ssip>>  BY DEF SchedPrepareSwitch
<1>2. CASE KeepCurrent(c, st)
  BY <1>1, <1>2, KeepStep DEF KeepCurrent
<1>3. CASE SwitchTo(c, st)
  BY <1>1, <1>3, SwitchStep
<1> QED  BY <1>2, <1>3 DEF SchedPrepareSwitch

-----------------------------------------------------------------------------
(* The steps.                                                              *)

\* An idle thread never goes by another state than RUNNABLE.
LEMMA EffectiveFacts ==
  ASSUME IInv, NEW c \in Cpus
  PROVE  Effective(c) # "NEW" /\ (Effective(c) # "RUNNABLE" => curr[c] \in Tasks)
<1> USE CpuFacts DEF IInv
<1>1. state[curr[c]] # "NEW"
  BY SMTT(30), TypeFacts DEF OnCpuInv, IdleInv, Threads
<1>2. curr[c] \notin Tasks => state[curr[c]] = "RUNNABLE"
  BY TypeFacts DEF IdleInv
<1> QED  BY <1>1, <1>2 DEF Effective

\* Every step of the scheduler preserves the invariant.
LEMMA SafeStep == IInv /\ [Next]_vars => SafeInv'
<1> SUFFICES ASSUME IInv, [Next]_vars PROVE SafeInv'  OBVIOUS
<1> USE CpuFacts DEF IInv
<1>0. TypeOK'  BY TypingStep
<1>t. Tasks \subseteq Threads /\ Cpus \subseteq Threads  BY TypeFacts
<1>1. CASE SchedTask
  <2>1. UNCHANGED <<idleOnly, ipiVars>> /\ curr[0] = 0 /\ step' = [step EXCEPT ![0] = "ack"]
    BY <1>1 DEF SchedTask, Idles
  <2>2. step'[0] = "ack" /\ \A x \in Threads \ {0} : step'[x] = step[x]
    BY <1>t, <2>1 DEF TypeOK
  <2> QED
    BY SMTT(30), <1>t, <2>1, <2>2 DEF SafeInv, IdleInv, OnCpuInv, QueueInv, LoadInv, NoLostTask, RunsRunnable,
       ReschedInv, NoSleepOverWork, FreedInv
<1>2. ASSUME NEW x \in Threads, CpuSendResched(x) PROVE SafeInv'
  <2>1. UNCHANGED <<state, needResched, sig, step, placeVars, queueVars, cpuVars, exitVars>>
    BY <1>2 DEF CpuSendResched
  <2>2. NoSleepOverWork'
    <3>1. /\ notify[x] \in Cpus /\ ssip'[notify[x]]
          /\ \A d \in Cpus : ssip[d] => ssip'[d]
          /\ \A y \in Threads \ {x} : notify'[y] = notify[y]
      BY <1>2 DEF CpuSendResched, TypeOK
    <3> QED  BY SMTT(30), <2>1, <3>1 DEF NoSleepOverWork
  <2> QED
    BY SMTT(30), <2>1, <2>2 DEF SafeInv, IdleInv, OnCpuInv, QueueInv, LoadInv, NoLostTask, RunsRunnable,
       ReschedInv, FreedInv
<1>3. ASSUME NEW t \in Tasks, SigChange(t) PROVE SafeInv'
  <2>1. UNCHANGED <<state, needResched, step, placeVars, queueVars, cpuVars, exitVars, ipiVars>>
    BY <1>3, Zenon DEF SigChange
  <2>2. IdleInv' /\ OnCpuInv' /\ QueueInv' /\ LoadInv'
    BY SMTT(30), <2>1 DEF IdleInv, OnCpuInv, QueueInv, LoadInv
  <2>3. NoLostTask' /\ RunsRunnable' /\ ReschedInv' /\ NoSleepOverWork' /\ FreedInv'
    BY SMTT(30), <2>1 DEF NoLostTask, RunsRunnable, ReschedInv, NoSleepOverWork, FreedInv
  <2> QED  BY <2>2, <2>3, Zenon DEF SafeInv
<1>4. ASSUME NEW c \in Cpus, CpuStep(c) PROVE SafeInv'
  <2>c. /\ curr[c] \in Threads /\ curr[c] \in Tasks \cup {c} /\ c \in Threads /\ onCpu[curr[c]]
        /\ cpuId[curr[c]] = c
    BY TypeFacts DEF OnCpuInv
  <2>1. ASSUME NEW t \in Tasks, NEW x \in Threads, SchedPublish(x, c, t) PROVE SafeInv'
    <3>1. PICK d \in Cpus : /\ cpuId' = [cpuId EXCEPT ![t] = d]
                            /\ state' = [state EXCEPT ![t] = "RUNNABLE"]
                            /\ EnqueueTask(d, t)
                            /\ NotifyIdle(x, c, d)
      BY <2>1 DEF SchedPublish
    <3>2. state[t] = "NEW" /\ cpuId[t] = None /\ ~onRq[t] /\ t \in Threads
      BY <1>t, <2>1 DEF SchedPublish, OnCpuInv, QueueInv
    <3>3. ~onCpu[t]  BY SMTT(30), <3>2 DEF OnCpuInv, Threads
    <3>4. notify[x] = None /\ (curr[d] = d /\ step[d] = "wfi" => d # c)
      BY <2>1, <2>c DEF SchedPublish, Caller, Runs, IrqOn, Quiet
    <3> QED
      BY <1>0, <2>1, <3>1, <3>2, <3>3, <3>4, EnqueueStep DEF SchedPublish
  <2>2. ASSUME NEW t \in Tasks, NEW x \in Threads, WakeTask(x, c, t) PROVE SafeInv'
    <3>1. /\ state[t] \in Blocked /\ cpuId[t] \in Cpus /\ t \in Threads /\ switching[cpuId[t]] = None
          /\ state' = [state EXCEPT ![t] = "RUNNABLE"]
          /\ UNCHANGED <<sig, step, placeVars, cpuVars, exitVars, ssip>>
      BY SMTT(30), <1>t, <2>2 DEF WakeTask, WakeMasks, Blocked, Sleeps, OnCpuInv, TypeOK, RqFree
    <3>2. ~onRq[t]  BY <3>1 DEF QueueInv, Blocked, Sleeps
    <3>3. notify[x] = None /\ (curr[cpuId[t]] = cpuId[t] /\ step[cpuId[t]] = "wfi" => cpuId[t] # c)
      BY <2>2, <2>c DEF WakeTask, Caller, Runs, IrqOn, Quiet
    <3>4. CASE ~onCpu[t]
      <4>1. EnqueueTask(cpuId[t], t) /\ NotifyIdle(x, c, cpuId[t])  BY <2>2, <3>4 DEF WakeTask, OffCpu
      <4>2. cpuId' = [cpuId EXCEPT ![t] = cpuId[t]]  BY <3>1 DEF TypeOK
      <4>3. state[t] \notin {"RUNNABLE", "ZOMBIE"}  BY <3>1 DEF Blocked, Sleeps
      <4> QED  BY <1>0, <3>1, <3>2, <3>3, <3>4, <4>1, <4>2, <4>3, EnqueueStep
    <3>5. CASE onCpu[t]
      <4>1. UNCHANGED <<queueVars, needResched, notify>>  BY <2>2, <3>5 DEF WakeTask, OffCpu
      <4>2. \E d \in Cpus : curr[d] = t
        BY SMTT(30), <3>1, <3>5 DEF OnCpuInv, Threads
      <4>3. /\ state'[t] = "RUNNABLE" /\ \A y \in Threads \ {t} : state'[y] = state[y]
            /\ state[t] \notin {"NEW", "ZOMBIE", "RUNNABLE"} /\ t \notin Cpus
        BY <3>1 DEF TypeOK, Blocked, Sleeps
      <4>4. IdleInv' /\ OnCpuInv'
        BY SMTT(30), <1>t, <3>1, <4>1, <4>3 DEF IdleInv, OnCpuInv
      <4>5. QueueInv' /\ LoadInv' /\ NoLostTask' /\ RunsRunnable'
        BY SMTT(30), <1>t, <3>1, <4>1, <4>2, <4>3 DEF QueueInv, LoadInv, NoLostTask, RunsRunnable
      <4>6. ReschedInv' /\ NoSleepOverWork' /\ FreedInv'
        BY SMTT(30), <1>t, <3>1, <3>5, <4>1, <4>3 DEF ReschedInv, NoSleepOverWork, FreedInv
      <4> QED  BY <4>4, <4>5, <4>6 DEF SafeInv
    <3> QED  BY <3>4, <3>5 DEF TypeOK
  <2>3. CASE (\E st \in Sleeps : SchedSetSleep(c, st)) \/ SchedStop(c)
    <3>1. /\ curr[c] \in Tasks /\ step' = [step EXCEPT ![curr[c]] = "park"]
          /\ \E st \in Blocked \cup {"RUNNABLE"} : state' = [state EXCEPT ![curr[c]] = st]
          /\ UNCHANGED <<needResched, placeVars, queueVars, cpuVars, exitVars, ipiVars>>
      BY <2>3, <2>c DEF SchedSetSleep, SchedStop, Runs, RunsRunnable, Blocked
    <3>2. /\ state'[curr[c]] \notin {"NEW", "ZOMBIE"} /\ step'[curr[c]] = "park"
          /\ \A y \in Threads \ {curr[c]} : state'[y] = state[y] /\ step'[y] = step[y]
          /\ curr[c] \notin Cpus /\ state[curr[c]] \notin {"NEW"}
      BY SMTT(30), <2>c, <3>1 DEF TypeOK, Blocked, Sleeps, OnCpuInv
    <3>3. IdleInv' /\ OnCpuInv'
      BY SMTT(30), <1>t, <3>1, <3>2 DEF IdleInv, OnCpuInv, Threads
    <3>4. QueueInv' /\ LoadInv' /\ NoLostTask' /\ RunsRunnable'
      BY SMTT(30), <1>t, <2>c, <3>1, <3>2 DEF QueueInv, LoadInv, NoLostTask, RunsRunnable
    <3>5. ReschedInv' /\ NoSleepOverWork' /\ FreedInv'
      BY SMTT(30), <1>t, <2>c, <3>1, <3>2 DEF ReschedInv, NoSleepOverWork, FreedInv
    <3> QED  BY <3>3, <3>4, <3>5 DEF SafeInv
  <2>5. CASE SchedPark(c)
    <3>1. /\ switching[c] = None /\ curr[c] # c /\ SchedPrepareSwitch(c, Effective(c))
          /\ \A x \in Threads : x # curr[c] => step'[x] = step[x]
      BY <2>5, <2>c DEF SchedPark, Quiet, TypeOK
    <3> QED  BY <1>0, <3>1, PrepareStep, EffectiveFacts, EffectiveTyping
  <2>6. CASE PreemptSchedule(c)
    <3>1. /\ switching[c] = None /\ curr[c] # c /\ SchedPrepareSwitch(c, Effective(c))
          /\ step' = step
      BY <2>6, <2>c DEF PreemptSchedule, Runs, Quiet
    <3> QED  BY <1>0, <3>1, PrepareStep, EffectiveFacts, EffectiveTyping
  <2>7. CASE SchedExit(c)
    <3>1. /\ switching[c] = None /\ curr[c] \in Tasks /\ curr[c] # c /\ SchedPrepareSwitch(c, "ZOMBIE")
          /\ step' = step
      BY <2>7, <2>c DEF SchedExit, Runs, Quiet
    <3>2. "ZOMBIE" \in States  BY DEF States
    <3> QED  BY <1>0, <3>1, <3>2, PrepareStep
  <2>8. CASE SchedFinishSwitch(c)
    <3> DEFINE prev == switching[c]
    <3>1. /\ prev # None /\ onCpu' = [onCpu EXCEPT ![prev] = FALSE]
          /\ switching' = [switching EXCEPT ![c] = None]
          /\ dead' = [dead EXCEPT ![c] = IF state[prev] = "ZOMBIE" THEN prev ELSE None]
          /\ UNCHANGED <<state, needResched, sig, step, placeVars, queueVars, curr, freed, ipiVars>>
      BY <2>8 DEF SchedFinishSwitch
    <3>2. /\ prev \in Threads /\ cpuId[prev] = c /\ prev # curr[c]
          /\ \A d \in Cpus : curr[d] # prev /\ (d # c => switching[d] # prev)
      BY SMTT(30), <3>1, TypeFacts DEF OnCpuInv
    <3> HIDE DEF prev
    <3>3. /\ onCpu'[prev] = FALSE /\ \A x \in Threads \ {prev} : onCpu'[x] = onCpu[x]
          /\ switching'[c] = None /\ \A d \in Cpus \ {c} : switching'[d] = switching[d]
          /\ \A d \in Cpus \ {c} : dead'[d] = dead[d]
          /\ dead'[c] # None => dead'[c] = prev /\ state[prev] = "ZOMBIE"
      BY <3>1, <3>2 DEF TypeOK
    <3>4. OnCpuInv'
      <4>1. ASSUME NEW x \in Threads
            PROVE  onCpu'[x] <=> \E d \in Cpus : curr'[d] = x \/ switching'[d] = x
        <5>1. CASE x = prev  BY <3>1, <3>2, <3>3, <5>1
        <5>2. CASE x # prev
          <6>1. onCpu'[x] = onCpu[x] /\ x # None /\ switching[c] # x  BY <3>3, <5>2 DEF prev
          <6>2. curr' = curr /\ \A d \in Cpus : switching'[d] = x <=> switching[d] = x
            BY <3>1, <3>3, <6>1
          <6> QED  BY <6>1, <6>2 DEF OnCpuInv
        <5> QED  BY <5>1, <5>2
      <4> QED  BY SMTT(30), <3>1, <3>3, <4>1 DEF OnCpuInv
    <3>5. FreedInv'
      <4> SUFFICES ASSUME NEW t \in Tasks, t \in freed \/ \E d \in Cpus : dead'[d] = t
                   PROVE  state[t] = "ZOMBIE" /\ ~onRq[t] /\ ~onCpu'[t]
        BY <3>1 DEF FreedInv
      <4>1. t \in Threads /\ t # None  BY <1>t
      <4>2. CASE t = prev /\ dead'[c] = prev
        BY <3>3, <4>1, <4>2 DEF QueueInv
      <4>3. CASE t \in freed \/ \E d \in Cpus : dead[d] = t
        BY <3>3, <4>1, <4>3 DEF FreedInv
      <4> QED  BY <3>3, <4>1, <4>2, <4>3
    <3> QED
      BY <3>1, <3>4, <3>5 DEF SafeInv, IdleInv, QueueInv, LoadInv, NoLostTask, RunsRunnable,
         ReschedInv, NoSleepOverWork
  <2>9. CASE TaskFinishExit(c)
    <3>1. FreedInv'
      <4>1. /\ freed' = freed \cup {dead[c]} /\ dead' = [dead EXCEPT ![c] = None]
            /\ state' = state /\ onRq' = onRq /\ onCpu' = onCpu
        BY <2>9 DEF TaskFinishExit
      <4>2. dead'[c] = None /\ \A d \in Cpus \ {c} : dead'[d] = dead[d]
        BY <4>1 DEF TypeOK
      <4> QED  BY SMTT(30), <1>t, <4>1, <4>2 DEF FreedInv
    <3> QED
      BY SMTT(30), <2>9, <3>1 DEF TaskFinishExit, SafeInv, IdleInv, OnCpuInv, QueueInv, LoadInv, NoLostTask,
         RunsRunnable, ReschedInv, NoSleepOverWork
  <2>10. CASE SchedTick(c)
    <3>1. ReschedInv'
      BY <2>10, <2>c DEF SchedTick, ReschedInv, TypeOK
    <3>2. UNCHANGED <<state, sig, step, placeVars, queueVars, cpuVars, exitVars, ipiVars>>
      BY <2>10 DEF SchedTick
    <3>3. IdleInv' /\ OnCpuInv' /\ QueueInv' /\ LoadInv'
      BY SMTT(30), <3>2 DEF IdleInv, OnCpuInv, QueueInv, LoadInv
    <3>4. NoLostTask' /\ RunsRunnable' /\ NoSleepOverWork' /\ FreedInv'
      BY <3>2, Zenon DEF NoLostTask, RunsRunnable, NoSleepOverWork, FreedInv
    <3> QED  BY <3>1, <3>3, <3>4 DEF SafeInv
  <2>11. CASE CpuHandleIpi(c)
    <3>1. NoSleepOverWork'
      BY <2>11 DEF CpuHandleIpi, IrqOn, NoSleepOverWork, TypeOK
    <3> QED
      BY SMTT(30), <2>11, <3>1 DEF CpuHandleIpi, SafeInv, IdleInv, OnCpuInv, QueueInv, LoadInv, NoLostTask,
         RunsRunnable, ReschedInv, FreedInv
  <2>12. CASE IdleAck(c) \/ IdleCheck(c) \/ IdleWake(c) \/ IdleIrqOff(c)
    <3>1. /\ curr[c] = c /\ UNCHANGED <<idleOnly, notify>>
          /\ \A x \in Threads \ {c} : step'[x] = step[x]
          /\ \A d \in Cpus \ {c} : ssip'[d] = ssip[d]
      BY <2>c, <2>12 DEF IdleAck, IdleCheck, IdleWake, IdleIrqOff, Idles, TypeOK
    <3>2. step'[c] = "wfi" => ready[c] = <<>>
      BY SMTT(30), <2>c, <2>12 DEF IdleAck, IdleCheck, IdleWake, IdleIrqOff, Idles, IdleWork, TypeOK
    <3>3. IdleInv' /\ RunsRunnable' /\ NoSleepOverWork'
      BY SMTT(30), <1>t, <3>1, <3>2 DEF IdleInv, RunsRunnable, NoSleepOverWork
    <3> QED
      <4>1. /\ state' = state /\ needResched' = needResched /\ cpuId' = cpuId /\ onRq' = onRq
            /\ ready' = ready /\ nrRunnable' = nrRunnable /\ onCpu' = onCpu /\ curr' = curr
            /\ switching' = switching /\ dead' = dead /\ freed' = freed
        BY <3>1
      <4>2. OnCpuInv' /\ QueueInv' /\ LoadInv' /\ NoLostTask'
        BY <4>1 DEF OnCpuInv, QueueInv, LoadInv, NoLostTask
      <4>3. ReschedInv' /\ FreedInv'
        BY <4>1 DEF ReschedInv, FreedInv
      <4> QED  BY <3>3, <4>2, <4>3 DEF SafeInv
  <2>13. CASE IdleSwitch(c)
    <3>1. /\ switching[c] = None /\ curr[c] = c /\ SchedPrepareSwitch(c, Effective(c))
          /\ step'[c] = "ack" /\ \A x \in Threads : x # curr[c] => step'[x] = step[x]
      BY <2>c, <2>13 DEF IdleSwitch, Idles, Quiet, TypeOK
    <3> QED  BY <1>0, <3>1, PrepareStep, EffectiveFacts, EffectiveTyping
  <2> QED
    BY <1>4, <2>1, <2>2, <2>3, <2>5, <2>6, <2>7, <2>8, <2>9, <2>10, <2>11, <2>12, <2>13 DEF CpuStep
<1>5. CASE UNCHANGED vars
  <2>1. IdleInv' /\ OnCpuInv' /\ QueueInv' /\ LoadInv'
    BY SMTT(30), <1>5 DEF vars, IdleInv, OnCpuInv, QueueInv, LoadInv
  <2>2. NoLostTask' /\ RunsRunnable' /\ ReschedInv' /\ NoSleepOverWork' /\ FreedInv'
    BY SMTT(30), <1>5 DEF vars, NoLostTask, RunsRunnable, ReschedInv, NoSleepOverWork, FreedInv
  <2> QED  BY <2>1, <2>2 DEF SafeInv
<1> QED  BY <1>1, <1>2, <1>3, <1>4, <1>5 DEF Next

\* The scheduler starts in the invariant.
LEMMA InitInv == Init => IInv
<1> SUFFICES ASSUME Init PROVE IInv  OBVIOUS
<1> USE CpuFacts
<1>t. Tasks \subseteq Threads /\ Cpus \subseteq Threads  BY DEF Threads
<1>1. /\ \A c \in Cpus : /\ state[c] = "RUNNABLE" /\ cpuId[c] = c /\ ~onRq[c] /\ onCpu[c]
                        /\ curr[c] = c /\ ready[c] = <<>> /\ nrRunnable[c] = 0
                        /\ switching[c] = None /\ dead[c] = None /\ step[c] \in {"boot", "ack"}
      /\ \A t \in Tasks : state[t] = "NEW" /\ cpuId[t] = None /\ ~onRq[t] /\ ~onCpu[t]
      /\ \A x \in Threads : ~needResched[x]
  BY <1>t DEF Init
<1>2. TypeOK
  BY SMTT(30), <1>t DEF Init, TypeOK, States, Steps
<1>3. IdleInv /\ OnCpuInv
  BY SMTT(30), <1>1 DEF IdleInv, OnCpuInv, Threads
<1>4. QueueInv /\ NoLostTask
  BY SMTT(30), <1>1 DEF QueueInv, NoLostTask, Elems, Distinct
<1>5. LoadInv
  BY SMTT(30), <1>1, BusyFacts DEF LoadInv
<1>6. RunsRunnable /\ ReschedInv /\ NoSleepOverWork
  BY <1>1 DEF RunsRunnable, ReschedInv, NoSleepOverWork
<1>7. FreedInv
  BY SMTT(30), <1>1, <1>t DEF FreedInv, Init
<1> QED  BY <1>2, <1>3, <1>4, <1>5, <1>6, <1>7 DEF IInv

(***************************************************************************)
(* The conjunction of the invariants is inductive: they hold of the        *)
(* scheduler for any number of CPUs and tasks.                             *)
(***************************************************************************)
THEOREM Invariance == Spec => []IInv
<1>1. IInv /\ [Next]_vars => IInv'
  BY TypingStep, SafeStep DEF IInv, SafeInv
<1> QED  BY InitInv, <1>1, PTL DEF Spec

\* The ready lists, the on_rq flags and the task states agree.
THEOREM QueueSafety == Spec => []QueueInv
BY Invariance, PTL DEF IInv

\* nr_runnable is the load of its CPU after every critical section.
THEOREM LoadSafety == Spec => []LoadInv
BY Invariance, PTL DEF IInv

\* No task executes on two CPUs.
THEOREM OnCpuSafety == Spec => []OnCpuInv
BY Invariance, PTL DEF IInv

\* No wakeup is lost.
THEOREM WakeSafety == Spec => []NoLostTask
BY Invariance, PTL DEF IInv

\* No CPU waits for interrupts while it has work nobody told it of.
THEOREM IdleSafety == Spec => []NoSleepOverWork
BY Invariance, PTL DEF IInv

\* No kernel stack is freed under a running task.
THEOREM ExitSafety == Spec => []FreedInv
BY Invariance, PTL DEF IInv

-----------------------------------------------------------------------------
(* The contract of the sleeping primitives.                                *)

\* The states that the two modules name differ in nothing.
LEMMA ContractFacts ==
  ASSUME IInv
  PROVE  /\ Contract!Blocked = Blocked /\ Sleeps \subseteq Blocked
         /\ "STOPPED" \in Blocked /\ "RUNNABLE" \notin Blocked
         /\ \A t \in Tasks : t \in Threads /\ TaskStates[t] = state[t] /\ state[t] \in States
  BY TypeFacts DEF IInv, TypeOK, Contract!Blocked, Contract!Sleeps, Blocked, Sleeps, TaskStates

\* A step that changes the state of one task at most.
LEMMA StateSeen ==
  ASSUME IInv, NEW x \in Threads, NEW st, state' = [state EXCEPT ![x] = st]
  PROVE  /\ x \in Tasks => TaskStates' = [TaskStates EXCEPT ![x] = st]
         /\ x \notin Tasks \/ st = state[x] => TaskStates' = TaskStates
<1>1. /\ state'[x] = st /\ \A t \in Tasks : t # x => state'[t] = state[t]
  BY TypeFacts DEF IInv, TypeOK
<1>2. x \notin Tasks \/ st = state[x] => \A t \in Tasks : state'[t] = state[t]  BY <1>1
<1>3. ASSUME x \in Tasks PROVE TaskStates' = [TaskStates EXCEPT ![x] = st]
  <2>1. [TaskStates EXCEPT ![x] = st] = [t \in Tasks |-> IF t = x THEN st ELSE state[t]]
    BY <1>3 DEF TaskStates
  <2>2. \A t \in Tasks : state'[t] = IF t = x THEN st ELSE state[t]  BY <1>1
  <2>3. TaskStates' = [t \in Tasks |-> state'[t]]  BY DEF TaskStates
  <2> QED  BY <2>1, <2>2, <2>3
<1>4. x \notin Tasks \/ st = state[x] => TaskStates' = TaskStates  BY <1>2 DEF TaskStates
<1> QED  BY <1>3, <1>4

\* The current tasks hold a CPU each.
LEMMA RunningBound ==
  ASSUME NEW f \in [Cpus -> Threads]
  PROVE  Contract!HaveCpus({t \in Tasks : \E c \in Cpus : f[c] = t})
<1> DEFINE R == {t \in Tasks : \E c \in Cpus : f[c] = t}
           On(t) == CHOOSE c \in Cpus : f[c] = t
           cpu == [t \in R |-> On(t)]
<1>1. \A t \in R : On(t) \in Cpus /\ f[On(t)] = t  OBVIOUS
<1>2. cpu \in [R -> 0 .. NrCpus - 1]  BY <1>1 DEF Cpus
<1>3. \A s, t \in R : cpu[s] = cpu[t] => s = t  BY <1>1
<1> QED  BY <1>2, <1>3 DEF Contract!HaveCpus

\* One thread, if it is a task.
One(x) == {t \in Tasks : t = x}

LEMMA OneFacts == \A x : /\ One(x) \in SUBSET Tasks /\ Contract!AtMostOne(One(x))
                         /\ (x \in Tasks => One(x) = {x}) /\ (x \notin Tasks => One(x) = {})
  BY DEF One, Contract!AtMostOne

\* switch_to gives the CPU from one thread to another, which was waiting for it.
LEMMA SwitchReplaces ==
  ASSUME IInv, TypeOK', NEW c \in Cpus, NEW st \in States, SwitchTo(c, st),
         st # "RUNNABLE" => curr[c] \in Tasks
  PROVE  Contract!Replace(One(curr[c]), One(NextThread(c, st)))
<1> DEFINE prev == curr[c]  next == NextThread(c, st)
<1>1. /\ curr' = [curr EXCEPT ![c] = next] /\ next \in Tasks \cup {c} /\ next # prev
      /\ next \in Tasks => next \in Elems(ready[c])
  BY PickFacts
<1>2. /\ prev \in Tasks \cup {c} /\ \A d \in Cpus : curr[d] = prev => d = c
  BY SMTT(30), TypeFacts DEF IInv, OnCpuInv
<1>3. next \in Tasks => state[next] = "RUNNABLE" /\ \A d \in Cpus : curr[d] # next
  BY <1>1 DEF IInv, QueueInv
<1>4. curr'[c] = next /\ \A d \in Cpus \ {c} : curr'[d] = curr[d]
  BY <1>1 DEF IInv, TypeOK
<1> HIDE DEF prev, next
<1>5. Running' = (Running \ One(prev)) \cup One(next)
  BY SMTT(30), <1>1, <1>2, <1>4 DEF Running, One, prev
<1>6. One(prev) \subseteq Running  BY DEF One, Running, prev
<1>7. \A t \in One(next) : Contract!Waiting(t)
  BY <1>3 DEF One, Running, TaskStates, Contract!Waiting
<1>8. Contract!HaveCpus(Running')
  <2>1. curr' \in [Cpus -> Threads]  BY DEF TypeOK
  <2> QED  BY <2>1, RunningBound DEF Running
<1>9. Contract!AtMostOne(One(prev)) /\ Contract!AtMostOne(One(next))  BY OneFacts
<1>10. Contract!Replace(One(prev), One(next))
  BY <1>5, <1>6, <1>7, <1>8, <1>9 DEF Contract!Replace
<1> QED  BY <1>10 DEF prev, next

\* Nothing that the contract sees has changed.
LEMMA Stutter == TaskStates' = TaskStates /\ Running' = Running => [Contract!Next]_(Contract!vars)
  BY DEF Contract!vars

\* sched_prepare_switch_locked with the state that it finds: the current task goes on,
\* its sleep cancelled if a signal is pending, or another one takes the CPU.
LEMMA PrepareContract ==
  ASSUME IInv, TypeOK', NEW c \in Cpus, SchedPrepareSwitch(c, Effective(c))
  PROVE  [Contract!Next]_(Contract!vars)
<1>1. PICK t \in Threads : t = curr[c]  BY TypeFacts DEF IInv
<1>2. PICK st \in States : st = Effective(c)  BY EffectiveTyping DEF IInv
<1>3. \/ st = state[t]
      \/ t \in Tasks /\ state[t] \in Blocked /\ st = "RUNNABLE"
  <2>1. st = state[t] \/ (st = "RUNNABLE" /\ state[t] \in Blocked)
    BY <1>1, <1>2 DEF Effective, SignalPendingState, Blocked, Sleeps
  <2>2. t \in Tasks \cup {c} /\ state[c] = "RUNNABLE"  BY <1>1, TypeFacts DEF IInv, IdleInv
  <2> QED  BY <2>1, <2>2, ContractFacts
<1>4. st # "RUNNABLE" => curr[c] \in Tasks
  BY <1>1, <1>3, TypeFacts DEF IInv, IdleInv
<1>5. state' = [state EXCEPT ![t] = st]
  BY <1>1, <1>2 DEF SchedPrepareSwitch, KeepCurrent, SwitchTo
<1>6. CASE KeepCurrent(c, st)
  <2>1. Running' = Running  BY <1>6 DEF KeepCurrent, Running
  <2>2. CASE st = state[t]
    <3>1. TaskStates' = TaskStates  BY <1>5, <2>2, StateSeen
    <3> QED  BY <2>1, <3>1, Stutter
  <2>3. CASE t \in Tasks /\ state[t] \in Blocked /\ st = "RUNNABLE"
    <3>1. TaskStates' = [TaskStates EXCEPT ![t] = "RUNNABLE"]  BY <1>5, <2>3, StateSeen
    <3>2. Contract!Wake(t)  BY <2>1, <2>3, <3>1, ContractFacts DEF Contract!Wake
    <3> QED  BY <2>3, <3>2 DEF Contract!Next
  <2> QED  BY <1>3, <2>2, <2>3
<1>7. CASE SwitchTo(c, st)
  <2>1. PICK out \in SUBSET Tasks, enter \in SUBSET Tasks :
          out = One(t) /\ enter = One(NextThread(c, st))
    BY OneFacts
  <2>2. Contract!Replace(out, enter)  BY <1>1, <1>4, <1>7, <2>1, SwitchReplaces
  <2>3. CASE st = state[t]
    <3>1. TaskStates' = TaskStates  BY <1>5, <2>3, StateSeen
    <3>2. Contract!Switch(out, enter)  BY <2>2, <3>1 DEF Contract!Switch
    <3> QED  BY <3>2 DEF Contract!Next
  <2>4. CASE t \in Tasks /\ state[t] \in Blocked /\ st = "RUNNABLE"
    <3>1. TaskStates' = [TaskStates EXCEPT ![t] = "RUNNABLE"]  BY <1>5, <2>4, StateSeen
    <3>2. t \in out  BY <2>1, <2>4 DEF One
    <3>3. Contract!Switch(out, enter)  BY <2>2, <2>4, <3>1, <3>2, ContractFacts DEF Contract!Switch
    <3> QED  BY <3>3 DEF Contract!Next
  <2> QED  BY <1>3, <2>3, <2>4
<1> QED  BY <1>2, <1>6, <1>7 DEF SchedPrepareSwitch

\* sched_exit: the last switch of the current task.
LEMMA ExitContract ==
  ASSUME IInv, TypeOK', NEW c \in Cpus, SchedExit(c)
  PROVE  [Contract!Next]_(Contract!vars)
<1>1. PICK t \in Tasks : t = curr[c]  BY DEF SchedExit, Runs
<1>2. SwitchTo(c, "ZOMBIE")  BY DEF SchedExit, SchedPrepareSwitch, KeepCurrent
<1>3. state[t] = "RUNNABLE"  BY <1>1 DEF SchedExit, Runs, IInv, RunsRunnable
<1>4. state' = [state EXCEPT ![t] = "ZOMBIE"]  BY <1>1, <1>2 DEF SwitchTo
<1>5. TaskStates' = [TaskStates EXCEPT ![t] = "ZOMBIE"]  BY <1>4, StateSeen, ContractFacts
<1>6. PICK enter \in SUBSET Tasks : enter = One(NextThread(c, "ZOMBIE"))  BY OneFacts
<1>7. "ZOMBIE" \in States  BY DEF States
<1>8. Contract!Replace(One(curr[c]), One(NextThread(c, "ZOMBIE")))
  BY <1>1, <1>2, <1>7, SwitchReplaces
<1>9. Contract!Replace({t}, enter)  BY <1>1, <1>6, <1>8, OneFacts
<1>10. Contract!Exit(t, enter)  BY <1>3, <1>5, <1>9, ContractFacts DEF Contract!Exit
<1> QED  BY <1>10 DEF Contract!Next

\* Every step of the scheduler is a step of the contract, or none.
LEMMA ContractStep == IInv /\ [Next]_vars => [Contract!Next]_(Contract!vars)
<1> SUFFICES ASSUME IInv, [Next]_vars PROVE [Contract!Next]_(Contract!vars)  OBVIOUS
<1>0. TypeOK'  BY TypingStep
<1>s. ASSUME state' = state, curr' = curr PROVE [Contract!Next]_(Contract!vars)
  <2>1. TaskStates' = TaskStates /\ Running' = Running  BY <1>s DEF TaskStates, Running
  <2> QED  BY <2>1, Stutter
<1>1. ASSUME NEW c \in Cpus, NEW t \in Tasks, NEW x \in Threads, SchedPublish(x, c, t)
      PROVE  [Contract!Next]_(Contract!vars)
  <2>1. state[t] = "NEW" /\ state' = [state EXCEPT ![t] = "RUNNABLE"] /\ curr' = curr
    BY <1>1 DEF SchedPublish
  <2>2. TaskStates' = [TaskStates EXCEPT ![t] = "RUNNABLE"] /\ Running' = Running
    BY <2>1, StateSeen, ContractFacts DEF Running
  <2>3. Contract!Publish(t)  BY <2>1, <2>2, ContractFacts DEF Contract!Publish
  <2> QED  BY <2>3 DEF Contract!Next
<1>2. ASSUME NEW c \in Cpus, NEW t \in Tasks, NEW x \in Threads, WakeTask(x, c, t)
      PROVE  [Contract!Next]_(Contract!vars)
  <2>1. state[t] \in Blocked /\ state' = [state EXCEPT ![t] = "RUNNABLE"] /\ curr' = curr
    BY <1>2 DEF WakeTask, WakeMasks, Blocked, Sleeps
  <2>2. TaskStates' = [TaskStates EXCEPT ![t] = "RUNNABLE"] /\ Running' = Running
    BY <2>1, StateSeen, ContractFacts DEF Running
  <2>3. Contract!Wake(t)  BY <2>1, <2>2, ContractFacts DEF Contract!Wake
  <2> QED  BY <2>3 DEF Contract!Next
<1>r. ASSUME NEW c \in Cpus, NEW st \in Blocked, Runs(c),
             state' = [state EXCEPT ![curr[c]] = st], curr' = curr
      PROVE  [Contract!Next]_(Contract!vars)
  <2>1. PICK t \in Tasks : t = curr[c]  BY <1>r DEF Runs
  <2>2. t \in Running /\ state[t] = "RUNNABLE"
    BY <1>r, <2>1 DEF Runs, Running, IInv, RunsRunnable
  <2>3. state' = [state EXCEPT ![t] = st]  BY <1>r, <2>1
  <2>4. TaskStates' = [TaskStates EXCEPT ![t] = st] /\ Running' = Running
    BY <1>r, <2>3, StateSeen, ContractFacts DEF Running
  <2>5. Contract!Register(t, st)  BY <2>2, <2>4, ContractFacts DEF Contract!Register
  <2> QED  BY <2>5, ContractFacts DEF Contract!Next
<1>3. ASSUME NEW c \in Cpus, NEW st \in Sleeps, SchedSetSleep(c, st)
      PROVE  [Contract!Next]_(Contract!vars)
  BY <1>3, <1>r, ContractFacts DEF SchedSetSleep
<1>4. ASSUME NEW c \in Cpus, SchedStop(c) PROVE [Contract!Next]_(Contract!vars)
  <2>1. CASE "STOPPENDING" \in sig[curr[c]]
    <3>1. Runs(c) /\ state' = [state EXCEPT ![curr[c]] = "STOPPED"] /\ curr' = curr
      BY <1>4, <2>1 DEF SchedStop
    <3> QED  BY <3>1, <1>r, ContractFacts
  <2>2. CASE "STOPPENDING" \notin sig[curr[c]]
    <3>1. state' = [state EXCEPT ![curr[c]] = @] /\ curr' = curr  BY <1>4, <2>2 DEF SchedStop
    <3>2. state' = state  BY <3>1 DEF IInv, TypeOK
    <3> QED  BY <1>s, <3>1, <3>2
  <2> QED  BY <2>1, <2>2
<1>5. ASSUME NEW c \in Cpus, SchedPark(c) \/ PreemptSchedule(c) \/ IdleSwitch(c)
      PROVE  [Contract!Next]_(Contract!vars)
  <2>1. SchedPrepareSwitch(c, Effective(c))  BY <1>5 DEF SchedPark, PreemptSchedule, IdleSwitch
  <2> QED  BY <1>0, <2>1, PrepareContract
<1>6. ASSUME NEW c \in Cpus, SchedExit(c) PROVE [Contract!Next]_(Contract!vars)
  BY <1>0, <1>6, ExitContract
<1>7. ASSUME NEW c \in Cpus, SchedFinishSwitch(c) \/ TaskFinishExit(c) \/ SchedTick(c) \/ CpuHandleIpi(c)
      PROVE  [Contract!Next]_(Contract!vars)
  BY <1>7, <1>s DEF SchedFinishSwitch, TaskFinishExit, SchedTick, CpuHandleIpi
<1>8. ASSUME NEW c \in Cpus, IdleAck(c) \/ IdleCheck(c) \/ IdleWake(c) \/ IdleIrqOff(c)
      PROVE  [Contract!Next]_(Contract!vars)
  BY <1>8, <1>s DEF IdleAck, IdleCheck, IdleWake, IdleIrqOff
<1>9. ASSUME \/ SchedTask
             \/ \E x \in Threads : CpuSendResched(x)
             \/ \E t \in Tasks : SigChange(t)
             \/ UNCHANGED vars
      PROVE  [Contract!Next]_(Contract!vars)
  BY <1>9, <1>s DEF SchedTask, CpuSendResched, SigChange, vars
<1> QED
  BY <1>1, <1>2, <1>3, <1>4, <1>5, <1>6, <1>7, <1>8, <1>9 DEF Next, CpuStep

(***************************************************************************)
(* The scheduler of any number of CPUs keeps the promise that the sleeping *)
(* primitives of kernel/wait.c and the modules built on them rely on: a    *)
(* task that gave up its CPU in a sleep stays away until it is woken, a    *)
(* wakeup that overtakes the sleep cancels it, no more tasks execute than  *)
(* there are CPUs, and sched_exit is the last anybody sees of a task.      *)
(***************************************************************************)
THEOREM SchedRefines == Spec => Contract!Safety
<1>1. Init => Contract!Init
  <2> SUFFICES ASSUME Init PROVE Contract!Init  OBVIOUS
  <2>1. TaskStates = [t \in Tasks |-> "NEW"]  BY CpuFacts DEF Init, TaskStates, Threads
  <2>2. Running = {}  BY CpuFacts DEF Init, Running
  <2> QED  BY <2>1, <2>2 DEF Contract!Init
<1> QED  BY <1>1, ContractStep, Invariance, PTL DEF Spec, Contract!Safety
=============================================================================
