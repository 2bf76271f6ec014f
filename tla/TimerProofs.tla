---------------------------- MODULE TimerProofs ----------------------------
(***************************************************************************)
(* The timers of any number of CPUs: base->first is the earliest queued    *)
(* timer, a released timer is unknown to every base, and every step is a   *)
(* step of the abstract timers.                                            *)
(***************************************************************************)
EXTENDS Timer, WaitLemmas

USE SMTT(30)

\* The timers in the tree of c that are not the first one come after it.
EarliestOf(c, f) ==
  IF Queued(c) = {} THEN f = None
  ELSE f \in Queued(c) /\ \A u \in Queued(c) \ {f} : Before(f, u)

\* Sequence numbers order the timers of a base that have one deadline.
SequenceInv ==
  \A c \in Cpus : \A t \in Queued(c) :
    /\ seq[t] < nextSeq[c]
    /\ \A u \in Queued(c) : seq[t] = seq[u] => t = u

\* A timer that is not IDLE has an owner, and the base of a CPU; the one whose
\* callback a tick executes belongs to the base of that CPU.  A tick goes by a
\* time that has passed.
OwnerInv ==
  /\ \A t \in Timers : pc[t] # "idle" => cpu[t] \in Cpus
  /\ \A t \in Timers : tstate[t] # "IDLE" => pc[t] # "idle"
  /\ \A c \in Cpus : firing[c] # None =>
       tstate[firing[c]] \in {"RUNNING", "DRAINING"} /\ cpu[firing[c]] = c
  /\ \A c \in Cpus : Distinct(drain[c])
  /\ \A c \in Cpus : tick[c] # None => tick[c] <= now

TimerIInv ==
  /\ TypeOK /\ SequenceInv /\ OwnerInv
  /\ \A c \in Cpus : EarliestOf(c, first[c])

\* The invariant of the runs follows.
LEMMA TimerIInvImplies == TimerIInv => BasesInv
<1> SUFFICES ASSUME TimerIInv PROVE BasesInv
  OBVIOUS
<1>1. FirstInv BY DEF TimerIInv, EarliestOf, FirstInv
<1>2. ReleasedInv
  <2>1. \A t \in Timers : t # None BY TimerAssumption
  <2> QED BY <2>1 DEF TimerIInv, OwnerInv, ReleasedInv
<1> QED BY <1>1, <1>2 DEF BasesInv

\* Every set of queued timers of one base has an earliest one, which CHOOSE finds.
LEMMA EarliestExists ==
  ASSUME TypeOK, SequenceInv, NEW c \in Cpus, NEW Q, Q \subseteq Queued(c), Q # {}
  PROVE  /\ (CHOOSE u \in Q : \A v \in Q \ {u} : Before(u, v)) \in Q
         /\ \A v \in Q \ {CHOOSE u \in Q : \A w \in Q \ {u} : Before(u, w)} :
              Before(CHOOSE u \in Q : \A w \in Q \ {u} : Before(u, w), v)
<1>1. PICK d \in {deadline[t] : t \in Q} : \A e \in {deadline[t] : t \in Q} : d <= e
  <2>1. {deadline[t] : t \in Q} \subseteq Nat /\ {deadline[t] : t \in Q} # {}
    BY TimerAssumption DEF TypeOK, Queued
  <2> HIDE DEF Queued
  <2> QED BY <2>1, FirstPosition, Zenon
<1> DEFINE E == {t \in Q : deadline[t] = d}
<1>2. PICK n \in {seq[t] : t \in E} : \A m \in {seq[t] : t \in E} : n <= m
  <2>1. E # {} /\ E \subseteq Timers BY <1>1 DEF Queued
  <2>2. \A t \in Timers : seq[t] \in Nat BY TimerAssumption DEF TypeOK
  <2>3. {seq[t] : t \in E} \subseteq Nat /\ {seq[t] : t \in E} # {}
    <3> HIDE DEF E
    <3> QED BY <2>1, <2>2
  <2> HIDE DEF E
  <2> QED BY <2>3, FirstPosition, Zenon
<1>3. PICK f \in E : seq[f] = n BY <1>2
<1>4. ASSUME NEW v \in Q \ {f} PROVE Before(f, v)
  <2>1. f \in Timers /\ v \in Timers /\ deadline[f] \in Nat /\ deadline[v] \in Nat
        /\ seq[f] \in Nat /\ seq[v] \in Nat
    BY TimerAssumption DEF TypeOK, Queued
  <2>2. deadline[f] = d /\ d <= deadline[v] BY <1>1, <1>3
  <2>3. deadline[v] = d => seq[f] <= seq[v] BY <1>2, <1>3
  <2>4. seq[f] # seq[v] BY DEF SequenceInv
  <2> QED BY <2>1, <2>2, <2>3, <2>4 DEF Before
<1> QED BY <1>3, <1>4

\* A timer comes after none of those that come after it.
LEMMA BeforeFacts ==
  ASSUME TypeOK, NEW t \in Timers, NEW u \in Timers
  PROVE  /\ Before(t, u) => ~Before(u, t)
         /\ ~Before(t, t)
         /\ \A v \in Timers : Before(t, u) /\ Before(u, v) => Before(t, v)
  BY TimerAssumption DEF TypeOK, Before

\* remove_timer_locked: the cached timer is the earliest one of the rest.
LEMMA RemoveFacts ==
  ASSUME TimerIInv, NEW t \in Timers, tstate[t] = "QUEUED", RemoveTimer(t)
  PROVE  /\ cpu[t] \in Cpus /\ first' \in [Cpus -> Timers \cup {None}]
         /\ \A c \in Cpus :
              IF Queued(c) \ {t} = {} THEN first'[c] = None
              ELSE first'[c] \in Queued(c) \ {t} /\
                   \A u \in Queued(c) \ {t, first'[c]} : Before(first'[c], u)
<1> DEFINE q == cpu[t]
           later == {u \in Queued(q) : Before(t, u)}
<1>1. q \in Cpus /\ t \in Queued(q)
  BY DEF TimerIInv, OwnerInv, Queued
<1>2. \A c \in Cpus : EarliestOf(c, first[c]) BY DEF TimerIInv
<1>3. \A c \in Cpus : Queued(c) \subseteq Timers /\ (c # q => t \notin Queued(c)) BY DEF Queued
<1>4. CASE first[q] # t
  <2>1. first' = first BY <1>4 DEF RemoveTimer
  <2>2. Queued(q) \ {t} # {} BY <1>1, <1>2, <1>4 DEF EarliestOf
  <2>3. first' \in [Cpus -> Timers \cup {None}] BY <2>1 DEF TimerIInv, TypeOK
  <2>4. ASSUME NEW c \in Cpus
        PROVE  IF Queued(c) \ {t} = {} THEN first'[c] = None
               ELSE first'[c] \in Queued(c) \ {t} /\
                    \A u \in Queued(c) \ {t, first'[c]} : Before(first'[c], u)
    <3>1. CASE c = q BY <1>2, <1>4, <2>1, <2>2, <3>1 DEF EarliestOf
    <3>2. CASE c # q
      <4>1. Queued(c) \ {t} = Queued(c) /\ first'[c] = first[c] BY <1>3, <2>1, <3>2
      <4> QED BY <1>2, <4>1 DEF EarliestOf
    <3> QED BY <3>1, <3>2
  <2> QED BY <1>1, <2>3, <2>4, Zenon
<1>5. CASE first[q] = t
  <2>1. later = Queued(q) \ {t}
    BY <1>1, <1>2, <1>3, <1>5, BeforeFacts DEF EarliestOf, TimerIInv
  <2> DEFINE s == CHOOSE u \in later : \A v \in later \ {u} : Before(u, v)
  <2>2. first' = [first EXCEPT ![q] = IF later = {} THEN None ELSE s]
    BY <1>5 DEF RemoveTimer, Successor
  <2>3. later # {} => s \in later /\ \A v \in later \ {s} : Before(s, v)
    <3>1. later \subseteq Queued(q) OBVIOUS
    <3> HIDE DEF later
    <3> QED BY <1>1, <3>1, EarliestExists DEF TimerIInv
  <2> HIDE DEF s, later
  <2>4. first' \in [Cpus -> Timers \cup {None}] /\ \A c \in Cpus \ {q} : first'[c] = first[c]
    BY <1>1, <1>3, <2>1, <2>2, <2>3 DEF TimerIInv, TypeOK
  <2>5. first'[q] = IF later = {} THEN None ELSE s
    BY <1>1, <2>2 DEF TimerIInv, TypeOK
  <2>6. ASSUME NEW c \in Cpus \ {q}
        PROVE  IF Queued(c) \ {t} = {} THEN first'[c] = None
               ELSE first'[c] \in Queued(c) \ {t} /\
                    \A u \in Queued(c) \ {t, first'[c]} : Before(first'[c], u)
    BY <1>2, <1>3, <2>4 DEF EarliestOf
  <2> QED BY <1>1, <2>1, <2>3, <2>4, <2>5, <2>6
<1> QED BY <1>4, <1>5

EveryEarliest == \A c \in Cpus : EarliestOf(c, first[c])

\* What leaves the tree takes nothing of the order with it.
LEMMA DequeueKeeps ==
  ASSUME TimerIInv, NEW t \in Timers, NEW x \in {"IDLE", "RUNNING"},
         tstate[t] = "QUEUED", RemoveTimer(t), tstate' = [tstate EXCEPT ![t] = x],
         UNCHANGED <<cpu, deadline, seq, nextSeq>>
  PROVE  /\ first' \in [Cpus -> Timers \cup {None}]
         /\ EveryEarliest' /\ SequenceInv'
<1>1. \A c : Queued(c)' = Queued(c) \ {t}
  BY DEF TimerIInv, TypeOK, Queued
<1>2. \A u, v : Before(u, v)' = Before(u, v) BY DEF Before
<1>3. EveryEarliest'
  BY <1>1, <1>2, RemoveFacts DEF EveryEarliest, EarliestOf
<1>4. SequenceInv' BY <1>1 DEF TimerIInv, SequenceInv
<1> QED BY <1>3, <1>4, RemoveFacts

\* No base, owner or tick that changes leaves the order alone.
LEMMA OrderKeeps ==
  ASSUME TimerIInv, \A c \in Cpus : Queued(c)' = Queued(c),
         UNCHANGED <<deadline, seq, nextSeq, first>>
  PROVE  EveryEarliest' /\ SequenceInv'
<1>1. \A u, v : Before(u, v)' = Before(u, v) BY DEF Before
<1> QED BY <1>1 DEF TimerIInv, EveryEarliest, EarliestOf, SequenceInv

\* timer_cancel_locked keeps the bases, and leaves the timer IDLE or DRAINING.
LEMMA CancelLockedFacts ==
  ASSUME TimerIInv, NEW t \in Timers, pc[t] # "idle", TimerCancelLocked(t),
         UNCHANGED <<cpu, deadline, seq, nextSeq>>
  PROVE  /\ first' \in [Cpus -> Timers \cup {None}]
         /\ EveryEarliest' /\ SequenceInv'
         /\ tstate' = [tstate EXCEPT ![t] = IF MustDrain(t) THEN "DRAINING" ELSE "IDLE"]
<1>1. CASE tstate[t] = "QUEUED"
  BY <1>1, DequeueKeeps DEF TimerCancelLocked, MustDrain
<1>2. CASE tstate[t] # "QUEUED"
  <2>1. /\ tstate' = [tstate EXCEPT ![t] = IF MustDrain(t) THEN "DRAINING" ELSE "IDLE"]
        /\ UNCHANGED first
    BY <1>2 DEF TimerIInv, TypeOK, TimerCancelLocked, MustDrain
  <2>2. \A c : Queued(c)' = Queued(c)
    BY <1>2, <2>1 DEF TimerIInv, TypeOK, Queued
  <2> QED BY <2>1, <2>2, OrderKeeps DEF TimerIInv, TypeOK
<1> QED BY <1>1, <1>2

\* timers_init.
LEMMA TimerInit == Init => TimerIInv
<1> SUFFICES ASSUME Init PROVE TimerIInv
  OBVIOUS
<1>1. TypeOK BY TimerAssumption DEF Init, TypeOK
<1>2. \A c : Queued(c) = {} BY DEF Init, Queued
<1>3. \A c \in Cpus : Distinct(drain[c]) BY DEF Init, Distinct
<1> QED BY <1>1, <1>2, <1>3 DEF Init, TimerIInv, SequenceInv, OwnerInv, EarliestOf

\* timer_start: the new timer is the first one only if it is earlier than all.
LEMMA StartKeeps ==
  ASSUME TimerIInv, NEW t \in Timers, NEW c \in Cpus, NEW d \in 1 .. MaxTime,
         TimerStart(t, c, d), cpu' = [cpu EXCEPT ![t] = c], pc' = [pc EXCEPT ![t] = "live"]
  PROVE  TimerIInv'
<1>1. /\ tstate[t] = "IDLE" /\ nextSeq[c] < MaxStarts /\ nextSeq[c] \in Nat
      /\ deadline' = [deadline EXCEPT ![t] = d] /\ seq' = [seq EXCEPT ![t] = nextSeq[c]]
      /\ nextSeq' = [nextSeq EXCEPT ![c] = @ + 1]
      /\ tstate' = [tstate EXCEPT ![t] = "QUEUED"]
      /\ UNCHANGED <<now, tick, firing, drain, state>>
  BY TimerAssumption DEF TimerIInv, TypeOK, TimerStart, tickVars
<1>2. first' = IF GoesFirst(c, d) THEN [first EXCEPT ![c] = t] ELSE first
  BY DEF TimerStart
<1>3. TypeOK'
  <2>1. d \in 0 .. MaxTime /\ nextSeq[c] \in 0 .. MaxStarts /\ nextSeq[c] + 1 \in 0 .. MaxStarts
    BY <1>1, TimerAssumption
  <2> QED BY <1>1, <1>2, <2>1 DEF TimerIInv, TypeOK
<1>4. /\ Queued(c)' = Queued(c) \cup {t} /\ \A e \in Cpus \ {c} : Queued(e)' = Queued(e)
      /\ \A e \in Cpus : t \notin Queued(e) /\ Queued(e) \subseteq Timers
  BY <1>1 DEF TimerIInv, TypeOK, Queued
<1>5. /\ \A u \in Timers \ {t} : deadline'[u] = deadline[u] /\ seq'[u] = seq[u]
      /\ deadline'[t] = d /\ seq'[t] = nextSeq[c] /\ nextSeq'[c] = nextSeq[c] + 1
      /\ \A e \in Cpus \ {c} : nextSeq'[e] = nextSeq[e]
      /\ \A u \in Timers : deadline[u] \in Nat /\ seq[u] \in Nat
  BY <1>1, TimerAssumption DEF TimerIInv, TypeOK
<1>6. SequenceInv'
  <2>1. ASSUME NEW u \in Queued(c) PROVE seq[u] < nextSeq[c] /\ u \in Timers \ {t}
    BY <1>4 DEF TimerIInv, SequenceInv
  <2>2. ASSUME NEW e \in Cpus, NEW u \in Queued(e)'
        PROVE  seq'[u] < nextSeq'[e] /\ \A v \in Queued(e)' : seq'[u] = seq'[v] => u = v
    <3>1. CASE e # c BY <1>4, <1>5, <2>2, <3>1 DEF TimerIInv, SequenceInv
    <3>2. CASE e = c BY <1>1, <1>4, <1>5, <2>1, <2>2, <3>2 DEF TimerIInv, SequenceInv
    <3> QED BY <3>1, <3>2
  <2> QED BY <2>2 DEF SequenceInv
<1>7. EveryEarliest'
  <2>1. \A u, v \in Timers \ {t} : Before(u, v)' = Before(u, v) BY <1>5 DEF Before
  <2>2. ASSUME NEW e \in Cpus, e # c PROVE EarliestOf(e, first[e])'
    <3>1. first'[e] = first[e] BY <1>2, <2>2 DEF TimerIInv, TypeOK
    <3> QED BY <1>4, <2>1, <2>2, <3>1 DEF TimerIInv, EarliestOf
  <2>3. EarliestOf(c, first[c])'
    <3>1. CASE GoesFirst(c, d)
      <4>1. first'[c] = t BY <1>2, <3>1 DEF TimerIInv, TypeOK
      <4>2. \A u \in Queued(c) : Before(t, u)' BY <1>4, <1>5, <3>1 DEF GoesFirst, Before
      <4> QED BY <1>4, <4>1, <4>2 DEF EarliestOf
    <3>2. CASE ~GoesFirst(c, d)
      <4>1. first'[c] = first[c] BY <1>2, <3>2
      <4>2. PICK w \in Queued(c) : deadline[w] <= d
        BY <1>4, <1>5, <3>2 DEF GoesFirst
      <4>3. first[c] \in Queued(c) /\ \A u \in Queued(c) \ {first[c]} : Before(first[c], u)
        BY <4>2 DEF TimerIInv, EarliestOf
      <4>4. deadline[first[c]] <= d
        BY <1>4, <1>5, <4>2, <4>3 DEF Before
      <4>5. Before(first[c], t)'
        BY <1>4, <1>5, <4>1, <4>3, <4>4 DEF Before, TimerIInv, SequenceInv
      <4> QED BY <1>4, <2>1, <4>1, <4>3, <4>5 DEF EarliestOf
    <3> QED BY <3>1, <3>2
  <2> QED BY <2>2, <2>3 DEF EveryEarliest
<1>8. OwnerInv'
  <2>1. ASSUME NEW e \in Cpus, firing[e] # None
        PROVE  firing[e] \in Timers \ {t} /\ firing'[e] = firing[e]
    <3>1. firing[e] \in Timers BY <2>1 DEF TimerIInv, TypeOK
    <3>2. tstate[firing[e]] \in {"RUNNING", "DRAINING"} BY <2>1 DEF TimerIInv, OwnerInv
    <3> QED BY <1>1, <3>1, <3>2
  <2>2. ASSUME NEW e \in Cpus, firing[e] # None
        PROVE  tstate'[firing[e]] = tstate[firing[e]] /\ cpu'[firing[e]] = cpu[firing[e]]
    BY <1>1, <2>1, <2>2 DEF TimerIInv, TypeOK
  <2> QED BY <1>1, <2>1, <2>2 DEF TimerIInv, TypeOK, OwnerInv
<1> QED BY <1>3, <1>6, <1>7, <1>8 DEF TimerIInv, EveryEarliest

\* timer_cancel.
LEMMA CancelKeeps ==
  ASSUME TimerIInv, NEW t \in Timers, TimerCancel(t)
  PROVE  TimerIInv'
<1>1. /\ pc[t] = "live" /\ TimerCancelLocked(t)
      /\ UNCHANGED <<now, cpu, deadline, seq, nextSeq, tick, firing, drain, state, pc>>
  BY DEF TimerCancel, tickVars, ownerVars
<1>2. /\ first' \in [Cpus -> Timers \cup {None}] /\ EveryEarliest' /\ SequenceInv'
      /\ tstate' = [tstate EXCEPT ![t] = IF MustDrain(t) THEN "DRAINING" ELSE "IDLE"]
  BY <1>1, CancelLockedFacts
<1>3. TypeOK' BY <1>1, <1>2 DEF TimerIInv, TypeOK
<1>4. OwnerInv'
  <2>1. ASSUME NEW e \in Cpus, firing[e] # None
        PROVE  tstate'[firing[e]] \in {"RUNNING", "DRAINING"}
    <3>1. firing[e] \in Timers BY <2>1 DEF TimerIInv, TypeOK
    <3>2. tstate[firing[e]] \in {"RUNNING", "DRAINING"} BY <2>1 DEF TimerIInv, OwnerInv
    <3> QED BY <1>2, <3>1, <3>2 DEF TimerIInv, TypeOK, MustDrain
  <2>2. \A u \in Timers : tstate'[u] # "IDLE" => pc'[u] # "idle"
    BY <1>1, <1>2 DEF TimerIInv, TypeOK, OwnerInv
  <2> QED BY <1>1, <2>1, <2>2 DEF TimerIInv, OwnerInv
<1> QED BY <1>2, <1>3, <1>4 DEF TimerIInv, EveryEarliest

\* timer_cancel_sync: the memory is the owner's only when the timer is IDLE.
LEMMA CancelSyncKeeps ==
  ASSUME TimerIInv, NEW t \in Timers, TimerCancelSync(t)
  PROVE  TimerIInv'
<1> DEFINE c == cpu[t]
           l == pc'[t]
<1>1. /\ pc[t] # "idle" /\ c \in Cpus /\ TimerCancelLocked(t)
      /\ UNCHANGED <<now, cpu, deadline, seq, nextSeq, tick, firing>>
  BY DEF TimerIInv, OwnerInv, TimerCancelSync, AtTop, tickVars
<1>2. /\ first' \in [Cpus -> Timers \cup {None}] /\ EveryEarliest' /\ SequenceInv'
      /\ tstate' = [tstate EXCEPT ![t] = IF MustDrain(t) THEN "DRAINING" ELSE "IDLE"]
  BY <1>1, CancelLockedFacts
<1>3. /\ state' \in [Timers -> {"RUNNABLE", "UNINTERRUPTIBLE"}]
      /\ pc' = [pc EXCEPT ![t] = l] /\ l \in {"park", "idle"}
      /\ l = "idle" => ~MustDrain(t)
  BY ZenonT(40) DEF TimerIInv, TypeOK, TimerCancelSync
<1> HIDE DEF l
<1>4. /\ drain' \in [Cpus -> Seq(Timers)]
      /\ \A e \in Cpus : Distinct(drain'[e])
  <2>1. drain[c] \in Seq(Timers) /\ Distinct(drain[c])
    BY <1>1 DEF TimerIInv, TypeOK, OwnerInv
  <2> DEFINE w == FinishWait(drain[c], t)
  <2>2. w \in Seq(Timers) /\ Distinct(w) BY <2>1, FinishFacts
  <2> HIDE DEF w
  <2>3. PrepareToWait(w, t) \in Seq(Timers) /\ Distinct(PrepareToWait(w, t))
    BY <2>2, PrepareFacts
  <2>4. drain' = [drain EXCEPT ![c] = PrepareToWait(w, t)] \/ drain' = [drain EXCEPT ![c] = w]
    BY DEF TimerCancelSync, w
  <2>5. drain \in [Cpus -> Seq(Timers)] /\ \A e \in Cpus : Distinct(drain[e])
    BY DEF TimerIInv, TypeOK, OwnerInv
  <2> HIDE DEF c
  <2>6. CASE drain' = [drain EXCEPT ![c] = w] BY <1>1, <2>2, <2>5, <2>6
  <2>7. CASE drain' = [drain EXCEPT ![c] = PrepareToWait(w, t)] BY <1>1, <2>3, <2>5, <2>7
  <2> QED BY <2>4, <2>6, <2>7
<1>5. TypeOK' BY <1>1, <1>2, <1>3, <1>4 DEF TimerIInv, TypeOK
<1>6. OwnerInv'
  <2>1. ASSUME NEW e \in Cpus, firing[e] # None
        PROVE  tstate'[firing[e]] \in {"RUNNING", "DRAINING"}
    <3>1. firing[e] \in Timers BY <2>1 DEF TimerIInv, TypeOK
    <3>2. tstate[firing[e]] \in {"RUNNING", "DRAINING"} BY <2>1 DEF TimerIInv, OwnerInv
    <3> QED BY <1>2, <3>1, <3>2 DEF TimerIInv, TypeOK, MustDrain
  <2>2. \A u \in Timers : tstate'[u] # "IDLE" => pc'[u] # "idle"
    BY <1>2, <1>3 DEF TimerIInv, TypeOK, OwnerInv
  <2>3. \A u \in Timers : pc'[u] # "idle" => cpu[u] \in Cpus
    BY <1>1, <1>3 DEF TimerIInv, TypeOK, OwnerInv
  <2> QED BY <1>1, <1>4, <2>1, <2>2, <2>3 DEF TimerIInv, OwnerInv
<1> QED BY <1>2, <1>5, <1>6 DEF TimerIInv, EveryEarliest

\* The first critical section of timer_tick: the timer that is taken is due.
LEMMA TimerTickKeeps ==
  ASSUME TimerIInv, NEW c \in Cpus, TimerTick(c)
  PROVE  /\ TimerIInv'
         /\ Due(c) => first[c] \in Timers /\ tstate[first[c]] = "QUEUED"
<1>1. /\ tick[c] # None /\ firing[c] = None
      /\ UNCHANGED <<now, cpu, deadline, seq, nextSeq, drain, state, pc>>
  BY DEF TimerTick, ownerVars
<1>2. CASE Due(c)
  <2> DEFINE t == first[c]
  <2>1. /\ t \in Timers /\ tstate[t] = "QUEUED" /\ cpu[t] = c
    BY <1>2 DEF Due, TimerIInv, TypeOK, EarliestOf, Queued
  <2>2. /\ RemoveTimer(t) /\ tstate' = [tstate EXCEPT ![t] = "RUNNING"]
        /\ firing' = [firing EXCEPT ![c] = t] /\ UNCHANGED tick
    BY <1>2 DEF TimerTick
  <2> HIDE DEF t
  <2>3. /\ first' \in [Cpus -> Timers \cup {None}] /\ EveryEarliest' /\ SequenceInv'
    BY <1>1, <2>1, <2>2, DequeueKeeps, Zenon
  <2>4. TypeOK' BY <1>1, <2>1, <2>2, <2>3, Zenon DEF TimerIInv, TypeOK
  <2>5. OwnerInv'
    <3>1. ASSUME NEW e \in Cpus, firing'[e] # None
          PROVE  tstate'[firing'[e]] \in {"RUNNING", "DRAINING"} /\ cpu[firing'[e]] = e
      <4>1. CASE e = c BY <2>1, <2>2, <4>1 DEF TimerIInv, TypeOK
      <4>2. CASE e # c
        <5>1. firing'[e] = firing[e] /\ firing[e] \in Timers
          BY <2>2, <3>1, <4>2 DEF TimerIInv, TypeOK
        <5>2. tstate[firing[e]] \in {"RUNNING", "DRAINING"} /\ cpu[firing[e]] = e
          BY <3>1, <5>1 DEF TimerIInv, OwnerInv
        <5> QED BY <2>1, <2>2, <5>1, <5>2 DEF TimerIInv, TypeOK
      <4> QED BY <4>1, <4>2
    <3>2. \A u \in Timers : tstate'[u] # "IDLE" => pc'[u] # "idle"
      BY <1>1, <2>1, <2>2 DEF TimerIInv, TypeOK, OwnerInv
    <3> QED BY <1>1, <2>2, <3>1, <3>2 DEF TimerIInv, OwnerInv
  <2> QED BY <2>1, <2>3, <2>4, <2>5 DEF TimerIInv, EveryEarliest, t
<1>3. CASE ~Due(c)
  <2>1. tick' = [tick EXCEPT ![c] = None] /\ UNCHANGED <<tstate, first, firing>>
    BY <1>3 DEF TimerTick
  <2>2. TypeOK' /\ OwnerInv' BY <1>1, <2>1 DEF TimerIInv, TypeOK, OwnerInv
  <2>3. \A e \in Cpus : Queued(e)' = Queued(e) BY <1>1, <2>1 DEF Queued
  <2> QED BY <1>1, <1>3, <2>1, <2>2, <2>3, OrderKeeps DEF TimerIInv, EveryEarliest
<1> QED BY <1>2, <1>3

\* The second one, after the callback.
LEMMA CallbackDoneKeeps ==
  ASSUME TimerIInv, NEW c \in Cpus, CallbackDone(c)
  PROVE  TimerIInv'
<1> DEFINE t == firing[c]
<1>1. /\ t # None /\ tstate' = [tstate EXCEPT ![t] = "IDLE"]
      /\ firing' = [firing EXCEPT ![c] = None]
      /\ UNCHANGED <<now, cpu, deadline, seq, first, nextSeq, tick, drain, pc>>
  BY DEF CallbackDone, baseVars
<1>2. t \in Timers /\ tstate[t] \in {"RUNNING", "DRAINING"} /\ cpu[t] = c
  <2>1. t \in Timers BY <1>1 DEF TimerIInv, TypeOK
  <2> QED BY <1>1, <2>1 DEF TimerIInv, OwnerInv
<1>3. state' \in [Timers -> {"RUNNABLE", "UNINTERRUPTIBLE"}]
  <2>1. state \in [Timers -> {"RUNNABLE", "UNINTERRUPTIBLE"}] /\ drain[c] \in Seq(Timers)
    BY DEF TimerIInv, TypeOK
  <2>2. WakeUpAll(state, drain[c]) \in [Timers -> {"RUNNABLE", "UNINTERRUPTIBLE"}]
    BY <2>1, WakeAllFacts, Zenon
  <2> QED BY <2>1, <2>2 DEF CallbackDone
<1> HIDE DEF t
<1>4. TypeOK' BY <1>1, <1>2, <1>3, Zenon DEF TimerIInv, TypeOK
<1>5. OwnerInv'
  <2>1. ASSUME NEW e \in Cpus, firing'[e] # None
        PROVE  tstate'[firing'[e]] \in {"RUNNING", "DRAINING"} /\ cpu[firing'[e]] = e
    <3>1. e # c /\ firing'[e] = firing[e] /\ firing[e] \in Timers
      BY <1>1, <2>1 DEF TimerIInv, TypeOK
    <3>2. tstate[firing[e]] \in {"RUNNING", "DRAINING"} /\ cpu[firing[e]] = e
      BY <2>1, <3>1 DEF TimerIInv, OwnerInv
    <3> QED BY <1>1, <1>2, <3>1, <3>2 DEF TimerIInv, TypeOK
  <2>2. \A u \in Timers : tstate'[u] # "IDLE" => pc'[u] # "idle"
    BY <1>1, <1>2 DEF TimerIInv, TypeOK, OwnerInv
  <2> QED BY <1>1, <2>1, <2>2 DEF TimerIInv, OwnerInv
<1>6. \A e \in Cpus : Queued(e)' = Queued(e)
  BY <1>1, <1>2 DEF TimerIInv, TypeOK, Queued
<1> QED BY <1>1, <1>4, <1>5, <1>6, OrderKeeps DEF TimerIInv, EveryEarliest

\* The clock, the start of a tick and sched_park.
LEMMA OtherKeeps ==
  ASSUME TimerIInv,
         \/ Advance \/ (\E t \in Timers : SchedPark(t)) \/ (\E c \in Cpus : TickHandle(c))
         \/ UNCHANGED vars
  PROVE  TimerIInv'
<1>1. UNCHANGED <<cpu, tstate, deadline, seq, first, nextSeq, firing, drain>>
  BY DEF Advance, SchedPark, TickHandle, vars, timerVars, baseVars, tickVars, ownerVars
<1>2. \A e \in Cpus : Queued(e)' = Queued(e) BY <1>1 DEF Queued
<1>3. TypeOK' /\ OwnerInv'
  <2>1. CASE Advance
    <3>1. now \in Nat /\ now' = now + 1 /\ now' \in 0 .. MaxTime /\ UNCHANGED <<tick, state, pc>>
      BY <2>1, TimerAssumption DEF Advance, TimerIInv, TypeOK, tickVars, ownerVars
    <3>2. \A c \in Cpus : tick'[c] # None => tick'[c] <= now'
      BY <3>1, TimerAssumption DEF TimerIInv, TypeOK, OwnerInv
    <3> QED BY <1>1, <3>1, <3>2 DEF TimerIInv, TypeOK, OwnerInv
  <2>2. CASE \E t \in Timers : SchedPark(t)
    BY <1>1, <2>2 DEF SchedPark, TimerIInv, TypeOK, OwnerInv, tickVars
  <2>3. CASE \E c \in Cpus : TickHandle(c)
    BY <1>1, <2>3, TimerAssumption DEF TickHandle, TimerIInv, TypeOK, OwnerInv, ownerVars
  <2>4. CASE UNCHANGED vars
    BY <1>1, <2>4 DEF vars, TimerIInv, TypeOK, OwnerInv, tickVars, ownerVars
  <2> QED BY <2>1, <2>2, <2>3, <2>4
<1> QED BY <1>1, <1>2, <1>3, OrderKeeps DEF TimerIInv, EveryEarliest

\* timer_init with the first timer_start, and a later one.
LEMMA OwnerStartKeeps ==
  ASSUME TimerIInv, NEW t \in Timers, NEW d \in 1 .. MaxTime,
         (\E c \in Cpus : OwnerInit(t, c, d)) \/ OwnerRestart(t, d)
  PROVE  TimerIInv'
<1>1. ASSUME NEW c \in Cpus, OwnerInit(t, c, d) PROVE TimerIInv'
  BY <1>1, StartKeeps, Zenon DEF OwnerInit
<1>2. CASE OwnerRestart(t, d)
  <2>1. /\ cpu[t] \in Cpus /\ cpu' = [cpu EXCEPT ![t] = cpu[t]] /\ pc' = [pc EXCEPT ![t] = "live"]
    BY <1>2 DEF OwnerRestart, TimerIInv, TypeOK, OwnerInv
  <2> QED BY <1>2, <2>1, StartKeeps, Zenon DEF OwnerRestart
<1> QED BY <1>1, <1>2

\* The invariant is inductive.
THEOREM TimerInvariant == Spec => []TimerIInv
<1>1. TimerIInv /\ [Next]_vars => TimerIInv'
  BY OwnerStartKeeps, CancelKeeps, CancelSyncKeeps, TimerTickKeeps, CallbackDoneKeeps, OtherKeeps
  DEF Next, OwnerStep, TickStep
<1> QED BY <1>1, TimerInit, PTL DEF Spec

\* For any CPUs, timers, deadlines and orders of starts, cancels and ticks:
\* base->first is the queued timer that expires first, and a timer whose owner
\* returned from timer_cancel_sync is neither queued nor executing on any CPU.
THEOREM BasesCorrect == Spec => []BasesInv
  BY TimerInvariant, TimerIInvImplies, PTL

-----------------------------------------------------------------------------
\* The abstract states of the four concrete ones.
LEMMA StatusFacts ==
  /\ Status("IDLE") = "idle" /\ Status("QUEUED") = "armed"
  /\ Status("RUNNING") = "firing" /\ Status("DRAINING") = "firing"
  BY DEF Status

\* A change of one timer's state is a change of its abstract state alone.
LEMMA StatusStep ==
  ASSUME TypeOK, NEW t \in Timers, NEW x, tstate' = [tstate EXCEPT ![t] = x]
  PROVE  StatusOf' = [StatusOf EXCEPT ![t] = Status(x)]
  BY Zenon DEF TypeOK, StatusOf

\* A timer_start is a Start.
LEMMA StartRefines ==
  ASSUME TimerIInv, NEW t \in Timers, NEW c, NEW d \in 1 .. MaxTime,
         TimerStart(t, c, d), pc' = [pc EXCEPT ![t] = "live"]
  PROVE  Promise!Next
<1>1. StatusOf' = [StatusOf EXCEPT ![t] = "armed"] /\ StatusOf[t] = "idle"
  <2>1. tstate[t] = "IDLE" /\ tstate' = [tstate EXCEPT ![t] = "QUEUED"] BY DEF TimerStart
  <2>2. StatusOf[t] = "idle" BY <2>1, StatusFacts, Zenon DEF StatusOf
  <2>3. StatusOf' = [StatusOf EXCEPT ![t] = Status("QUEUED")] BY <2>1, StatusStep, Zenon DEF TimerIInv
  <2> QED BY <2>2, <2>3, StatusFacts, Zenon
<1>2. Live' = Live \cup {t} BY DEF TimerIInv, TypeOK, Live
<1>3. /\ deadline' \in [Timers -> Nat] /\ UNCHANGED now
      /\ \A u \in Timers \ {t} : deadline'[u] = deadline[u]
  BY TimerAssumption DEF TimerIInv, TypeOK, TimerStart
<1>4. Promise!Start(t) BY <1>1, <1>2, <1>3 DEF Promise!Start
<1> QED BY <1>4 DEF Promise!Next

\* timer_cancel and timer_cancel_sync are a Cancel, or nothing while a callback runs.
LEMMA CancelRefines ==
  ASSUME TimerIInv, NEW t \in Timers, TimerCancel(t) \/ TimerCancelSync(t)
  PROVE  [Promise!Next]_(Promise!vars)
<1>1. /\ pc[t] # "idle" /\ TimerCancelLocked(t)
      /\ UNCHANGED <<now, cpu, deadline, seq, nextSeq>>
  BY DEF TimerCancel, TimerCancelSync, AtTop
<1>2. tstate' = [tstate EXCEPT ![t] = IF MustDrain(t) THEN "DRAINING" ELSE "IDLE"]
  BY <1>1, CancelLockedFacts
<1>3. Live' \in {Live, Live \ {t}} /\ (MustDrain(t) => Live' = Live)
  BY <1>1 DEF TimerCancel, TimerCancelSync, TimerIInv, TypeOK, Live, ownerVars
<1>4. CASE MustDrain(t)
  <2>1. StatusOf' = StatusOf
    BY <1>2, <1>4, StatusFacts DEF MustDrain, TimerIInv, TypeOK, StatusOf
  <2> QED BY <1>1, <1>3, <1>4, <2>1 DEF Promise!vars
<1>5. CASE ~MustDrain(t)
  <2>1. StatusOf' = [StatusOf EXCEPT ![t] = "idle"] /\ StatusOf[t] # "firing"
    <3>1. tstate' = [tstate EXCEPT ![t] = "IDLE"] BY <1>2, <1>5
    <3>2. tstate[t] \in {"IDLE", "QUEUED"} BY <1>5 DEF MustDrain, TimerIInv, TypeOK
    <3>3. StatusOf[t] # "firing" BY <3>2, StatusFacts DEF StatusOf
    <3>4. StatusOf' = [StatusOf EXCEPT ![t] = Status("IDLE")] BY <3>1, StatusStep, Zenon DEF TimerIInv
    <3> QED BY <3>3, <3>4, StatusFacts, Zenon
  <2>2. Promise!Cancel(t) BY <1>1, <1>3, <2>1 DEF Promise!Cancel
  <2> QED BY <2>2 DEF Promise!Next
<1> QED BY <1>4, <1>5

\* A tick that takes a timer is a Fire, not before the deadline; the end of the
\* callback is a Done.
LEMMA TickRefines ==
  ASSUME TimerIInv, NEW c \in Cpus, TimerTick(c) \/ CallbackDone(c)
  PROVE  [Promise!Next]_(Promise!vars)
<1>1. UNCHANGED <<now, deadline, pc>> /\ Live' = Live
  BY DEF TimerTick, CallbackDone, ownerVars, Live
<1>2. CASE TimerTick(c) /\ Due(c)
  <2>1. PICK t \in Timers : /\ t = first[c] /\ tstate[t] = "QUEUED"
                           /\ tstate' = [tstate EXCEPT ![t] = "RUNNING"]
    BY <1>2, TimerTickKeeps DEF TimerTick
  <2>2. deadline[t] <= now
    <3>1. tick[c] # None /\ deadline[t] <= tick[c] BY <1>2, <2>1 DEF TimerTick, Due
    <3>2. tick[c] \in Nat /\ now \in Nat /\ tick[c] <= now
      BY <3>1, TimerAssumption DEF TimerIInv, TypeOK, OwnerInv
    <3>3. deadline[t] \in Nat BY <2>1, TimerAssumption DEF TimerIInv, TypeOK
    <3> QED BY <3>1, <3>2, <3>3
  <2>3. StatusOf' = [StatusOf EXCEPT ![t] = "firing"] /\ StatusOf[t] = "armed"
    <3>1. StatusOf' = [StatusOf EXCEPT ![t] = Status("RUNNING")]
      BY <2>1, StatusStep, Zenon DEF TimerIInv
    <3>2. StatusOf[t] = Status("QUEUED") BY <2>1 DEF StatusOf
    <3> QED BY <3>1, <3>2, StatusFacts, Zenon
  <2>4. Promise!Fire(t) BY <1>1, <2>2, <2>3 DEF Promise!Fire
  <2> QED BY <2>1, <2>4 DEF Promise!Next
<1>3. CASE TimerTick(c) /\ ~Due(c)
  <2>1. StatusOf' = StatusOf BY <1>3 DEF TimerTick, StatusOf
  <2> QED BY <1>1, <2>1 DEF Promise!vars
<1>4. CASE CallbackDone(c)
  <2>1. PICK t \in Timers : t = firing[c] /\ tstate[t] \in {"RUNNING", "DRAINING"}
    <3>1. firing[c] # None /\ firing[c] \in Timers BY <1>4 DEF CallbackDone, TimerIInv, TypeOK
    <3> QED BY <3>1 DEF TimerIInv, OwnerInv
  <2>2. tstate' = [tstate EXCEPT ![t] = "IDLE"] BY <1>4, <2>1 DEF CallbackDone
  <2>3. StatusOf' = [StatusOf EXCEPT ![t] = "idle"] /\ StatusOf[t] = "firing"
    <3>1. StatusOf' = [StatusOf EXCEPT ![t] = Status("IDLE")]
      BY <2>2, StatusStep, Zenon DEF TimerIInv
    <3>2. StatusOf[t] = "firing" BY <2>1, StatusFacts DEF StatusOf
    <3> QED BY <3>1, <3>2, StatusFacts, Zenon
  <2>4. Promise!Done(t) BY <1>1, <2>3 DEF Promise!Done
  <2> QED BY <2>1, <2>4 DEF Promise!Next
<1> QED BY <1>2, <1>3, <1>4

\* The clock moves as in TimerSpec; what is left changes nothing abstract.
LEMMA OtherRefines ==
  ASSUME TimerIInv,
         \/ Advance \/ (\E t \in Timers : SchedPark(t)) \/ (\E c \in Cpus : TickHandle(c))
         \/ UNCHANGED vars
  PROVE  [Promise!Next]_(Promise!vars)
<1>1. UNCHANGED <<tstate, deadline>> /\ StatusOf' = StatusOf
  BY DEF Advance, SchedPark, TickHandle, vars, timerVars, StatusOf
<1>2. Live' = Live
  BY DEF Advance, SchedPark, TickHandle, vars, ownerVars, Live, TimerIInv, TypeOK
<1>3. CASE Advance
  <2>1. Promise!Advance BY <1>1, <1>2, <1>3 DEF Advance, Promise!Advance
  <2> QED BY <2>1 DEF Promise!Next
<1>4. CASE ~Advance
  <2>1. UNCHANGED now BY <1>4 DEF SchedPark, TickHandle, vars
  <2> QED BY <1>1, <1>2, <2>1 DEF Promise!vars
<1> QED BY <1>3, <1>4

\* For any number of CPUs kernel/timer.c implements the timers of
\* include/nuvix/timer.h, but for their liveness: a callback runs at most once
\* for each start, not before the deadline, and not after the release.
THEOREM TimerRefines == Spec => Promise!Safety
<1>1. Init => Promise!Init
  <2> SUFFICES ASSUME Init PROVE Promise!Init
    OBVIOUS
  <2>1. StatusOf = [t \in Timers |-> "idle"] /\ Live = {}
    BY StatusFacts DEF Init, StatusOf, Live
  <2> QED BY <2>1 DEF Init, Promise!Init
<1>2. TimerIInv /\ [Next]_vars => [Promise!Next]_(Promise!vars)
  <2> SUFFICES ASSUME TimerIInv, [Next]_vars PROVE [Promise!Next]_(Promise!vars)
    OBVIOUS
  <2>1. ASSUME NEW t \in Timers, NEW d \in 1 .. MaxTime,
               (\E c \in Cpus : OwnerInit(t, c, d)) \/ OwnerRestart(t, d)
        PROVE  Promise!Next
    <3>1. ASSUME NEW c \in Cpus, OwnerInit(t, c, d) PROVE Promise!Next
      BY <3>1, StartRefines, Zenon DEF OwnerInit
    <3>2. CASE OwnerRestart(t, d)
      <4>1. pc' = [pc EXCEPT ![t] = "live"] BY <3>2 DEF OwnerRestart, TimerIInv, TypeOK
      <4> QED BY <3>2, <4>1, StartRefines, Zenon DEF OwnerRestart
    <3> QED BY <2>1, <3>1, <3>2
  <2> QED BY <2>1, CancelRefines, TickRefines, OtherRefines DEF Next, OwnerStep, TickStep
<1> QED BY <1>1, <1>2, TimerInvariant, PTL DEF Spec, Promise!Safety
=============================================================================
