----------------------------- MODULE WaitLemmas -----------------------------
(***************************************************************************)
(* What the operations of kernel/wait.c do to the list of waiters and to   *)
(* the task states, for every list and every set of tasks.  The proofs     *)
(* about the sleeping primitives rest on these lemmas.                     *)
(***************************************************************************)
EXTENDS WaitQueue, WellFoundedInduction, TLAPS

USE SMTT(30)

\* An entry is on a list once: list_add_tail is guarded by list_empty.
Distinct(s) == \A i, j \in 1 .. Len(s) : s[i] = s[j] => i = j

\* The elements of a list are what its positions hold.
LEMMA ElemsFacts ==
  ASSUME NEW S, NEW s \in Seq(S)
  PROVE  /\ Elems(s) \subseteq S /\ Len(s) \in Nat
         /\ \A t : t \in Elems(s) <=> \E i \in 1 .. Len(s) : s[i] = t
         /\ Elems(<<>>) = {} /\ Distinct(<<>>)
  BY DEF Elems, Distinct

\* prepare_to_wait_locked: the entry is on the list, once.
LEMMA PrepareFacts ==
  ASSUME NEW S, NEW s \in Seq(S), NEW t \in S, Distinct(s)
  PROVE  /\ PrepareToWait(s, t) \in Seq(S) /\ Distinct(PrepareToWait(s, t))
         /\ Elems(PrepareToWait(s, t)) = Elems(s) \cup {t}
<1>1. CASE \E i \in 1 .. Len(s) : s[i] = t
  BY <1>1, ElemsFacts DEF PrepareToWait
<1>2. CASE ~ \E i \in 1 .. Len(s) : s[i] = t
  <2>1. PrepareToWait(s, t) = Append(s, t) BY <1>2 DEF PrepareToWait
  <2>2. /\ Append(s, t) \in Seq(S) /\ Len(Append(s, t)) = Len(s) + 1
        /\ \A i \in 1 .. Len(s) : Append(s, t)[i] = s[i]
        /\ Append(s, t)[Len(s) + 1] = t
    OBVIOUS
  <2>3. 1 .. Len(s) + 1 = (1 .. Len(s)) \cup {Len(s) + 1} BY Len(s) \in Nat
  <2>4. Distinct(Append(s, t)) BY <1>2, <2>2, <2>3 DEF Distinct
  <2>5. Elems(Append(s, t)) = Elems(s) \cup {t} BY <2>2, <2>3 DEF Elems
  <2> QED BY <2>1, <2>2, <2>4, <2>5
<1> QED BY <1>1, <1>2

\* finish_wait_locked: the entry is off the list, the others stay.
LEMMA FinishFacts ==
  ASSUME NEW S, NEW s \in Seq(S), NEW t, Distinct(s)
  PROVE  /\ FinishWait(s, t) \in Seq(S) /\ Distinct(FinishWait(s, t))
         /\ Elems(FinishWait(s, t)) = Elems(s) \ {t}
<1> DEFINE entry == {i \in 1 .. Len(s) : s[i] = t}
           at == CHOOSE i \in entry : TRUE
           r == SubSeq(s, 1, at - 1) \o SubSeq(s, at + 1, Len(s))
<1>1. CASE entry = {}
  BY <1>1, ElemsFacts DEF FinishWait
<1>2. CASE entry # {}
  <2>1. FinishWait(s, t) = r BY <1>2, Zenon DEF FinishWait
  <2>2. at \in 1 .. Len(s) /\ s[at] = t BY <1>2
  <2> HIDE DEF at
  <2>3. /\ r \in Seq(S) /\ Len(r) = Len(s) - 1 /\ Len(s) \in Nat
        /\ \A i \in 1 .. at - 1 : r[i] = s[i]
        /\ \A i \in at .. Len(s) - 1 : r[i] = s[i + 1]
    <3> DEFINE a == SubSeq(s, 1, at - 1)
               b == SubSeq(s, at + 1, Len(s))
    <3>1. a \in Seq(S) /\ Len(a) = at - 1 BY <2>2
    <3>2. \A i \in 1 .. at - 1 : a[i] = s[i] BY <2>2
    <3>3. b \in Seq(S) /\ Len(b) = Len(s) - at BY <2>2
    <3>4. \A i \in 1 .. Len(s) - at : b[i] = s[at + i] BY <2>2
    <3> HIDE DEF a, b
    <3>5. a \o b \in Seq(S) /\ Len(a \o b) = Len(a) + Len(b)
      BY <3>1, <3>3
    <3>6. \A i \in 1 .. Len(a) + Len(b) :
            (a \o b)[i] = IF i <= Len(a) THEN a[i] ELSE b[i - Len(a)]
      BY <3>1, <3>3
    <3>7. a \o b = r BY DEF a, b
    <3> HIDE DEF r
    <3>8. Len(s) \in Nat /\ at \in 1 .. Len(s) BY <2>2
    <3>9. r \in Seq(S) /\ Len(r) = Len(s) - 1
      <4>1. r \in Seq(S) BY <3>5, <3>7, Zenon
      <4>2. Len(r) = Len(a) + Len(b) BY <3>5, <3>7, Zenon
      <4> QED BY <3>1, <3>3, <3>8, <4>1, <4>2
    <3>10. ASSUME NEW i \in 1 .. at - 1 PROVE r[i] = s[i]
      <4>1. i \in 1 .. Len(a) + Len(b) /\ i <= Len(a) BY <3>1, <3>3, <3>8
      <4>2. r[i] = a[i] BY <3>6, <3>7, <4>1, Zenon
      <4> QED BY <3>2, <4>2, Zenon
    <3>11. ASSUME NEW i \in at .. Len(s) - 1 PROVE r[i] = s[i + 1]
      <4>1. /\ i \in 1 .. Len(a) + Len(b) /\ ~(i <= Len(a))
            /\ i - Len(a) \in 1 .. Len(s) - at /\ at + (i - Len(a)) = i + 1
        BY <3>1, <3>3, <3>8
      <4>2. r[i] = b[i - Len(a)] BY <3>6, <3>7, <4>1, Zenon
      <4>3. b[i - Len(a)] = s[at + (i - Len(a))] BY <3>4, <4>1, Zenon
      <4> QED BY <4>1, <4>2, <4>3, Zenon
    <3> QED BY <3>8, <3>9, <3>10, <3>11
  <2> HIDE DEF r
  <2>4. Distinct(r)
    <3> DEFINE old(i) == IF i < at THEN i ELSE i + 1
    <3>1. ASSUME NEW i \in 1 .. Len(s) - 1
          PROVE  old(i) \in 1 .. Len(s) /\ r[i] = s[old(i)]
      <4>1. CASE i < at BY <2>2, <2>3, <4>1
      <4>2. CASE i >= at BY <2>2, <2>3, <4>2
      <4> QED BY <2>2, <4>1, <4>2
    <3>2. ASSUME NEW i \in 1 .. Len(s) - 1, NEW j \in 1 .. Len(s) - 1, old(i) = old(j)
          PROVE  i = j
      BY <2>2, <3>2
    <3> HIDE DEF old
    <3>3. ASSUME NEW i \in 1 .. Len(s) - 1, NEW j \in 1 .. Len(s) - 1, r[i] = r[j]
          PROVE  i = j
      <4>1. s[old(i)] = s[old(j)] BY <3>1, <3>3, Zenon
      <4>2. old(i) = old(j) BY <3>1, <4>1, Zenon DEF Distinct
      <4> QED BY <3>2, <4>2, Zenon
    <3>4. Len(r) = Len(s) - 1 BY <2>3, Zenon
    <3> QED BY <3>3, <3>4, Zenon DEF Distinct
  <2>5. Elems(r) = Elems(s) \ {t}
    <3>1. ASSUME NEW x \in Elems(r) PROVE x \in Elems(s) \ {t}
      <4>1. PICK i \in 1 .. Len(s) - 1 : r[i] = x BY <2>3, <3>1 DEF Elems
      <4>2. PICK j \in 1 .. Len(s) : j # at /\ s[j] = x
        <5>1. CASE i < at BY <2>2, <2>3, <4>1, <5>1
        <5>2. CASE i >= at BY <2>2, <2>3, <4>1, <5>2
        <5> QED BY <2>2, <2>3, <5>1, <5>2
      <4> QED BY <2>2, <4>2 DEF Elems, Distinct
    <3>2. ASSUME NEW x \in Elems(s), x # t PROVE x \in Elems(r)
      <4>1. PICK i \in 1 .. Len(s) : s[i] = x BY <3>2 DEF Elems
      <4>2. CASE i < at BY <2>2, <2>3, <4>1, <4>2 DEF Elems
      <4>3. CASE i > at
        <5>1. i - 1 \in at .. Len(s) - 1 /\ r[i - 1] = x BY <2>2, <2>3, <4>1, <4>3
        <5> QED BY <2>2, <2>3, <5>1 DEF Elems
      <4> QED BY <2>2, <3>2, <4>1, <4>2, <4>3
    <3> QED BY <3>1, <3>2
  <2> QED BY <2>1, <2>3, <2>4, <2>5
<1> QED BY <1>1, <1>2

\* sched_wake: a sleeper becomes RUNNABLE, nothing else changes.
LEMMA SchedWakeFacts ==
  ASSUME NEW T, NEW Q, NEW state \in [T -> Q], "RUNNABLE" \in Q, NEW t \in T
  PROVE  /\ SchedWake(state, t) \in [T -> Q]
         /\ SchedWake(state, t)[t] = IF state[t] \in Sleeps THEN "RUNNABLE" ELSE state[t]
         /\ \A u \in T \ {t} : SchedWake(state, t)[u] = state[u]
         /\ SchedWake(state, t)[t] \notin Sleeps
  BY DEF SchedWake, Sleeps

\* A nonempty set of positions has a first one.
LEMMA FirstPosition ==
  ASSUME NEW P, P \subseteq Nat, P # {}
  PROVE  \E i \in P : \A j \in P : i <= j
<1> DEFINE R == {ss \in Nat \X Nat : ss[1] < ss[2]}
<1>1. \A i, j \in Nat : <<j, i>> \in R <=> j < i OBVIOUS
<1>2. IsWellFoundedOn(R, Nat) BY NatLessThanWellFounded DEF OpToRel
<1> HIDE DEF R
<1>3. PICK i \in P : \A j \in P : <<j, i>> \notin R BY <1>2, WFMin, Zenon
<1>4. ASSUME NEW j \in P PROVE i <= j
  <2>1. i \in Nat /\ j \in Nat OBVIOUS
  <2>2. <<j, i>> \notin R BY <1>3, Zenon
  <2> QED BY <1>1, <2>1, <2>2
<1> QED BY <1>4

\* wake_up_one_locked wakes exactly one sleeper of the list if there is one, and
\* otherwise nobody.
LEMMA WakeOneFacts ==
  ASSUME NEW T, NEW Q, NEW state \in [T -> Q], "RUNNABLE" \in Q, NEW s \in Seq(T)
  PROVE  \/ /\ \A t \in Elems(s) : state[t] \notin Sleeps
            /\ WakeUpOne(state, s) = state
         \/ \E t \in Elems(s) :
              state[t] \in Sleeps /\ WakeUpOne(state, s) = SchedWake(state, t)
<1> DEFINE asleep == {i \in 1 .. Len(s) : state[s[i]] \in Sleeps}
           i == CHOOSE i \in asleep : \A j \in asleep : i <= j
<1>1. CASE asleep = {} BY <1>1 DEF WakeUpOne, Elems
<1>2. CASE asleep # {}
  <2>1. i \in asleep
    <3>1. asleep \subseteq Nat OBVIOUS
    <3> HIDE DEF asleep
    <3> QED BY <1>2, <3>1, FirstPosition, Zenon
  <2>2. WakeUpOne(state, s) = SchedWake(state, s[i]) BY <1>2 DEF WakeUpOne
  <2> HIDE DEF i
  <2> QED BY <2>1, <2>2 DEF Elems
<1> QED BY <1>1, <1>2

\* wake_up_all_locked wakes every sleeper of the list.
LEMMA WakeAllFacts ==
  ASSUME NEW T, NEW Q, NEW state \in [T -> Q], "RUNNABLE" \in Q, NEW s \in Seq(T)
  PROVE  /\ WakeUpAll(state, s) \in [T -> Q]
         /\ \A t \in T : WakeUpAll(state, s)[t] =
              IF state[t] \in Sleeps /\ t \in Elems(s) THEN "RUNNABLE" ELSE state[t]
  BY ElemsFacts DEF WakeUpAll
=============================================================================
