----------------------------- MODULE MutexSpec -----------------------------
(***************************************************************************)
(* What include/nuvix/mutex.h promises: at most one owner, an acquisition  *)
(* that only an interruptible caller with a signal may abandon, and a free *)
(* mutex that somebody waits for is taken.  Which waiter gets it is left   *)
(* open: a late caller may overtake.                                       *)
(***************************************************************************)
CONSTANTS Tasks, None

VARIABLES owner,          \* mutex.owner
          waiting,        \* the tasks inside mutex_lock or mutex_lock_interruptible
          interruptible,  \* those of them in mutex_lock_interruptible
          signalled       \* the tasks with a signal pending

vars == <<owner, waiting, interruptible, signalled>>

Init == owner = None /\ waiting = {} /\ interruptible = {} /\ signalled = {}

\* The wait of t is over.
Leave(t) ==
  /\ waiting' = waiting \ {t}
  /\ interruptible' = interruptible \ {t}
  /\ UNCHANGED signalled

Request(t) ==
  /\ t \notin waiting /\ owner # t
  /\ waiting' = waiting \cup {t}
  /\ interruptible' \in {interruptible, interruptible \cup {t}}
  /\ UNCHANGED <<owner, signalled>>

\* A waiter takes the mutex, or mutex_trylock does.
Acquire(t) ==
  /\ owner = None
  /\ owner' = t
  /\ Leave(t)

\* mutex_lock_interruptible returns -EINTR; mutex_lock never does.
Abandon(t) ==
  /\ t \in interruptible /\ t \in signalled
  /\ Leave(t)
  /\ UNCHANGED owner

Release ==
  /\ owner # None
  /\ owner' = None
  /\ UNCHANGED <<waiting, interruptible, signalled>>

\* A signal is sent to t, or t takes its signals once it waits no more.
Signal(t) ==
  /\ \/ signalled' = signalled \cup {t}
     \/ t \notin waiting /\ signalled' = signalled \ {t}
  /\ UNCHANGED <<owner, waiting, interruptible>>

Next ==
  \/ Release
  \/ \E t \in Tasks : Request(t) \/ Acquire(t) \/ Abandon(t) \/ Signal(t)

\* A free mutex does not stay free while somebody waits for it.
Taken == (owner = None /\ waiting # {}) ~> (owner # None \/ waiting = {})

\* At most one owner at a time, and each got the mutex when it was free; a wait
\* ends in the ownership, unless it was interruptible and there was a signal.
Safety == Init /\ [][Next]_vars

Spec == Safety /\ Taken
=============================================================================
