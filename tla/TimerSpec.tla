----------------------------- MODULE TimerSpec -----------------------------
(***************************************************************************)
(* What include/nuvix/timer.h promises of each timer: a started one runs   *)
(* its callback once, not before its deadline, unless it is cancelled; the *)
(* owner gets its memory back only when no callback is queued or running.  *)
(***************************************************************************)
EXTENDS Naturals

CONSTANTS Timers

VARIABLES now,       \* hardware time
          deadline,  \* timer.deadline
          status,    \* "idle", "armed", or "firing" while the callback runs
          live       \* the timers whose memory their owner has not released

vars == <<now, deadline, status, live>>

Init ==
  /\ now = 0 /\ live = {}
  /\ deadline = [t \in Timers |-> 0]
  /\ status = [t \in Timers |-> "idle"]

Advance ==
  /\ now' = now + 1
  /\ UNCHANGED <<deadline, status, live>>

\* The owner initializes and starts the timer, or starts it again.
Start(t) ==
  /\ status[t] = "idle"
  /\ live' = live \cup {t}
  /\ status' = [status EXCEPT ![t] = "armed"]
  /\ deadline' \in [Timers -> Nat]
  /\ \A u \in Timers \ {t} : deadline'[u] = deadline[u]
  /\ UNCHANGED now

Fire(t) ==
  /\ status[t] = "armed" /\ deadline[t] <= now
  /\ status' = [status EXCEPT ![t] = "firing"]
  /\ UNCHANGED <<now, deadline, live>>

Done(t) ==
  /\ status[t] = "firing"
  /\ status' = [status EXCEPT ![t] = "idle"]
  /\ UNCHANGED <<now, deadline, live>>

\* timer_cancel, and timer_cancel_sync when it returns.
Cancel(t) ==
  /\ status[t] # "firing"
  /\ status' = [status EXCEPT ![t] = "idle"]
  /\ live' \in {live, live \ {t}}
  /\ UNCHANGED <<now, deadline>>

Next == Advance \/ \E t \in Timers : Start(t) \/ Fire(t) \/ Done(t) \/ Cancel(t)

\* A timer that is due fires, unless it is cancelled first, and a callback ends.
Fires(t) == (status[t] = "armed" /\ deadline[t] <= now) ~> status[t] # "armed"
Ends(t)  == status[t] = "firing" ~> status[t] # "firing"

\* No callback before its deadline, at most one for a start, none after the release.
Safety == Init /\ [][Next]_vars

Spec == Safety /\ \A t \in Timers : Fires(t) /\ Ends(t)
=============================================================================
