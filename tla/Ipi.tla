-------------------------------- MODULE Ipi --------------------------------
(***************************************************************************)
(* The interrupt between CPUs, kernel/cpu.c: cpu_send_resched posts a      *)
(* request in the ipi_pending of one CPU and then raises its software      *)
(* interrupt; cpu_handle_ipi acknowledges the interrupt and then empties   *)
(* the mailbox.  Each of the four is a step of its own, and any number of  *)
(* senders may be between its two.  Sched keeps the interrupt bit only:    *)
(* its idle loop ignores what cpu_handle_ipi returns, and the end of an    *)
(* interrupt switches for TF_NEED_RESCHED, whatever it returns.            *)
(***************************************************************************)
EXTENDS Naturals, Sequences

CONSTANT Senders    \* the contexts of the other CPUs that send

VARIABLES
  mail,     \* IPI_RESCHED in cpu.ipi_pending
  ssip,     \* the software interrupt pending bit of the CPU
  sender,   \* where a sender is: outside, before arch_send_ipi, or in panic
  handler   \* the step cpu_handle_ipi takes next, or "out"

ipiVars == <<mail, ssip, sender, handler>>

Init ==
  /\ mail = FALSE /\ ssip = FALSE
  /\ sender = [s \in Senders |-> "out"] /\ handler = "out"

\* The fetch_or of cpu_send_resched.
CpuSendResched(s) ==
  /\ sender[s] = "out"
  /\ mail' = TRUE
  /\ sender' = [sender EXCEPT ![s] = "ring"]
  /\ UNCHANGED <<ssip, handler>>

ArchSendIpi(s) ==
  /\ sender[s] = "ring"
  /\ ssip' = TRUE
  /\ sender' = [sender EXCEPT ![s] = "out"]
  /\ UNCHANGED <<mail, handler>>

\* The firmware refuses, and the sender panics.
ArchSendFails(s) ==
  /\ sender[s] = "ring"
  /\ sender' = [sender EXCEPT ![s] = "panic"]
  /\ UNCHANGED <<mail, ssip, handler>>

\* Faulty variant: the mailbox is emptied before the interrupt is acknowledged.
HandleOrderSwapped == <<"take", "ack">>

HandleOrder == <<"ack", "take">>

\* cpu_handle_ipi is called: by the software interrupt or by the idle loop.
CpuHandleIpi ==
  /\ handler = "out"
  /\ handler' = HandleOrder[1]
  /\ UNCHANGED <<mail, ssip, sender>>

HandleNext(l) == IF l = HandleOrder[1] THEN HandleOrder[2] ELSE "out"

ArchClearIpi ==
  /\ handler = "ack"
  /\ ssip' = FALSE
  /\ handler' = HandleNext("ack")
  /\ UNCHANGED <<mail, sender>>

\* The xchg of ipi_pending by 0.
TakeMail ==
  /\ handler = "take"
  /\ mail' = FALSE
  /\ handler' = HandleNext("take")
  /\ UNCHANGED <<ssip, sender>>

Next ==
  \/ \E s \in Senders : CpuSendResched(s) \/ ArchSendIpi(s) \/ ArchSendFails(s)
  \/ CpuHandleIpi \/ ArchClearIpi \/ TakeMail

Spec == Init /\ [][Next]_ipiVars

\* Every variable has its type.
TypeOK ==
  /\ mail \in BOOLEAN /\ ssip \in BOOLEAN
  /\ sender \in [Senders -> {"out", "ring", "panic"}] /\ handler \in {"out", "ack", "take"}

\* No request stays behind without its interrupt, however sends and
\* acknowledgements overtake each other: while one is in the mailbox the
\* interrupt is pending, or a sender is about to raise it, or cpu_handle_ipi is
\* about to empty the mailbox.  (A sender that panics has failed to raise its own.)
IpiInv ==
  /\ TypeOK
  /\ mail => \/ ssip \/ handler = "take"
             \/ \E s \in Senders : sender[s] \in {"ring", "panic"}
=============================================================================
