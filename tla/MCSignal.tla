------------------------------ MODULE MCSignal ------------------------------
(* A small program for TLC: its handlers, and the masks it uses. *)
EXTENDS Signal

Catch(mask, nodefer, reset) ==
  [handler |-> "handler", mask |-> mask, nodefer |-> nodefer, reset |-> reset]

\* SA_NODEFER lets one handler nest in itself.  Other flags and masks multiply the
\* states; the theorems about Signal cover every set of actions.
SomeActions == {SigDfl, Catch({"SIGCONT"}, TRUE, TRUE)}
SomeMasks == {{}, {"SIGCONT", "SIGKILL"}}
=============================================================================
