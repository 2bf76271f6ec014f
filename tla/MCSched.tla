------------------------------ MODULE MCSched ------------------------------
(* Small instances of the scheduler for TLC. *)
EXTENDS Sched, TLC

Symmetry == Permutations(Tasks)
=============================================================================
