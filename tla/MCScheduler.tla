---------------------------- MODULE MCScheduler ----------------------------
(* A small instance of Scheduler: two processes on one thread file.         *)
EXTENDS Scheduler, TLC

CONSTANTS p1, p2

Symmetry == Permutations({p1, p2})
=============================================================================
