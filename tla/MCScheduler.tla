---------------------------- MODULE MCScheduler ----------------------------
(* Model values and symmetry for checking Scheduler with TLC.              *)
EXTENDS Scheduler

Symmetry == Permutations(Workers) \cup Permutations(Fibers)
=============================================================================
