--------------------------- MODULE MCTimerManager ---------------------------
(* Symmetry for checking TimerManager with TLC.                            *)
EXTENDS TimerManager, TLC

Symmetry == Permutations(Timers) \cup Permutations(Threads)
=============================================================================
