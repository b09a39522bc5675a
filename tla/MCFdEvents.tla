----------------------------- MODULE MCFdEvents -----------------------------
(* The directions used, and symmetry, for checking FdEvents with TLC.      *)
EXTENDS FdEvents, TLC

\* One descriptor with both directions, the others only with READ.
Mixed == LET one == CHOOSE fd \in Fds : TRUE IN
         [fd \in Fds |-> IF fd = one THEN Event ELSE {"READ"}]

Symmetry == Permutations(Pollers)
=============================================================================
