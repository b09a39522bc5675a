--------------------------- MODULE MCHttpService ---------------------------
(***************************************************************************)
(* Two callers share the pool, a third has connections of its own.         *)
(***************************************************************************)
EXTENDS HttpService

mc_Conns == 1..2
mc_Socks == 1..2

\* One caller of the pool keeps its connections alive, the other has them closed.
mc_Closes == [k \in {"p", "q", "d"} |-> {k = "q"}]
=============================================================================
