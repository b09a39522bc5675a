---------------------------- MODULE MCMysqlPool ----------------------------
(***************************************************************************)
(* Mysql_pool under callers on several threads, each with a few calls of   *)
(* its own.                                                                *)
(***************************************************************************)
EXTENDS MysqlPool

CONSTANT MaxCalls      \* bound: calls of one fiber

VARIABLE calls         \* fiber |-> calls it has begun

vars == <<allPoolVars, calls>>

Init == PoolInit /\ calls = [f \in Fibers |-> 0]

\* Query, Insert, Delete and Update, of one row.
Called == {s \in Statements : s.op \in {"select", "insert", "delete", "update"}}

Begin(f) ==
  /\ calls[f] < MaxCalls
  /\ \E s \in Called : Call(f, s)
  /\ calls' = [calls EXCEPT ![f] = @ + 1]

\* The fiber ends.
Leave(f) ==
  /\ calls[f] = MaxCalls /\ Yield(f) /\ UNCHANGED calls

Work(f) == pc[f] # "out" \/ calls[f] < MaxCalls

Take(t, f) == init = "up" /\ Work(f) /\ Resume(t, f) /\ UNCHANGED calls

Step(f) == (PoolStep(f) /\ UNCHANGED calls) \/ Begin(f) \/ Leave(f)

Done == /\ init = "exit" \/ \A f \in Fibers : ~Work(f) /\ ~On(f)
        /\ UNCHANGED vars

\* Nothing can happen: every caller left waits for a connection.
Stuck == /\ \E t \in Threads : runs[t] # Nil
         /\ \A t \in Threads : runs[t] # Nil => pc[runs[t]] = "sem_wait"
         /\ reserve = 0
         /\ UNCHANGED vars

Next ==
  \/ Setup /\ UNCHANGED calls
  \/ \E f \in Fibers : Step(f) \/ (Suspend(f) /\ UNCHANGED calls) \/ \E t \in Threads : Take(t, f)
  \/ Done \/ Stuck

\* A thread runs the fiber it has; the scheduler hands every fiber with work to a free thread.
Fairness ==
  /\ WF_vars(Setup /\ UNCHANGED calls)
  /\ \A f \in Fibers : WF_vars(Step(f)) /\ WF_vars(\E t \in Threads : Take(t, f))

Spec == Init /\ [][Next]_vars /\ Fairness

\* A caller that waits for a connection gets one, as long as a connection is left that no failed
\* statement has lost.  The thread it blocks is never the last one that could run the fiber that has
\* to give a connection back (mysql_pool.cc:40: an empty list is answered, not waited for).
WaiterServed ==
  \A f \in Fibers : pc[f] = "sem_wait" ~> (pc[f] # "sem_wait" \/ Cardinality(lost) = maxconn)
=============================================================================
