------------------------------ MODULE TaskPool ------------------------------
(***************************************************************************)
(* What a user of the scheduler may rely on (scheduler.h, fiber.h),        *)
(* without its queue, threads' states, saved contexts or stages of stop(). *)
(* A task is due from the moment somebody schedules it until a thread      *)
(* begins it: one beginning for each schedule().  It is never executed by  *)
(* two threads, nor before the thread that executed it last has let go of  *)
(* it altogether.  When stop() has returned nothing is due, nothing is     *)
(* executed, and nothing ever will be.                                     *)
(***************************************************************************)
CONSTANTS Threads, Tasks, NoTask

VARIABLES status,     \* of a task: "new", "open" or "done"
          due,        \* the tasks somebody has scheduled and nobody has begun since
          running,    \* the task each thread executes
          returned    \* stop() has returned

vars == <<status, due, running, returned>>

Init ==
  /\ status = [f \in Tasks |-> "new"] /\ due = {}
  /\ running = [t \in Threads |-> NoTask] /\ returned = FALSE

Free(f) == \A t \in Threads : running[t] # f

\* schedule() of a new fiber or callback.
Submit(f) ==
  /\ ~returned /\ status[f] = "new"
  /\ status' = [status EXCEPT ![f] = "open"] /\ due' = due \cup {f}
  /\ UNCHANGED <<running, returned>>

\* A new callback is handed to an event or a timer, which will schedule it.
Register(f) ==
  /\ ~returned /\ status[f] = "new"
  /\ status' = [status EXCEPT ![f] = "open"]
  /\ UNCHANGED <<due, running, returned>>

\* schedule() by whoever was handed the fiber or the callback.
Reschedule(f) ==
  /\ ~returned /\ status[f] = "open" /\ f \notin due
  /\ due' = due \cup {f}
  /\ UNCHANGED <<status, running, returned>>

Begin(t, f) ==
  /\ ~returned /\ running[t] = NoTask
  /\ f \in due /\ status[f] = "open" /\ Free(f)
  /\ running' = [running EXCEPT ![t] = f] /\ due' = due \ {f}
  /\ UNCHANGED <<status, returned>>

\* A task yields; it may be due again already.
Pause(t) ==
  /\ running[t] # NoTask
  /\ running' = [running EXCEPT ![t] = NoTask]
  /\ UNCHANGED <<status, due, returned>>

\* A task ends; nobody has it scheduled.
Finish(t) ==
  /\ running[t] # NoTask /\ running[t] \notin due
  /\ status' = [status EXCEPT ![running[t]] = "done"]
  /\ running' = [running EXCEPT ![t] = NoTask]
  /\ UNCHANGED <<due, returned>>

\* stop() returns.
Return ==
  /\ ~returned /\ due = {} /\ \A t \in Threads : running[t] = NoTask
  /\ returned' = TRUE
  /\ UNCHANGED <<status, due, running>>

Next ==
  \/ \E f \in Tasks : Submit(f) \/ Register(f) \/ Reschedule(f)
  \/ \E t \in Threads : Pause(t) \/ Finish(t)
  \/ \E t \in Threads, f \in Tasks : Begin(t, f)
  \/ Return

Spec == Init /\ [][Next]_vars
=============================================================================
