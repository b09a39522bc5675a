------------------------------ MODULE IOManager ------------------------------
(***************************************************************************)
(* The IO scheduler's idle protocol: gxh/iomanager.{h,cc} composed with    *)
(* Scheduler::run, schedule and stop.  When a thread of IOManager finds    *)
(* nothing to run it decides in IOManager::stopping(), by three separate   *)
(* reads, whether it may leave; otherwise it sleeps in epoll_wait until a  *)
(* tickle, an event, a timer or the timeout, and puts what has become due  *)
(* back into the task queue.                                               *)
(*                                                                         *)
(* Module Scheduler has the steps of a fiber switch and the exactness of   *)
(* the counters, TimerManager the clock; here a fiber is just in one       *)
(* place, and a sleeping fiber may come due at any time.                   *)
(***************************************************************************)
EXTENDS Naturals, FiniteSets, SequencesExt

CONSTANTS
    Workers,     \* the threads start() creates
    Caller,      \* the thread that constructs the manager and calls stop()
    UseCaller,   \* the constructor's use_caller
    Fibers,      \* names for the fibers of one run: the bound on tasks
    NoFiber,
    AnyThread,   \* ScheduleTask::thread = -1
    PinsUsed,    \* the values callers pass to schedule(): AnyThread, threads
    SwitchInTime \* TRUE: no thread looks at a fiber that yield() has made
                 \* READY before swapcontext has saved its context

Threads == Workers \cup (IF UseCaller THEN {Caller} ELSE {})

ASSUME IOAssumption ==
    /\ UseCaller \in BOOLEAN /\ SwitchInTime \in BOOLEAN
    /\ IsFiniteSet(Workers)
    /\ Caller \notin Workers
    /\ Threads # {}
    /\ AnyThread \notin Threads
    /\ NoFiber \notin Fibers
    /\ PinsUsed \subseteq Threads \cup {AnyThread}

VARIABLES
    m_tasks,              \* list of ScheduleTask: [fiber, thread]
    place,                \* where each fiber is
    pc,                   \* where in run() or idle() each thread is
    cur,                  \* the fiber a thread runs
    idleTerm,             \* its idle fiber is TERM
    held,                 \* the expired callbacks it has collected (cbs)
    m_pendingEventCount,
    signal,               \* the tickle pipe is on epoll's ready list
    owes,                 \* tickle() calls an actor still has to make
    m_stopping,
    cpc,                  \* where the client is: live, root, join, stopped
    fault                 \* a context was resumed that was not saved

vars == <<m_tasks, place, pc, cur, idleTerm, held, m_pendingEventCount, signal,
          owes, m_stopping, cpc, fault>>

Actors == Threads \cup {Caller}

\* Stages of idle(), m_idleThreadCount counting the thread in all of them.
IdlePc == {"next", "pend", "sched", "wait", "woke", "due", "dec"}
ThreadPc == {"off", "pick", "run", "yield", "back", "enter", "exit"} \cup IdlePc

(* One type invariant for the manager, its threads and its fibers.         *)
TypeOK ==
    /\ m_tasks \in Seq([fiber : Fibers, thread : Threads \cup {AnyThread}])
    /\ place \in [Fibers -> {"new", "queue", "run", "event", "timer", "held", "done"}]
    /\ pc \in [Threads -> ThreadPc]
    /\ cur \in [Threads -> Fibers \cup {NoFiber}]
    /\ idleTerm \in [Threads -> BOOLEAN]
    /\ held \in [Threads -> SUBSET Fibers]
    /\ m_pendingEventCount \in Nat
    /\ signal \in BOOLEAN
    /\ owes \in [Actors -> Nat]
    /\ m_stopping \in BOOLEAN
    /\ cpc \in {"live", "root", "join", "stopped"}
    /\ fault \in BOOLEAN

-----------------------------------------------------------------------------
(* State functions *)

\* Scheduler::hasIdleThreads; module Scheduler shows the counter exact.
hasIdleThreads == \E t \in Threads : pc[t] \in IdlePc

\* m_activeThreadCount = 0
NobodyActive == \A t \in Threads : pc[t] \notin {"run", "yield", "back"}

m_timers == {f \in Fibers : place[f] = "timer"}

\* Fiber::RUNNING
Running(f) == \E t \in Threads : cur[t] = f /\ pc[t] = "run"

\* Fibers that have been handed over and whose thread is in yield(): RUNNING
\* at first, then READY although swapcontext has not saved them yet.
SwitchedOut == {f \in Fibers : \E t \in Threads : cur[t] = f /\ pc[t] = "yield"}

\* Those of them that a look at the queue may still find RUNNING.
Looks == IF SwitchInTime THEN {SwitchedOut} ELSE SUBSET SwitchedOut

\* The positions of the tasks thread t may take when R are RUNNING too, and
\* the first of them.
Eligible(t, R) ==
    {i \in 1..Len(m_tasks) :
        /\ m_tasks[i].thread \in {t, AnyThread}
        /\ ~Running(m_tasks[i].fiber) /\ m_tasks[i].fiber \notin R}

First(S) == {i \in S : \A j \in S : i <= j}

\* Scheduler::stopping
SchedulerStopping == m_stopping /\ m_tasks = <<>> /\ NobodyActive

-----------------------------------------------------------------------------
(* The constructor calls start(): the workers are in run(). *)

Init ==
    /\ m_tasks = <<>>
    /\ place = [f \in Fibers |-> "new"]
    /\ pc = [t \in Threads |-> IF t \in Workers THEN "pick" ELSE "off"]
    /\ cur = [t \in Threads |-> NoFiber]
    /\ idleTerm = [t \in Threads |-> FALSE]
    /\ held = [t \in Threads |-> {}]
    /\ m_pendingEventCount = 0
    /\ signal = FALSE
    /\ owes = [a \in Actors |-> 0]
    /\ m_stopping = FALSE
    /\ cpc = "live"
    /\ fault = FALSE

\* schedule(): push at the back; the first task makes its caller tickle.
schedule(a, f, p) ==
    /\ m_tasks' = Append(m_tasks, [fiber |-> f, thread |-> p])
    /\ owes' = [owes EXCEPT ![a] = @ + (IF m_tasks = <<>> THEN 1 ELSE 0)]

\* IOManager::tickle by actor a: one write makes the pipe readable.
tickle(a) ==
    /\ owes[a] > 0
    /\ owes' = [owes EXCEPT ![a] = @ - 1]
    /\ signal' = (signal \/ hasIdleThreads)
    /\ UNCHANGED <<m_tasks, place, pc, cur, idleTerm, held, m_pendingEventCount,
                   m_stopping, cpc, fault>>

-----------------------------------------------------------------------------
(* Scheduler::run, thread t *)

\* Whether run() tickles after it has looked for a task: it passed a task of
\* another thread, or tasks follow the one it took (i = 0: it took none).
TickleMe(t, i) ==
    \/ \E j \in 1..Len(m_tasks) :
        m_tasks[j].thread \notin {t, AnyThread} /\ (i = 0 \/ j < i)
    \/ i # 0 /\ i < Len(m_tasks)

\* Take a task and resume its fiber.  When the thread that ran it last has not
\* saved its context, there is no telling what happens next.
Take(t) ==
  \E R \in Looks : \E i \in First(Eligible(t, R)) :
    LET f == m_tasks[i].fiber IN
    /\ pc[t] = "pick"
    /\ cur' = [cur EXCEPT ![t] = f]
    /\ place' = [place EXCEPT ![f] = "run"]
    /\ m_tasks' = RemoveAt(m_tasks, i)
    /\ owes' = [owes EXCEPT ![t] = IF TickleMe(t, i) THEN 1 ELSE 0]
    /\ pc' = [pc EXCEPT ![t] = "run"]
    /\ fault' = (f \in SwitchedOut)
    /\ UNCHANGED <<idleTerm, held, m_pendingEventCount, signal, m_stopping, cpc>>

\* Nothing to take.  The thread is not counted idle before "enter" is over.
TakeNothing(t) ==
    /\ pc[t] = "pick"
    /\ \E R \in Looks : Eligible(t, R) = {}
    /\ owes' = [owes EXCEPT ![t] = IF TickleMe(t, 0) THEN 1 ELSE 0]
    /\ pc' = [pc EXCEPT ![t] = IF idleTerm[t] THEN "exit" ELSE "enter"]
    /\ UNCHANGED <<m_tasks, place, cur, idleTerm, held, m_pendingEventCount,
                   signal, m_stopping, cpc, fault>>

\* ++m_idleThreadCount and resume the idle fiber.
Enter(t) ==
    /\ pc[t] = "enter"
    /\ pc' = [pc EXCEPT ![t] = "next"]
    /\ UNCHANGED <<m_tasks, place, cur, idleTerm, held, m_pendingEventCount,
                   signal, owes, m_stopping, cpc, fault>>

-----------------------------------------------------------------------------
(* What user code does: on a thread that runs a fiber, or in the client     *)
(* before it calls stop().                                                 *)

CanCall(a) == owes[a] = 0 /\ \/ a \in Threads /\ pc[a] = "run"
                             \/ a = Caller /\ cpc = "live"

\* schedule(f, p) of a new fiber or callback.
Submit(a, f, p) ==
    /\ CanCall(a)
    /\ place[f] = "new"
    /\ place' = [place EXCEPT ![f] = "queue"]
    /\ schedule(a, f, p)
    /\ UNCHANGED <<pc, cur, idleTerm, held, m_pendingEventCount, signal,
                   m_stopping, cpc, fault>>

\* addEvent(fd, event, cb): the callback is scheduled when the event comes.
\* Its scheduler is Scheduler::GetThis(): only on a thread that has one.
AddEventCb(a, f) ==
    /\ CanCall(a) /\ a \in Threads
    /\ place[f] = "new"
    /\ place' = [place EXCEPT ![f] = "event"]
    /\ m_pendingEventCount' = m_pendingEventCount + 1
    /\ UNCHANGED <<m_tasks, pc, cur, idleTerm, held, signal, owes, m_stopping,
                   cpc, fault>>

\* addTimer(ms, cb).  At the front of the set it tickles; TimerManager says
\* when it has to.
AddTimerCb(a, f) ==
    /\ CanCall(a)
    /\ place[f] = "new"
    /\ place' = [place EXCEPT ![f] = "timer"]
    /\ \E front \in {0, 1} : owes' = [owes EXCEPT ![a] = front]
    /\ UNCHANGED <<m_tasks, pc, cur, idleTerm, held, m_pendingEventCount,
                   signal, m_stopping, cpc, fault>>

-----------------------------------------------------------------------------
(* How the fiber on thread t gives up the thread *)

\* addEvent(fd, event) on its own behalf, to yield afterwards.
RunAddEvent(t) ==
    /\ pc[t] = "run"
    /\ place' = [place EXCEPT ![cur[t]] = "event"]
    /\ m_pendingEventCount' = m_pendingEventCount + 1
    /\ pc' = [pc EXCEPT ![t] = "yield"]
    /\ UNCHANGED <<m_tasks, cur, idleTerm, held, signal, owes, m_stopping, cpc, fault>>

\* The hooked sleep(): addTimer with a callback that schedules the fiber.
RunAddTimer(t) ==
    /\ pc[t] = "run"
    /\ place' = [place EXCEPT ![cur[t]] = "timer"]
    /\ \E front \in {0, 1} : owes' = [owes EXCEPT ![t] = front]
    /\ pc' = [pc EXCEPT ![t] = "yield"]
    /\ UNCHANGED <<m_tasks, cur, idleTerm, held, m_pendingEventCount, signal,
                   m_stopping, cpc, fault>>

RunReturn(t) ==
    /\ pc[t] = "run"
    /\ place' = [place EXCEPT ![cur[t]] = "done"]
    /\ pc' = [pc EXCEPT ![t] = "yield"]
    /\ UNCHANGED <<m_tasks, cur, idleTerm, held, m_pendingEventCount, signal,
                   owes, m_stopping, cpc, fault>>

\* The end of yield(): the context is saved, and the thread is back in run().
swapcontext(t) ==
    /\ pc[t] = "yield"
    /\ pc' = [pc EXCEPT ![t] = "back"]
    /\ UNCHANGED <<m_tasks, place, cur, idleTerm, held, m_pendingEventCount, signal,
                   owes, m_stopping, cpc, fault>>

\* --m_activeThreadCount; the task is dropped.
Drop(t) ==
    /\ pc[t] = "back"
    /\ cur' = [cur EXCEPT ![t] = NoFiber]
    /\ pc' = [pc EXCEPT ![t] = "pick"]
    /\ UNCHANGED <<m_tasks, place, idleTerm, held, m_pendingEventCount, signal,
                   owes, m_stopping, cpc, fault>>

-----------------------------------------------------------------------------
(* IOManager::idle, thread t: stopping(timeout) is three reads, each only   *)
(* made when the one before allows stopping.                               *)

\* getNextTimer()
ReadTimers(t) ==
    /\ pc[t] = "next"
    /\ pc' = [pc EXCEPT ![t] = IF m_timers = {} THEN "pend" ELSE "wait"]
    /\ UNCHANGED <<m_tasks, place, cur, idleTerm, held, m_pendingEventCount,
                   signal, owes, m_stopping, cpc, fault>>

\* m_pendingEventCount == 0
ReadPending(t) ==
    /\ pc[t] = "pend"
    /\ pc' = [pc EXCEPT ![t] = IF m_pendingEventCount = 0 THEN "sched" ELSE "wait"]
    /\ UNCHANGED <<m_tasks, place, cur, idleTerm, held, m_pendingEventCount,
                   signal, owes, m_stopping, cpc, fault>>

\* Scheduler::stopping(): TRUE ends the idle fiber and returns to run().
ReadScheduler(t) ==
    /\ pc[t] = "sched"
    /\ idleTerm' = [idleTerm EXCEPT ![t] = SchedulerStopping]
    /\ pc' = [pc EXCEPT ![t] = IF SchedulerStopping THEN "pick" ELSE "wait"]
    /\ UNCHANGED <<m_tasks, place, cur, held, m_pendingEventCount, signal, owes,
                   m_stopping, cpc, fault>>

\* Mutant: without MAX_TIMEOUT; only the pipe, an event or a timer wakes it.
epoll_waitUnlimited(t) ==
    /\ pc[t] = "wait"
    /\ pc' = IF signal \/ m_timers # {} \/ \E f \in Fibers : place[f] = "event"
             THEN [pc EXCEPT ![t] = "woke"] ELSE pc
    /\ signal' \in {signal, FALSE}
    /\ UNCHANGED <<m_tasks, place, cur, idleTerm, held, m_pendingEventCount,
                   owes, m_stopping, cpc, fault>>

\* epoll_wait returns: with the pipe, with an event, or on the timeout that
\* MAX_TIMEOUT bounds.
epoll_wait(t) ==
    /\ pc[t] = "wait"
    /\ signal' \in {signal, FALSE}
    /\ pc' = [pc EXCEPT ![t] = "woke"]
    /\ UNCHANGED <<m_tasks, place, cur, idleTerm, held, m_pendingEventCount,
                   owes, m_stopping, cpc, fault>>

\* listExpiredCb takes the timers that are due out of the set.
listExpiredCb(t) ==
  \E due \in SUBSET m_timers :
    /\ pc[t] = "woke"
    /\ held' = [held EXCEPT ![t] = due]
    /\ place' = [f \in Fibers |-> IF f \in due THEN "held" ELSE place[f]]
    /\ pc' = [pc EXCEPT ![t] = "due"]
    /\ UNCHANGED <<m_tasks, cur, idleTerm, m_pendingEventCount, signal, owes,
                   m_stopping, cpc, fault>>

\* schedule(cb) for each collected callback: the fiber it wakes is queued.
ScheduleCb(t) ==
  \E f \in held[t] :
    /\ pc[t] = "due"
    /\ held' = [held EXCEPT ![t] = @ \ {f}]
    /\ place' = [place EXCEPT ![f] = "queue"]
    /\ schedule(t, f, AnyThread)
    /\ UNCHANGED <<pc, cur, idleTerm, m_pendingEventCount, signal, m_stopping,
                   cpc, fault>>

\* A ready event: triggerEvent schedules the fiber ...
triggerEvent(t) ==
  \E f \in Fibers :
    /\ pc[t] = "due"
    /\ held[t] = {}
    /\ place[f] = "event"
    /\ place' = [place EXCEPT ![f] = "queue"]
    /\ schedule(t, f, AnyThread)
    /\ pc' = [pc EXCEPT ![t] = "dec"]
    /\ UNCHANGED <<cur, idleTerm, held, m_pendingEventCount, signal, m_stopping,
                   cpc, fault>>

\* ... and --m_pendingEventCount follows.
EventDone(t) ==
    /\ pc[t] = "dec"
    /\ m_pendingEventCount' = m_pendingEventCount - 1
    /\ pc' = [pc EXCEPT ![t] = "due"]
    /\ UNCHANGED <<m_tasks, place, cur, idleTerm, held, signal, owes,
                   m_stopping, cpc, fault>>

\* The idle fiber yields: run() counts the thread out and looks again.
IdleYield(t) ==
    /\ pc[t] = "due"
    /\ held[t] = {}
    /\ pc' = [pc EXCEPT ![t] = "pick"]
    /\ UNCHANGED <<m_tasks, place, cur, idleTerm, held, m_pendingEventCount,
                   signal, owes, m_stopping, cpc, fault>>

-----------------------------------------------------------------------------
(* The client *)

\* stop(): the flag, then one tickle for each thread.
StopSet ==
    /\ cpc = "live" /\ owes[Caller] = 0
    /\ m_stopping' = TRUE
    /\ owes' = [owes EXCEPT ![Caller] = Cardinality(Threads)]
    /\ cpc' = "root"
    /\ UNCHANGED <<m_tasks, place, pc, cur, idleTerm, held, m_pendingEventCount,
                   signal, fault>>

\* m_rootFiber->resume() of a use_caller manager: this thread enters run().
StopRoot ==
    /\ cpc = "root" /\ owes[Caller] = 0
    /\ cpc' = "join"
    /\ pc' = IF UseCaller THEN [pc EXCEPT ![Caller] = "pick"] ELSE pc
    /\ UNCHANGED <<m_tasks, place, cur, idleTerm, held, m_pendingEventCount,
                   signal, owes, m_stopping, fault>>

\* Mutant: only the threads that were asleep are waited for.
StopJoinEarly ==
    /\ cpc = "join"
    /\ \A t \in Threads : pc[t] # "wait" /\ owes[t] = 0
    /\ cpc' = "stopped"
    /\ UNCHANGED <<m_tasks, place, pc, cur, idleTerm, held, m_pendingEventCount,
                   signal, owes, m_stopping, fault>>

\* run() has returned here and every worker is joined: stop() returns.
StopJoin ==
    /\ cpc = "join"
    /\ \A t \in Threads : pc[t] = "exit" /\ owes[t] = 0
    /\ cpc' = "stopped"
    /\ UNCHANGED <<m_tasks, place, pc, cur, idleTerm, held, m_pendingEventCount,
                   signal, owes, m_stopping, fault>>

Terminated == (cpc = "stopped" \/ fault) /\ UNCHANGED vars

-----------------------------------------------------------------------------

\* One step of thread t inside idle().
IdleStep(t) ==
    \/ ReadTimers(t) \/ ReadPending(t) \/ ReadScheduler(t) \/ epoll_wait(t)
    \/ listExpiredCb(t) \/ ScheduleCb(t) \/ triggerEvent(t) \/ EventDone(t)
    \/ IdleYield(t)

\* A call of user code that hands something to the manager.
UserStep(a) ==
    \E f \in Fibers :
        \/ \E p \in PinsUsed : Submit(a, f, p)
        \/ AddEventCb(a, f) \/ AddTimerCb(a, f)

\* One step of thread t; a tickle it owes comes first.
ThreadStep(t) ==
    \/ tickle(t)
    \/ /\ owes[t] = 0
       /\ \/ Take(t) \/ TakeNothing(t) \/ Enter(t)
          \/ RunAddEvent(t) \/ RunAddTimer(t) \/ RunReturn(t) \/ swapcontext(t)
          \/ Drop(t)
          \/ UserStep(t)
          \/ IdleStep(t)

StopStep == tickle(Caller) \/ StopRoot \/ StopJoin

Next ==
    \/ Terminated
    \/ /\ ~fault
       /\ \/ \E t \in Threads : ThreadStep(t)
          \/ UserStep(Caller)
          \/ StopSet \/ StopStep

Spec == Init /\ [][Next]_vars

(* Fairness: the kernel schedules every thread and epoll_wait returns by   *)
(* its timeout; a fiber does not wait for events or timers for ever: it    *)
(* returns in the end; what a fiber waits for becomes due.                 *)
Fairness ==
    /\ \A t \in Threads : WF_vars(~fault /\ ThreadStep(t))
    /\ \A t \in Threads : SF_vars(~fault /\ RunReturn(t) /\ owes[t] = 0)
    /\ \A t \in Threads : SF_vars(~fault /\ triggerEvent(t) /\ owes[t] = 0)
    /\ \A t \in Threads : SF_vars(~fault /\ listExpiredCb(t) /\ held'[t] = m_timers
                                  /\ owes[t] = 0)
    /\ WF_vars(~fault /\ StopStep)

FairSpec == Spec /\ Fairness

-----------------------------------------------------------------------------
(* Properties *)

\* Nothing is left to do.
Drained == \A f \in Fibers : place[f] \in {"new", "done"}

(* iomanager.cc: the manager "must wait until all IO events have been      *)
(* handled before it exits", and all timers: stop() returns only when no   *)
(* fiber is queued, running, or waiting for an event or a timer, although  *)
(* stopping() reads timers, events and tasks at three different moments.   *)
(* Does not hold: a timer added between the reads is left behind.          *)
StopDrains == cpc = "stopped" => Drained /\ m_tasks = <<>>

(* What remains of StopDrains with several threads: a task that is in the  *)
(* queue, in execution, or collected from an expired timer is finished     *)
(* before stop() returns, whichever threads have left early.  The types    *)
(* are part of it: m_pendingEventCount, which stopping() reads, is never   *)
(* decremented below zero.                                                 *)
StopRunsTasks ==
    /\ TypeOK
    /\ cpc = "stopped" => \A f \in Fibers : place[f] \notin {"queue", "run", "held"}

(* A tickle that finds no idle thread writes nothing, and a thread may be  *)
(* on its way into epoll_wait then: a task queued in between wakes nobody. *)
(* The lost wakeup is only a delay: until stop() is called every queued    *)
(* task that a worker may take is taken in the end, by the timeout of      *)
(* epoll_wait if by nothing else (until a fault).                          *)
TaskRuns ==
    Workers # {} =>
        \A f \in Fibers :
            (\E i \in 1..Len(m_tasks) : m_tasks[i].fiber = f
                                        /\ m_tasks[i].thread # Caller)
                ~> place[f] # "queue" \/ m_stopping \/ fault

(* scheduler.h: stop() returns after all scheduled tasks have run; and     *)
(* with fibers that finish, it does return (until a fault).                *)
StopReturns == cpc = "root" ~> cpc = "stopped" \/ fault

\* The mapping to TaskPool: a thread executes a fiber until its context is
\* saved, and a fiber that waits for an event or a timer, or whose callback is
\* collected, is open and not due.
running == [t \in Threads |-> IF pc[t] \in {"run", "yield"} THEN cur[t] ELSE NoFiber]
dueTasks == {f \in Fibers : place[f] = "queue"}
status == [f \in Fibers |->
    IF place[f] = "new" THEN "new"
    ELSE IF place[f] = "done" /\ \A t \in Threads : running[t] # f THEN "done" ELSE "open"]

Pool == INSTANCE TaskPool WITH Tasks <- Fibers, NoTask <- NoFiber, due <- dueTasks,
                               returned <- (cpc = "stopped")

(* If no thread takes a fiber that has not been saved (SwitchInTime; see   *)
(* NoFault of module Scheduler), the manager is the pool of tasks that its *)
(* interface promises, with events and timers among those who schedule:    *)
(* whatever the idle threads do, a task is begun once for each schedule()  *)
(* and by one thread at a time, and stop() returns when nothing is due or  *)
(* executed, and nothing is after it (scheduler.h:81).                     *)
ImplementsTaskPool == Pool!Spec
=============================================================================
