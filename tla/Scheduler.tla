------------------------------ MODULE Scheduler ------------------------------
(***************************************************************************)
(* The N:M coroutine scheduler: gxh/scheduler.{h,cc} together with the     *)
(* part of gxh/fiber.cc it drives (resume, yield, MainFunc).               *)
(*                                                                         *)
(* A scheduler thread (a worker, or the use_caller thread inside stop())   *)
(* loops in Scheduler::run: under m_mutex it takes the first task it may   *)
(* execute, resumes the task's fiber, and when nothing is eligible resumes *)
(* its own idle fiber, which checks stopping().  Clients are the threads   *)
(* outside the scheduler that call start(), schedule() and stop().         *)
(*                                                                         *)
(* An action is one critical section of m_mutex or one step between two    *)
(* accesses to state that another thread can see.  The user code of a      *)
(* fiber is an arbitrary mixture of schedule(), handing itself to a waker  *)
(* (schedule(self), addEvent or addTimer), yield() and returning.          *)
(***************************************************************************)
EXTENDS Naturals, FiniteSets, SequencesExt

CONSTANTS
    Workers,     \* the threads start() creates (m_threadCount of them)
    Clients,     \* the threads that use the scheduler from outside
    Caller,      \* the client that constructed it (m_rootThread)
    UseCaller,   \* the constructor's use_caller
    Fibers,      \* names for the fibers of one run: the bound on tasks
    NoFiber,     \* no task in hand
    AnyThread,   \* ScheduleTask::thread = -1
    Pinned,      \* TRUE: a fiber is only rescheduled on the thread it ran on
    StartFirst   \* TRUE: nobody calls stop() before start()

Threads == Workers \cup (IF UseCaller THEN {Caller} ELSE {})

Pins == Threads \cup {AnyThread}

ASSUME ThreadsAssumption ==
    /\ UseCaller \in BOOLEAN
    /\ Pinned \in BOOLEAN
    /\ StartFirst \in BOOLEAN
    /\ IsFiniteSet(Workers)
    /\ Workers \cap Clients = {}
    /\ Caller \in Clients
    /\ Threads # {}                      \* GXH_ASSERT(threads > 0)
    /\ AnyThread \notin Workers \cup Clients

ASSUME FibersAssumption == NoFiber \notin Fibers

VARIABLES
    m_tasks,              \* list of ScheduleTask: [fiber, thread]
    m_activeThreadCount,  \* threads between taking a task and finishing it
    m_idleThreadCount,    \* threads inside their idle fiber
    m_stopping,           \* stop() has been called
    m_threads,            \* the threads stop() has still to join
    started,              \* start() has been called
    pc,                   \* where in run() each thread is
    cur,                  \* the fiber of the task a thread holds
    idleTerm,             \* the thread's idle fiber is TERM
    m_state,              \* Fiber::m_state; UNUSED: not created yet;
                          \*   CB: a queued callback whose fiber run() creates
    saved,                \* m_ctx holds the whole context of the fiber
    wake,                 \* the pin a waker of the fiber will schedule it with
    cpc,                  \* where each client is
    thrs,                 \* the threads a stop() took over to join
    fault                 \* the first failed assertion or undefined step

fiberVars == <<m_state, saved, wake>>
threadVars == <<pc, cur, idleTerm>>
counters == <<m_activeThreadCount, m_idleThreadCount>>
clientVars == <<started, m_stopping, m_threads, cpc, thrs>>
vars == <<m_tasks, counters, clientVars, threadVars, fiberVars, fault>>

ThreadPc == {"off", "pick", "got", "run", "yield", "back", "idle", "exit"}
ClientPc == {"live", "stop", "root", "swap", "join", "stopped"}
FiberState == {"UNUSED", "CB", "READY", "RUNNING", "TERM"}

Task == [fiber : Fibers, thread : Pins]

(* One type invariant: the shape of every field of Scheduler and Fiber.    *)
TypeOK ==
    /\ m_tasks \in Seq(Task)
    /\ m_activeThreadCount \in Nat
    /\ m_idleThreadCount \in Nat
    /\ m_stopping \in BOOLEAN
    /\ m_threads \in SUBSET Workers
    /\ started \in BOOLEAN
    /\ pc \in [Threads -> ThreadPc]
    /\ cur \in [Threads -> Fibers \cup {NoFiber}]
    /\ idleTerm \in [Threads -> BOOLEAN]
    /\ m_state \in [Fibers -> FiberState]
    /\ saved \in [Fibers -> BOOLEAN]
    /\ wake \in [Fibers -> SUBSET Pins]
    /\ cpc \in [Clients -> ClientPc]
    /\ thrs \in [Clients -> SUBSET Workers]
    /\ fault \in {"none", "assert", "unsaved"}

-----------------------------------------------------------------------------
(* State functions *)

\* Mutant: the test on ScheduleTask::thread is gone.
EligibleUnpinned(t) ==
    {i \in 1..Len(m_tasks) : m_state[m_tasks[i].fiber] # "RUNNING"}

\* The positions of the tasks thread t may take: not pinned to another thread
\* and the fiber not RUNNING; and the first of them.
Eligible(t) ==
    {i \in 1..Len(m_tasks) :
        /\ m_tasks[i].thread \in {t, AnyThread}
        /\ m_state[m_tasks[i].fiber] # "RUNNING"}

\* Mutant: tasks are taken from the back.
FirstFromBack(S) == {i \in S : \A j \in S : i >= j}

First(S) == {i \in S : \A j \in S : i <= j}

Queued(f) == \E i \in 1..Len(m_tasks) : m_tasks[i].fiber = f

\* Mutant: stopping() does not look at the queue.
StoppingIgnoresQueue == m_stopping /\ m_activeThreadCount = 0

\* Scheduler::stopping()
Stopping == m_stopping /\ m_tasks = <<>> /\ m_activeThreadCount = 0

Executing(t) == pc[t] \in {"got", "run", "yield", "back"}

\* Who can call schedule(): a client that has not called stop(), and the
\* user code of a fiber that some thread is running.
CanSchedule ==
    \/ \E c \in Clients : cpc[c] = "live"
    \/ \E t \in Threads : pc[t] = "run"

-----------------------------------------------------------------------------
(* The constructor *)

Init ==
    /\ m_tasks = <<>>
    /\ m_activeThreadCount = 0
    /\ m_idleThreadCount = 0
    /\ m_stopping = FALSE
    /\ m_threads = {}
    /\ started = FALSE
    /\ pc = [t \in Threads |-> "off"]
    /\ cur = [t \in Threads |-> NoFiber]
    /\ idleTerm = [t \in Threads |-> FALSE]
    /\ m_state = [f \in Fibers |-> "UNUSED"]
    /\ saved = [f \in Fibers |-> FALSE]
    /\ wake = [f \in Fibers |-> {}]
    /\ cpc = [c \in Clients |-> "live"]
    /\ thrs = [c \in Clients |-> {}]
    /\ fault = "none"

-----------------------------------------------------------------------------
(* schedule(): scheduleNoLock pushes the task at the back under m_mutex.   *)

scheduleNoLock(f, p) == m_tasks' = Append(m_tasks, [fiber |-> f, thread |-> p])

\* schedule(fiber) of a fresh fiber, or schedule(cb), on any thread or pinned.
\* A constructed fiber is READY with a context makecontext built.
schedule(f, p, st) ==
    /\ CanSchedule
    /\ m_state[f] = "UNUSED"
    /\ scheduleNoLock(f, p)
    /\ m_state' = [m_state EXCEPT ![f] = st]
    /\ saved' = [saved EXCEPT ![f] = (st = "READY")]
    /\ UNCHANGED <<wake, counters, clientVars, threadVars, fault>>

\* A waker (an event, a timer, another fiber, or the fiber itself) schedules
\* a fiber that was handed to it; the fiber may not have yielded yet.
Wake(f, p) ==
    /\ CanSchedule
    /\ p \in wake[f]
    /\ scheduleNoLock(f, p)
    /\ wake' = [wake EXCEPT ![f] = @ \ {p}]
    /\ UNCHANGED <<m_state, saved, counters, clientVars, threadVars, fault>>

-----------------------------------------------------------------------------
(* Scheduler::run, one thread t *)

\* Mutant: the thread is not counted active while it holds m_mutex.
TakeUncounted(t) ==
  \E i \in First(Eligible(t)) :
    /\ pc[t] = "pick"
    /\ cur' = [cur EXCEPT ![t] = m_tasks[i].fiber]
    /\ m_tasks' = RemoveAt(m_tasks, i)
    /\ pc' = [pc EXCEPT ![t] = "got"]
    /\ UNCHANGED <<counters, clientVars, idleTerm, fiberVars, fault>>

\* Mutant: the task stays in the queue.
TakeKeeps(t) ==
  \E i \in First(Eligible(t)) :
    /\ pc[t] = "pick"
    /\ cur' = [cur EXCEPT ![t] = m_tasks[i].fiber]
    /\ m_activeThreadCount' = m_activeThreadCount + 1
    /\ pc' = [pc EXCEPT ![t] = "got"]
    /\ UNCHANGED <<m_tasks, m_idleThreadCount, clientVars, idleTerm, fiberVars,
                   fault>>

\* The critical section that takes a task: erase it, count the thread active.
Take(t) ==
  \E i \in First(Eligible(t)) :
    /\ pc[t] = "pick"
    /\ cur' = [cur EXCEPT ![t] = m_tasks[i].fiber]
    /\ m_tasks' = RemoveAt(m_tasks, i)
    /\ m_activeThreadCount' = m_activeThreadCount + 1
    /\ pc' = [pc EXCEPT ![t] = "got"]
    /\ UNCHANGED <<m_idleThreadCount, clientVars, idleTerm, fiberVars, fault>>

\* No task for t: resume the idle fiber, or leave run() when it is TERM.
\* Nobody but tickle() reads m_idleThreadCount, and Scheduler::tickle does
\* not, so the increment joins the critical section.
TakeNothing(t) ==
    /\ pc[t] = "pick"
    /\ Eligible(t) = {}
    /\ IF idleTerm[t]
       THEN /\ pc' = [pc EXCEPT ![t] = "exit"]
            /\ UNCHANGED m_idleThreadCount
       ELSE /\ pc' = [pc EXCEPT ![t] = "idle"]
            /\ m_idleThreadCount' = m_idleThreadCount + 1
    /\ UNCHANGED <<m_tasks, m_activeThreadCount, clientVars, cur, idleTerm,
                   fiberVars, fault>>

\* Mutant: the idle fiber ends although another thread is still active.
idleIgnoresActive(t) ==
    /\ pc[t] = "idle"
    /\ idleTerm' = [idleTerm EXCEPT ![t] = m_stopping /\ m_tasks = <<>>]
    /\ m_idleThreadCount' = m_idleThreadCount - 1
    /\ pc' = [pc EXCEPT ![t] = "pick"]
    /\ UNCHANGED <<m_tasks, m_activeThreadCount, clientVars, cur, fiberVars,
                   fault>>

\* One round of Scheduler::idle: check stopping() under m_mutex, then yield
\* or return; either way run() counts the thread out and looks again.
idle(t) ==
    /\ pc[t] = "idle"
    /\ idleTerm' = [idleTerm EXCEPT ![t] = Stopping]
    /\ m_idleThreadCount' = m_idleThreadCount - 1
    /\ pc' = [pc EXCEPT ![t] = "pick"]
    /\ UNCHANGED <<m_tasks, m_activeThreadCount, clientVars, cur, fiberVars,
                   fault>>

\* Fiber::resume after m_mutex was released.  A callback's fiber is created
\* here.  The assertion is on m_state; swapping in a context that has not
\* been saved yet is undefined, and the behaviour is followed no further.
resume(t) ==
    LET f == cur[t] IN
    /\ pc[t] = "got"
    /\ \/ /\ m_state[f] \in {"TERM", "RUNNING"}
          /\ fault' = "assert"
          /\ UNCHANGED <<pc, m_state, saved>>
       \/ /\ m_state[f] = "READY" /\ ~saved[f]
          /\ fault' = "unsaved"
          /\ UNCHANGED <<pc, m_state, saved>>
       \/ /\ m_state[f] = "CB" \/ (m_state[f] = "READY" /\ saved[f])
          /\ m_state' = [m_state EXCEPT ![f] = "RUNNING"]
          /\ saved' = [saved EXCEPT ![f] = FALSE]
          /\ pc' = [pc EXCEPT ![t] = "run"]
          /\ UNCHANGED fault
    /\ UNCHANGED <<m_tasks, counters, clientVars, cur, idleTerm, wake>>

\* The running fiber hands itself to a waker before it yields.
HandOver(t) ==
    LET f == cur[t] IN
    /\ pc[t] = "run"
    /\ wake[f] = {} /\ ~Queued(f)
    /\ \E p \in IF Pinned THEN {t} ELSE Pins : wake' = [wake EXCEPT ![f] = {p}]
    /\ UNCHANGED <<m_tasks, counters, clientVars, threadVars, m_state, saved,
                   fault>>

\* Fiber::yield, first half: m_state becomes READY.  A fiber nobody holds
\* does not yield: run() would destroy it (GXH_ASSERT in ~Fiber).
yield(t) ==
    LET f == cur[t] IN
    /\ pc[t] = "run"
    /\ wake[f] # {} \/ Queued(f)
    /\ m_state' = [m_state EXCEPT ![f] = "READY"]
    /\ pc' = [pc EXCEPT ![t] = "yield"]
    /\ UNCHANGED <<m_tasks, counters, clientVars, cur, idleTerm, saved, wake,
                   fault>>

\* Fiber::MainFunc after m_cb returned: TERM, then yield for the last time.
\* Code that handed its fiber over yields first.
Return(t) ==
    LET f == cur[t] IN
    /\ pc[t] = "run"
    /\ wake[f] = {} /\ ~Queued(f)
    /\ m_state' = [m_state EXCEPT ![f] = "TERM"]
    /\ pc' = [pc EXCEPT ![t] = "yield"]
    /\ UNCHANGED <<m_tasks, counters, clientVars, cur, idleTerm, saved, wake,
                   fault>>

\* Fiber::yield, second half: swapcontext stores the context and continues
\* in run().
swapcontext(t) ==
    /\ pc[t] = "yield"
    /\ saved' = [saved EXCEPT ![cur[t]] = TRUE]
    /\ pc' = [pc EXCEPT ![t] = "back"]
    /\ UNCHANGED <<m_tasks, counters, clientVars, cur, idleTerm, m_state, wake,
                   fault>>

\* Back in run(): the thread is no longer active and drops the task.
Drop(t) ==
    /\ pc[t] = "back"
    /\ m_activeThreadCount' = m_activeThreadCount - 1
    /\ cur' = [cur EXCEPT ![t] = NoFiber]
    /\ pc' = [pc EXCEPT ![t] = "pick"]
    /\ UNCHANGED <<m_tasks, m_idleThreadCount, clientVars, idleTerm, fiberVars,
                   fault>>

-----------------------------------------------------------------------------
(* The clients *)

\* start() creates the workers while it holds m_mutex; after stop() it does
\* nothing.
start(c) ==
    /\ cpc[c] = "live"
    /\ ~started /\ ~m_stopping
    /\ started' = TRUE
    /\ m_threads' = Workers
    /\ pc' = [t \in Threads |-> IF t \in Workers THEN "pick" ELSE pc[t]]
    /\ UNCHANGED <<m_tasks, counters, m_stopping, cpc, thrs, cur, idleTerm,
                   fiberVars, fault>>

\* stop(), the first test: nothing left to stop.  With use_caller only the
\* caller may call it.
StopCheck(c) ==
    /\ cpc[c] = "live"
    /\ StartFirst => started
    /\ UseCaller => c = Caller
    /\ cpc' = [cpc EXCEPT ![c] = IF Stopping THEN "stopped" ELSE "stop"]
    /\ UNCHANGED <<m_tasks, counters, started, m_stopping, m_threads, thrs,
                   threadVars, fiberVars, fault>>

\* m_stopping = true, outside m_mutex; a use_caller scheduler then resumes
\* m_rootFiber, which runs run() on this thread.
StopSet(c) ==
    /\ cpc[c] = "stop"
    /\ m_stopping' = TRUE
    /\ cpc' = [cpc EXCEPT ![c] = IF UseCaller THEN "root" ELSE "swap"]
    /\ pc' = IF UseCaller THEN [pc EXCEPT ![c] = "pick"] ELSE pc
    /\ UNCHANGED <<m_tasks, counters, started, m_threads, thrs, cur, idleTerm,
                   fiberVars, fault>>

\* m_rootFiber->resume() returns once run() has returned on this thread.
StopRoot(c) ==
    /\ cpc[c] = "root"
    /\ pc[c] = "exit"
    /\ cpc' = [cpc EXCEPT ![c] = "swap"]
    /\ UNCHANGED <<m_tasks, counters, started, m_stopping, m_threads, thrs,
                   threadVars, fiberVars, fault>>

\* thrs.swap(m_threads) under m_mutex.
StopSwap(c) ==
    /\ cpc[c] = "swap"
    /\ thrs' = [thrs EXCEPT ![c] = m_threads]
    /\ m_threads' = {}
    /\ cpc' = [cpc EXCEPT ![c] = "join"]
    /\ UNCHANGED <<m_tasks, counters, started, m_stopping, threadVars,
                   fiberVars, fault>>

\* All joined: stop() returns.
StopJoin(c) ==
    /\ cpc[c] = "join"
    /\ \A t \in thrs[c] : pc[t] = "exit"
    /\ cpc' = [cpc EXCEPT ![c] = "stopped"]
    /\ UNCHANGED <<m_tasks, counters, started, m_stopping, m_threads, thrs,
                   threadVars, fiberVars, fault>>

-----------------------------------------------------------------------------

\* Calls of schedule() by whoever may call it.
Submit ==
    \/ \E f \in Fibers, p \in Pins, st \in {"READY", "CB"} : schedule(f, p, st)
    \/ \E f \in Fibers, p \in Pins : Wake(f, p)

\* One step of thread t in run() or in the fiber it runs.
ThreadStep(t) ==
    \/ Take(t) \/ TakeNothing(t) \/ idle(t) \/ resume(t)
    \/ HandOver(t) \/ yield(t) \/ Return(t) \/ swapcontext(t) \/ Drop(t)

\* stop() of client c, once it is past its first test.
StopStep(c) == StopSet(c) \/ StopRoot(c) \/ StopSwap(c) \/ StopJoin(c)

ClientStep(c) == start(c) \/ StopCheck(c) \/ StopStep(c)

\* Every client is past stop(): the program leaves main().
Terminated == (\A c \in Clients : cpc[c] = "stopped") /\ UNCHANGED vars

Next ==
    /\ fault = "none"
    /\ \/ Submit
       \/ Terminated
       \/ \E t \in Threads : ThreadStep(t)
       \/ \E c \in Clients : ClientStep(c)

Spec == Init /\ [][Next]_vars

(* Fairness: the kernel schedules every thread, a fiber's code does not    *)
(* loop for ever without a yield, the first client does call start() if it *)
(* has not called stop(), and a client inside stop() is a running thread.  *)
(* Nobody has to call stop(), and nobody has to wake a fiber that was      *)
(* handed over.                                                            *)
Fairness ==
    /\ \A t \in Threads : WF_vars(fault = "none" /\ ThreadStep(t))
    /\ \A c \in Clients : WF_vars(fault = "none" /\ start(c))
    /\ \A c \in Clients : WF_vars(fault = "none" /\ StopStep(c))

FairSpec == Spec /\ Fairness
-----------------------------------------------------------------------------
(* Properties *)

(* stopping() trusts m_activeThreadCount: it is exactly the number of      *)
(* threads that hold or execute a task, and m_idleThreadCount the number   *)
(* inside their idle fiber, at every point between the lock sections of    *)
(* run().                                                                  *)
CountersExact ==
    /\ m_activeThreadCount = Cardinality({t \in Threads : Executing(t)})
    /\ m_idleThreadCount = Cardinality({t \in Threads : pc[t] = "idle"})

(* Fiber::resume never fails its assertion and never swaps in a context    *)
(* that the yielding thread has not finished saving.                       *)
NoFault == fault = "none"

Held(f) == wake[f] # {} \/ Queued(f)

QueuedOnce ==
    \A i, j \in 1..Len(m_tasks) : m_tasks[i].fiber = m_tasks[j].fiber => i = j

(* A fiber that can still run is held in exactly one place: once in the    *)
(* queue, or by one waker, or by the one thread about to resume it; it     *)
(* executes on one thread at most, and a dead fiber is nowhere.  So a task *)
(* is neither lost nor executed twice for one schedule().                  *)
OnePlace ==
    /\ QueuedOnce
    /\ \A s, t \in Threads : cur[s] = cur[t] /\ cur[s] # NoFiber => s = t
    /\ \A f \in Fibers :
        /\ \A p, q \in wake[f] : p = q
        /\ wake[f] # {} => ~Queued(f)
        /\ m_state[f] \in {"UNUSED", "TERM"} => ~Held(f)
        /\ m_state[f] \in {"READY", "CB"} =>
             (Held(f) <=> ~\E t \in Threads : cur[t] = f /\ pc[t] = "got")
        /\ m_state[f] = "RUNNING" => \E t \in Threads : cur[t] = f /\ pc[t] = "run"

(* stopping() is stable: once an idle fiber has seen it TRUE and let its   *)
(* thread leave run(), no task can appear any more.                        *)
StoppingStable == [][Stopping => Stopping']_vars

(* A thread whose idle fiber ended leaves run() for good: every other      *)
(* thread finds the queue empty too.  The comment in run() says "if the    *)
(* idle fiber ended, the scheduler must have stopped".                     *)
ExitMeansStopped == \A t \in Threads : idleTerm[t] => Stopping

(* scheduler.h: stop() "returns after all scheduled tasks have run".  When *)
(* it has returned, the queue is empty, no fiber is executing, and every   *)
(* thread of the scheduler has left run() or never entered it.             *)
StopDrains ==
    \A c \in Clients : cpc[c] = "stopped" =>
        /\ m_tasks = <<>>
        /\ \A f \in Fibers : m_state[f] # "RUNNING"
        /\ \A t \in Threads : pc[t] \in {"off", "exit"}

(* stop() of a started scheduler returns, unless fibers reschedule         *)
(* themselves for ever: no order of pinned tasks, self-rescheduling fibers *)
(* and idle rounds leaves a task that no remaining thread may take.        *)
(* (Until the first fault: there is no telling what happens after an       *)
(* undefined step.  Without start() a task pinned to a worker keeps stop() *)
(* for ever.)                                                              *)
StopReturns ==
    <>[][~\E t \in Threads : HandOver(t)]_vars =>
        \A c \in Clients :
            cpc[c] = "stop" /\ started ~> cpc[c] = "stopped" \/ fault # "none"

(* No starvation: a task that a worker of a started scheduler may take is  *)
(* taken eventually, even when other fibers reschedule themselves for ever *)
(* (until a fault).                                                        *)
TaskRuns ==
    Workers # {} =>
      \A f \in Fibers :
        (started /\ \E i \in 1..Len(m_tasks) : m_tasks[i].fiber = f
                                               /\ m_tasks[i].thread # Caller)
            ~> (\E t \in Threads : cur[t] = f) \/ fault # "none"

\* The mapping to TaskPool.  A thread executes a task until swapcontext has saved its context, and
\* begins the one it has taken from the queue when it resumes it.
running == [t \in Threads |-> IF pc[t] \in {"run", "yield"} THEN cur[t] ELSE NoFiber]
due == {f \in Fibers : Queued(f) \/ \E t \in Threads : pc[t] = "got" /\ cur[t] = f}
status == [f \in Fibers |->
    IF m_state[f] = "UNUSED" THEN "new"
    ELSE IF m_state[f] = "TERM" /\ \A t \in Threads : running[t] # f THEN "done" ELSE "open"]
returned == \E c \in Clients : cpc[c] = "stopped"

Pool == INSTANCE TaskPool WITH Tasks <- Fibers, NoTask <- NoFiber

(* With one client, fibers rescheduled on the thread they ran on, and      *)
(* either use_caller or a stop() that comes after start() (without both,   *)
(* stop() returns at once and leaves the queue as it is), the scheduler is *)
(* the pool of tasks that its interface promises: whatever the threads do, *)
(* a task is begun once for each schedule(), by one thread at a time and   *)
(* only when its context is whole, and stop() returns when nothing is due  *)
(* or executed, and nothing is after it (scheduler.h:81).                  *)
ImplementsTaskPool == Pool!Spec
=============================================================================
