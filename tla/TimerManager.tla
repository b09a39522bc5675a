---------------------------- MODULE TimerManager ----------------------------
(***************************************************************************)
(* The timers: gxh/timer.{h,cc}, and the loop of IOManager::idle that      *)
(* sleeps until the next one is due (gxh/iomanager.cc).                    *)
(*                                                                         *)
(* m_timers is a std::set ordered by m_next (then by address) that every   *)
(* operation changes under the write lock m_mutex.  A thread in idle()     *)
(* asks getNextTimer() how long to sleep, sleeps in epoll_wait, and moves  *)
(* the expired timers' callbacks into the scheduler.  A timer inserted at  *)
(* the front wakes a sleeper through the tickle pipe, at most once per     *)
(* getNextTimer() (m_tickled).                                             *)
(*                                                                         *)
(* An action is one critical section or one step between two of them; the  *)
(* clock may advance between any two steps.                                *)
(***************************************************************************)
EXTENDS Integers, FiniteSets

CONSTANTS
    Timers,      \* Timer objects of a run
    Threads,     \* the threads that execute idle()
    Periods,     \* the values of m_ms
    Boot,        \* GetElapsedMS() when the manager is constructed
    MaxClock,    \* the last instant of a run
    Hour,        \* 60 * 60 * 1000 in detectClockRollover
    Word,        \* 2^64: uint64_t arithmetic is modulo Word
    IntHalf,     \* 2^31: int is -IntHalf .. IntHalf - 1
    MAX_TIMEOUT, \* the cap on epoll_wait's timeout
    Never,       \* no deadline
    MaxOwed      \* bound on inserters between unlock and tickle()

ASSUME ClockAssumption ==
    /\ Boot \in Nat /\ MaxClock \in Nat /\ Hour \in Nat
    /\ Boot <= MaxClock
    /\ Word \in Nat /\ MaxClock < Word /\ Hour < Word
    /\ IntHalf \in Nat \ {0} /\ Threads # {}
    /\ MAX_TIMEOUT \in 1..(IntHalf - 1)
    /\ Periods \subseteq Nat
    /\ Never \notin Int
    /\ MaxOwed \in Nat

VARIABLES
    clock,           \* CLOCK_MONOTONIC_RAW in ms
    phase,           \* unused, new (constructed by addTimer), added
    m_timers,        \* the set of the manager
    m_next, m_ms, m_recurring,
    m_cb,            \* TRUE: m_cb is not null
    m_tickled,
    m_previouseTime,
    owed,            \* inserters that still have to call tickle()
    signal,          \* the tickle pipe is on epoll's ready list
    pc,              \* out (running tasks), idle, asked, wait, peek, collect, sched
    now,             \* now_ms of the thread's listExpiredCb
    until,           \* the timeout it asked for, then when epoll_wait returns
    target,          \* the instant getNextTimer() told it to wake
    cbs,             \* the expired callbacks it has collected
    collected,       \* timers whose callback was ever collected
    cancelled        \* timers whose cancel() returned true

timerVars == <<phase, m_timers, m_next, m_ms, m_recurring, m_cb>>
tickleVars == <<m_tickled, owed, signal>>
threadVars == <<pc, now, until, target, cbs>>
history == <<collected, cancelled>>
vars == <<clock, timerVars, m_previouseTime, tickleVars, threadVars, history>>

ThreadPc == {"out", "idle", "asked", "wait", "peek", "collect", "sched"}

(* One type invariant for the manager, its timers and the idle threads.    *)
TypeOK ==
    /\ clock \in Boot..MaxClock
    /\ phase \in [Timers -> {"unused", "new", "added"}]
    /\ m_timers \in SUBSET Timers
    /\ m_next \in [Timers -> Nat]
    /\ m_ms \in [Timers -> Nat]
    /\ m_recurring \in [Timers -> BOOLEAN]
    /\ m_cb \in [Timers -> BOOLEAN]
    /\ m_tickled \in BOOLEAN
    /\ m_previouseTime \in Boot..MaxClock
    /\ owed \in 0..MaxOwed
    /\ signal \in BOOLEAN
    /\ pc \in [Threads -> ThreadPc]
    /\ now \in [Threads -> Boot..MaxClock]
    /\ until \in [Threads -> Int \cup {Never}]
    /\ target \in [Threads -> Int \cup {Never}]
    /\ cbs \in [Threads -> SUBSET Timers]
    /\ collected \in SUBSET Timers
    /\ cancelled \in SUBSET Timers

-----------------------------------------------------------------------------
(* State functions *)

\* Scheduler::hasIdleThreads
hasIdleThreads == \E th \in Threads : pc[th] # "out"

\* m_timers.begin() is one of these: equal m_next are ordered by address.
FrontOf(S, next) == {t \in S : \A u \in S : next[t] <= next[u]}

\* A uint64_t converted to int.
ToInt(x) == ((x + IntHalf) % (2 * IntHalf)) - IntHalf

\* The timeout idle() passes to epoll_wait for what getNextTimer() returned;
\* a negative one makes epoll_wait sleep without a limit.
EpollTimeout(next_timeout) ==
    IF next_timeout = Never THEN MAX_TIMEOUT
    ELSE LET i == ToInt(next_timeout)
             m == IF i < MAX_TIMEOUT THEN i ELSE MAX_TIMEOUT
         IN IF m < 0 THEN Never ELSE m

\* Mutant: without the margin of an hour.
detectClockRolloverNoMargin(now_ms) == now_ms < m_previouseTime

\* TimerManager::detectClockRollover, without its assignment.
detectClockRollover(now_ms) ==
    /\ now_ms < m_previouseTime
    /\ now_ms < (m_previouseTime - Hour) % Word

\* The timers listExpiredCb takes: all of them after a rollover, otherwise
\* lower_bound(now_ms) and the ones equal to it.
Expired(now_ms) ==
    IF detectClockRollover(now_ms) THEN m_timers
    ELSE {t \in m_timers : m_next[t] <= now_ms}

-----------------------------------------------------------------------------

Init ==
    /\ clock = Boot
    /\ phase = [t \in Timers |-> "unused"]
    /\ m_timers = {}
    /\ m_next = [t \in Timers |-> 0]
    /\ m_ms = [t \in Timers |-> 0]
    /\ m_recurring = [t \in Timers |-> FALSE]
    /\ m_cb = [t \in Timers |-> FALSE]
    /\ m_tickled = FALSE
    /\ m_previouseTime = Boot
    /\ owed = 0
    /\ signal = FALSE
    /\ pc = [th \in Threads |-> "out"]
    /\ now = [th \in Threads |-> Boot]
    /\ until = [th \in Threads |-> Never]
    /\ target = [th \in Threads |-> Never]
    /\ cbs = [th \in Threads |-> {}]
    /\ collected = {}
    /\ cancelled = {}

Tick ==
    /\ clock < MaxClock
    /\ clock' = clock + 1
    /\ UNCHANGED <<timerVars, m_previouseTime, tickleVars, threadVars, history>>

-----------------------------------------------------------------------------
(* Users of timers *)

\* TimerManager::addTimer(val, lock): insert t with its new m_next, and owe a
\* tickle when it came to the front and nobody has been tickled yet.
addTimer(t, next) ==
    /\ owed < MaxOwed
    /\ m_timers' = m_timers \cup {t}
    /\ \E front \in BOOLEAN :
        /\ front => t \in FrontOf(m_timers \cup {t}, next)
        /\ FrontOf(m_timers \cup {t}, next) = {t} => front
        /\ IF front /\ ~m_tickled
           THEN m_tickled' = TRUE /\ owed' = owed + 1
           ELSE UNCHANGED <<m_tickled, owed>>

\* new Timer(...): m_next is computed before the lock is taken.
NewTimer(t, ms, rec) ==
    /\ phase[t] = "unused"
    /\ phase' = [phase EXCEPT ![t] = "new"]
    /\ m_ms' = [m_ms EXCEPT ![t] = ms]
    /\ m_next' = [m_next EXCEPT ![t] = clock + ms]
    /\ m_recurring' = [m_recurring EXCEPT ![t] = rec]
    /\ m_cb' = [m_cb EXCEPT ![t] = TRUE]
    /\ UNCHANGED <<clock, m_timers, m_previouseTime, tickleVars, threadVars,
                   history>>

\* The rest of TimerManager::addTimer(ms, cb, recurring).
InsertTimer(t) ==
    /\ phase[t] = "new"
    /\ phase' = [phase EXCEPT ![t] = "added"]
    /\ addTimer(t, m_next)
    /\ UNCHANGED <<clock, m_next, m_ms, m_recurring, m_cb, m_previouseTime,
                   signal, threadVars, history>>

\* onTimerInsertedAtFront -> IOManager::tickle, after the lock is released.
tickle ==
    /\ owed > 0
    /\ owed' = owed - 1
    /\ signal' = (signal \/ hasIdleThreads)
    /\ UNCHANGED <<clock, timerVars, m_previouseTime, m_tickled, threadVars,
                   history>>

\* Mutant: cancel() does not look at m_cb.
cancelAlways(t) ==
    /\ phase[t] = "added"
    /\ m_cb' = [m_cb EXCEPT ![t] = FALSE]
    /\ m_timers' = m_timers \ {t}
    /\ cancelled' = cancelled \cup {t}
    /\ UNCHANGED <<clock, phase, m_next, m_ms, m_recurring, m_previouseTime,
                   tickleVars, threadVars, collected>>

\* Timer::cancel.  erase(it) needs find() to have found the timer.
cancel(t) ==
    /\ phase[t] = "added"
    /\ m_cb[t]
    /\ m_cb' = [m_cb EXCEPT ![t] = FALSE]
    /\ m_timers' = m_timers \ {t}
    /\ cancelled' = cancelled \cup {t}
    /\ UNCHANGED <<clock, phase, m_next, m_ms, m_recurring, m_previouseTime,
                   tickleVars, threadVars, collected>>

\* Timer::refresh: a full period from now.
refresh(t) ==
    /\ phase[t] = "added"
    /\ m_cb[t] /\ t \in m_timers
    /\ m_next' = [m_next EXCEPT ![t] = clock + m_ms[t]]
    /\ UNCHANGED <<clock, phase, m_timers, m_ms, m_recurring, m_cb,
                   m_previouseTime, tickleVars, threadVars, history>>

\* Timer::reset: a new period, from now or from when the old one began.
reset(t, ms, from_now) ==
    LET next == [m_next EXCEPT ![t] = (IF from_now THEN clock ELSE @ - m_ms[t]) + ms]
    IN
    /\ phase[t] = "added"
    /\ ~(ms = m_ms[t] /\ ~from_now)
    /\ m_cb[t] /\ t \in m_timers
    /\ m_next' = next
    /\ m_ms' = [m_ms EXCEPT ![t] = ms]
    /\ addTimer(t, next)
    /\ UNCHANGED <<clock, phase, m_recurring, m_cb, m_previouseTime, signal,
                   threadVars, history>>

-----------------------------------------------------------------------------
(* IOManager::idle, thread th *)

\* run() resumes the idle fiber: the thread counts as idle from here on.
EnterIdle(th) ==
    /\ pc[th] = "out"
    /\ pc' = [pc EXCEPT ![th] = "idle"]
    /\ UNCHANGED <<clock, timerVars, m_previouseTime, tickleVars, now, until,
                   target, cbs, history>>

\* Mutant: m_tickled is not cleared.
getNextTimerKeepsTickled(th) ==
    /\ pc[th] = "idle"
    /\ \/ /\ m_timers = {}
          /\ until' = [until EXCEPT ![th] = EpollTimeout(Never)]
          /\ target' = [target EXCEPT ![th] = Never]
       \/ \E t \in FrontOf(m_timers, m_next) :
          LET wait == IF clock >= m_next[t] THEN 0 ELSE m_next[t] - clock IN
          /\ until' = [until EXCEPT ![th] = EpollTimeout(wait)]
          /\ target' = [target EXCEPT ![th] = clock + wait]
    /\ pc' = [pc EXCEPT ![th] = "asked"]
    /\ UNCHANGED <<clock, timerVars, m_previouseTime, tickleVars, now, cbs,
                   history>>

\* TimerManager::getNextTimer: Never stands for ~0ull.
getNextTimer(th) ==
    /\ pc[th] = "idle"
    /\ m_tickled' = FALSE
    /\ \/ /\ m_timers = {}
          /\ until' = [until EXCEPT ![th] = EpollTimeout(Never)]
          /\ target' = [target EXCEPT ![th] = Never]
       \/ \E t \in FrontOf(m_timers, m_next) :
          LET wait == IF clock >= m_next[t] THEN 0 ELSE m_next[t] - clock IN
          /\ until' = [until EXCEPT ![th] = EpollTimeout(wait)]
          /\ target' = [target EXCEPT ![th] = clock + wait]
    /\ pc' = [pc EXCEPT ![th] = "asked"]
    /\ UNCHANGED <<clock, timerVars, m_previouseTime, owed, signal, now, cbs,
                   history>>

\* epoll_wait starts to sleep.
Sleep(th) ==
    /\ pc[th] = "asked"
    /\ until' = [until EXCEPT ![th] = IF @ = Never THEN Never ELSE clock + @]
    /\ pc' = [pc EXCEPT ![th] = "wait"]
    /\ UNCHANGED <<clock, timerVars, m_previouseTime, tickleVars, now, target,
                   cbs, history>>

\* epoll_wait returns: on its timeout, with the pipe, or with an IO event,
\* which may come at any time; listExpiredCb begins by reading the clock.
Wake(th) ==
    /\ pc[th] = "wait"
    /\ signal' \in {signal, FALSE}
    /\ now' = [now EXCEPT ![th] = clock]
    /\ until' = [until EXCEPT ![th] = Never]
    /\ target' = [target EXCEPT ![th] = Never]
    /\ pc' = [pc EXCEPT ![th] = "peek"]
    /\ UNCHANGED <<clock, timerVars, m_previouseTime, m_tickled, owed, cbs,
                   history>>

\* listExpiredCb, the read lock: nothing to do without timers.
Peek(th) ==
    /\ pc[th] = "peek"
    /\ pc' = [pc EXCEPT ![th] = IF m_timers = {} THEN "out" ELSE "collect"]
    /\ UNCHANGED <<clock, timerVars, m_previouseTime, tickleVars, now, until,
                   target, cbs, history>>

\* listExpiredCb, the write lock: take the expired timers out, put recurring
\* ones back, and copy the callbacks.
listExpiredCb(th) ==
    LET expired == Expired(now[th])
        again == {t \in expired : m_recurring[t]} IN
    /\ pc[th] = "collect"
    /\ m_previouseTime' = IF m_timers = {} THEN m_previouseTime ELSE now[th]
    /\ m_timers' = (m_timers \ expired) \cup again
    /\ m_next' = [t \in Timers |-> IF t \in again THEN now[th] + m_ms[t] ELSE m_next[t]]
    /\ m_cb' = [t \in Timers |-> m_cb[t] /\ t \notin expired \ again]
    /\ cbs' = [cbs EXCEPT ![th] = expired]
    /\ collected' = collected \cup expired
    /\ pc' = [pc EXCEPT ![th] = "sched"]
    /\ UNCHANGED <<clock, phase, m_ms, m_recurring, tickleVars, now, until,
                   target, cancelled>>

\* The callbacks are scheduled and the idle fiber yields.
ScheduleCbs(th) ==
    /\ pc[th] = "sched"
    /\ cbs' = [cbs EXCEPT ![th] = {}]
    /\ now' = [now EXCEPT ![th] = Boot]
    /\ pc' = [pc EXCEPT ![th] = "out"]
    /\ UNCHANGED <<clock, timerVars, m_previouseTime, tickleVars, until, target,
                   history>>

-----------------------------------------------------------------------------

UserStep ==
    \E t \in Timers :
        \/ \E ms \in Periods, rec \in BOOLEAN : NewTimer(t, ms, rec)
        \/ InsertTimer(t) \/ cancel(t) \/ refresh(t)
        \/ \E ms \in Periods, from_now \in BOOLEAN : reset(t, ms, from_now)

IdleStep(th) ==
    \/ EnterIdle(th) \/ getNextTimer(th) \/ Sleep(th) \/ Wake(th)
    \/ Peek(th) \/ listExpiredCb(th) \/ ScheduleCbs(th)

Next == Tick \/ UserStep \/ tickle \/ \E th \in Threads : IdleStep(th)

Spec == Init /\ [][Next]_vars

-----------------------------------------------------------------------------
(* Properties *)

(* A timer that addTimer has returned has its callback exactly while it is *)
(* in m_timers.  cancel() relies on it: erase(find(...)) on a timer that   *)
(* is not there would be undefined.                                        *)
CallbackMeansMember ==
    \A t \in Timers : phase[t] = "added" => (m_cb[t] <=> t \in m_timers)

(* No callback is collected before its timer is due, even when two idle    *)
(* threads bring their clock readings to listExpiredCb in the wrong order. *)
NoEarlyFire ==
    [][\A th \in Threads : \A t \in cbs'[th] \ cbs[th] : m_next[t] <= clock]_vars

(* timer.cc: with CLOCK_MONOTONIC_RAW "the clock cannot go back", so       *)
(* detectClockRollover never answers true.  Holds only when the host has   *)
(* been up for Hour: with Boot < Hour the subtraction wraps around.        *)
NoRollover ==
    \A th \in Threads : pc[th] = "collect" => ~detectClockRollover(now[th])

(* A one-shot timer has one fate: its callback is collected, or cancel()   *)
(* returned true and it never is.                                          *)
OneShotFate ==
    \A t \in Timers : ~m_recurring[t] => ~(t \in collected /\ t \in cancelled)

(* cancel() is exact: it meets its timer in the set whenever it acts, and  *)
(* what it has cancelled does not fire.                                    *)
CancelIsExact == CallbackMeansMember /\ OneShotFate

(* A one-shot timer is collected once.                                     *)
FiresOnce ==
    [][\A t \in collected : ~m_recurring[t] =>
         \A th \in Threads : t \notin cbs'[th] \ cbs[th]]_vars

(* No timer is overlooked: while one is in the set, some thread is awake   *)
(* and will ask for it, or sleeps no longer than until it is due, or a     *)
(* tickle is on its way.  This is what m_tickled may not break when it     *)
(* suppresses tickles.  And no thread sleeps for ever: iomanager.cc caps   *)
(* the timeout for the case that a timer is far away.                      *)
Watched ==
    /\ \A t \in m_timers :
        \/ signal \/ owed > 0
        \/ \E th \in Threads :
            \/ pc[th] \notin {"asked", "wait"}
            \/ target[th] # Never /\ target[th] <= m_next[t]
            \/ target[th] # Never /\ target[th] <= clock
    /\ \A th \in Threads : pc[th] = "wait" => until[th] # Never
=============================================================================
