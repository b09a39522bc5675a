------------------------------- MODULE HookIO -------------------------------
(***************************************************************************)
(* The hooked socket calls: do_io (read, recv, send, accept, ...) and      *)
(* connect_with_timeout of gxh/hook.cc, with their condition timers and    *)
(* the hooked close().                                                     *)
(*                                                                         *)
(* A call that would block adds a timer, registers its fiber for the       *)
(* event, and yields.  It is resumed by the event, by close(), or by the   *)
(* timer's callback, which runs on some other thread: it notes the timeout *)
(* in the call's timer_info and then cancels "the event of fd", whoever    *)
(* has registered it by then.                                              *)
(*                                                                         *)
(* One descriptor number, which may be closed and used again.  FdEvents    *)
(* has the details of the event, TimerManager those of the timer.          *)
(***************************************************************************)
EXTENDS Naturals, FiniteSets

CONSTANTS
    Calls,      \* the hooked calls of a run
    Kind,       \* what each one is: READ, WRITE (do_io) or CONNECT
    Timed,      \* the calls with a timeout (to # -1)
    NoCall,
    MaxTries,   \* bound on the times a call finds EAGAIN
    MaxFiles,   \* bound on the files that get the number
    Exclusive   \* TRUE: the number is used again only when the calls on the
                \* file that was closed have returned

Event == {"READ", "WRITE"}

Dir(c) == IF Kind[c] = "READ" THEN "READ" ELSE "WRITE"

Try == 1..MaxTries

ASSUME CallsAssumption ==
    /\ Kind \in [Calls -> {"READ", "WRITE", "CONNECT"}]
    /\ Timed \subseteq Calls
    /\ NoCall \notin Calls
    /\ MaxTries \in Nat /\ MaxFiles \in Nat
    /\ Exclusive \in BOOLEAN

VARIABLES
    pc,         \* out, call, armed (timer added), wait (yielded), woken, done
    result,     \* none, ok, timeout, error
    cancelled,  \* timer_info::cancelled of the call
    tries,      \* how often it has found EAGAIN
    m_timers,   \* its timers: <<call, try>>
    cbs,        \* callbacks of expired timers that have not run yet
    late,       \* callbacks between t->cancelled = ETIMEDOUT and cancelEvent
    events,     \* the call registered for each direction
    file,       \* open, closing, closed
    gen,        \* which file has the number
    of,         \* the file a call was made on
    ready,      \* directions that would not block
    conn,       \* none, progress, up, refused
    expired,    \* history: calls one of whose timers expired
    stray,      \* history: calls woken by the callback of another call
    shut,       \* history: connects woken by the cancelAll of close()
    inside,     \* history: calls that wait for an event they registered
                \* between the cancelAll and the real close of close()
    misled,     \* history: connects that returned 0 without a connection
    aborted     \* the assertion of addEvent has failed

callVars == <<pc, result, cancelled, tries, of, misled>>
timerVars == <<m_timers, cbs, late, expired, stray>>
eventVars == <<events, shut, inside, aborted>>
fileVars == <<file, gen, ready, conn>>
vars == <<callVars, timerVars, eventVars, fileVars>>

(* One type invariant for calls, timers and the descriptor.                *)
TypeOK ==
    /\ pc \in [Calls -> {"out", "call", "armed", "wait", "woken", "done"}]
    /\ result \in [Calls -> {"none", "ok", "timeout", "error"}]
    /\ cancelled \in [Calls -> BOOLEAN]
    /\ tries \in [Calls -> 0..MaxTries]
    /\ m_timers \in SUBSET (Calls \X Try)
    /\ cbs \in SUBSET (Calls \X Try)
    /\ late \in SUBSET Calls
    /\ events \in [Event -> Calls \cup {NoCall}]
    /\ file \in {"open", "closing", "closed"}
    /\ gen \in 0..MaxFiles
    /\ of \in [Calls -> 0..MaxFiles]
    /\ ready \in SUBSET Event
    /\ conn \in {"none", "progress", "up", "refused"}
    /\ expired \in SUBSET Calls
    /\ stray \in SUBSET Calls
    /\ misled \in SUBSET Calls
    /\ shut \in SUBSET Calls
    /\ inside \in SUBSET Calls
    /\ aborted \in BOOLEAN

-----------------------------------------------------------------------------

Init ==
    /\ pc = [c \in Calls |-> "out"]
    /\ result = [c \in Calls |-> "none"]
    /\ cancelled = [c \in Calls |-> FALSE]
    /\ tries = [c \in Calls |-> 0]
    /\ m_timers = {} /\ cbs = {} /\ late = {}
    /\ events = [e \in Event |-> NoCall]
    /\ file = "open" /\ gen = 0
    /\ of = [c \in Calls |-> 0]
    /\ ready = {} /\ conn = "up"
    /\ expired = {} /\ stray = {} /\ misled = {} /\ shut = {} /\ inside = {}
    /\ aborted = FALSE

InProgress(c) == pc[c] \notin {"out", "done"}

\* The call returns r.  Its timer_info is freed.
Finish(c, r) ==
    /\ pc' = [pc EXCEPT ![c] = "done"]
    /\ result' = [result EXCEPT ![c] = r]

\* timer->cancel(): the timer of the present try, unless it has expired.
CancelTimer(c) == m_timers' = m_timers \ {<<c, tries[c]>>}

-----------------------------------------------------------------------------
(* The kernel and the user *)

\* The peer sends, reads, answers or refuses ...
Edge(e) ==
    /\ file # "closed"
    /\ ready' = ready \cup {e}
    /\ \/ conn = "up" /\ UNCHANGED conn
       \/ conn = "progress" /\ e = "WRITE" /\ conn' \in {"up", "refused"}
    /\ UNCHANGED <<callVars, timerVars, eventVars, file, gen>>

\* ... and what was ready is taken or withdrawn: the buffer is drained or
\* full, a connection is aborted before it is accepted.
Taken(e) == ready' \in {ready, ready \ {e}}

\* A fiber makes the call: connect on a new socket, the others on one that
\* is connected.  A direction is used by one fiber.
Begin(c) ==
    /\ pc[c] = "out"
    /\ file # "closed"
    /\ conn = IF Kind[c] = "CONNECT" THEN "none" ELSE "up"
    /\ \A d \in Calls : InProgress(d) /\ of[d] = gen => Dir(d) # Dir(c)
    /\ pc' = [pc EXCEPT ![c] = "call"]
    /\ of' = [of EXCEPT ![c] = gen]
    /\ UNCHANGED <<result, cancelled, tries, misled, timerVars, eventVars, fileVars>>

-----------------------------------------------------------------------------
(* do_io and connect_with_timeout *)

\* Mutant: the timer is only added the first time.
WouldBlockOnce(c) ==
    /\ tries[c] < MaxTries
    /\ tries' = [tries EXCEPT ![c] = @ + 1]
    /\ m_timers' = m_timers \cup
         (IF c \in Timed /\ tries[c] = 0 THEN {<<c, 1>>} ELSE {})
    /\ pc' = [pc EXCEPT ![c] = "armed"]
    /\ UNCHANGED result

\* EAGAIN or EINPROGRESS: addConditionTimer, if there is a timeout.
WouldBlock(c) ==
    /\ tries[c] < MaxTries
    /\ tries' = [tries EXCEPT ![c] = @ + 1]
    /\ m_timers' = m_timers \cup (IF c \in Timed THEN {<<c, tries[c] + 1>>} ELSE {})
    /\ pc' = [pc EXCEPT ![c] = "armed"]
    /\ UNCHANGED result

\* The real call: it succeeds, fails, or would block.
Transfer(c) ==
    /\ UNCHANGED conn
    /\ \/ Dir(c) \in ready /\ Finish(c, "ok") /\ Taken(Dir(c)) /\ UNCHANGED <<tries, m_timers>>
       \/ Dir(c) \notin ready /\ WouldBlock(c) /\ UNCHANGED ready

Connect(c) ==
    /\ UNCHANGED ready
    /\ \/ conn' = "up" /\ Finish(c, "ok") /\ UNCHANGED <<tries, m_timers>>
       \/ conn' = "refused" /\ Finish(c, "error") /\ UNCHANGED <<tries, m_timers>>
       \/ conn' = "progress" /\ WouldBlock(c)

\* On a closed descriptor it fails.  One that begins inside close() may find
\* the FdCtx deleted and returns what the non-blocking call says.
Call(c) ==
    /\ pc[c] = "call"
    /\ \/ /\ file = "closed" \/ (file = "closing" /\ tries[c] = 0)
          /\ Finish(c, "error")
          /\ UNCHANGED <<tries, m_timers, ready, conn>>
       \/ file # "closed" /\ Kind[c] # "CONNECT" /\ Transfer(c)
       \/ file # "closed" /\ Kind[c] = "CONNECT" /\ Connect(c)
    /\ UNCHANGED <<cancelled, of, misled, cbs, late, expired, stray, eventVars, file, gen>>

\* addEvent and yield.  Nobody may be registered for the direction.  On a
\* closed descriptor addEvent fails; connect then asks for SO_ERROR, which
\* fails too.
addEvent(c) ==
    /\ pc[c] = "armed"
    /\ \/ /\ events[Dir(c)] # NoCall
          /\ aborted' = TRUE
          /\ UNCHANGED <<pc, result, m_timers, events, inside>>
       \/ /\ events[Dir(c)] = NoCall /\ file # "closed"
          /\ events' = [events EXCEPT ![Dir(c)] = c]
          /\ inside' = IF file = "closing" THEN inside \cup {c} ELSE inside
          /\ pc' = [pc EXCEPT ![c] = "wait"]
          /\ UNCHANGED <<result, m_timers, aborted>>
       \/ /\ events[Dir(c)] = NoCall /\ file = "closed"
          /\ CancelTimer(c)
          /\ Finish(c, "error")
          /\ UNCHANGED <<events, inside, aborted>>
    /\ UNCHANGED <<cancelled, tries, of, misled, cbs, late, expired, stray, shut, fileVars>>

\* SO_ERROR as connect_with_timeout reads it: 0 unless the attempt failed.
SO_ERROR == IF file = "closed" \/ conn = "refused" THEN "error" ELSE "ok"

\* Mutant: t->cancelled is not looked at.
ResumeIgnoresTimeout(c) ==
    /\ pc[c] = "woken"
    /\ CancelTimer(c)
    /\ IF Kind[c] = "CONNECT"
       THEN Finish(c, SO_ERROR)
       ELSE pc' = [pc EXCEPT ![c] = "call"] /\ UNCHANGED result
    /\ misled' = IF Kind[c] = "CONNECT" /\ SO_ERROR = "ok" /\ conn # "up"
                 THEN misled \cup {c} ELSE misled
    /\ UNCHANGED <<cancelled, tries, of, cbs, late, expired, stray, eventVars, fileVars>>

\* The fiber runs again: cancel the timer, then look for a timeout; do_io
\* tries again, connect asks for SO_ERROR.
Resume(c) ==
    /\ pc[c] = "woken"
    /\ CancelTimer(c)
    /\ \/ /\ cancelled[c]
          /\ Finish(c, "timeout")
          /\ UNCHANGED misled
       \/ /\ ~cancelled[c] /\ Kind[c] # "CONNECT"
          /\ pc' = [pc EXCEPT ![c] = "call"]
          /\ UNCHANGED <<result, misled>>
       \/ /\ ~cancelled[c] /\ Kind[c] = "CONNECT"
          /\ Finish(c, SO_ERROR)
          /\ misled' = IF SO_ERROR = "ok" /\ conn # "up" THEN misled \cup {c} ELSE misled
    /\ UNCHANGED <<cancelled, tries, of, cbs, late, expired, stray, eventVars, fileVars>>

-----------------------------------------------------------------------------
(* What wakes a waiting call *)

\* The event is triggered: its fiber is scheduled.
triggerEvent(e) ==
    /\ pc' = [pc EXCEPT ![events[e]] = "woken"]
    /\ events' = [events EXCEPT ![e] = NoCall]
    /\ inside' = inside \ {events[e]}
    /\ UNCHANGED <<shut, aborted>>

\* The kernel reports nothing of a closed descriptor.
Report(e) ==
    /\ events[e] # NoCall
    /\ e \in ready /\ file # "closed"
    /\ triggerEvent(e)
    /\ Taken(e)
    /\ UNCHANGED <<result, cancelled, tries, of, misled, timerVars, file, gen, conn>>

\* listExpiredCb takes the callback of a timer that is due.
Expire(c, k) ==
    /\ <<c, k>> \in m_timers
    /\ m_timers' = m_timers \ {<<c, k>>}
    /\ cbs' = cbs \cup {<<c, k>>}
    /\ expired' = expired \cup {c}
    /\ UNCHANGED <<callVars, late, stray, eventVars, fileVars>>

\* The callback: nothing to do when the call has returned (winfo.lock()
\* fails) or has timed out before.  Otherwise note the timeout ...
Callback(c, k) ==
    /\ <<c, k>> \in cbs
    /\ cbs' = cbs \ {<<c, k>>}
    /\ IF pc[c] = "done" \/ cancelled[c]
       THEN UNCHANGED <<cancelled, late>>
       ELSE /\ cancelled' = [cancelled EXCEPT ![c] = TRUE]
            /\ late' = late \cup {c}
    /\ UNCHANGED <<pc, result, tries, of, misled, m_timers, expired, stray,
                   eventVars, fileVars>>

\* Mutant: cancelEvent does not trigger the event.
cancelEventSilent(c) ==
    /\ c \in late
    /\ late' = late \ {c}
    /\ events' = [events EXCEPT ![Dir(c)] = NoCall]
    /\ UNCHANGED <<callVars, m_timers, cbs, expired, stray, shut, inside, aborted, fileVars>>

\* ... and cancel the event of the descriptor.
cancelEvent(c) ==
    /\ c \in late
    /\ late' = late \ {c}
    /\ IF events[Dir(c)] # NoCall /\ file # "closed"
       THEN /\ triggerEvent(Dir(c))
            /\ stray' = stray \cup ({events[Dir(c)]} \ {c})
       ELSE UNCHANGED <<pc, stray, eventVars>>
    /\ UNCHANGED <<result, cancelled, tries, of, misled, m_timers, cbs, expired,
                   fileVars>>

\* cancelAll: both directions.
cancelAll ==
    /\ shut' = shut \cup {c \in Calls : Kind[c] = "CONNECT" /\ \E e \in Event : events[e] = c}
    /\ inside' = {}
    /\ UNCHANGED aborted
    /\ pc' = [c \in Calls |->
                IF \E e \in Event : events[e] = c THEN "woken" ELSE pc[c]]
    /\ events' = [e \in Event |-> NoCall]

\* Mutant: close() does not cancel the events.
CloseBeginNoCancel ==
    /\ file = "open"
    /\ file' = "closing"
    /\ UNCHANGED <<callVars, timerVars, eventVars, gen, ready, conn>>

\* close(): cancelAll, then del and the real close, with the steps of calls
\* on other threads between the two.
CloseBegin ==
    /\ file = "open"
    /\ file' = "closing"
    /\ cancelAll
    /\ UNCHANGED <<result, cancelled, tries, of, misled, timerVars, gen, ready,
                   conn>>

CloseEnd ==
    /\ file = "closing"
    /\ file' = "closed"
    /\ UNCHANGED <<callVars, timerVars, eventVars, gen, ready, conn>>

\* socket() or accept() returns the number for another file.
Reopen ==
    /\ file = "closed" /\ gen < MaxFiles
    /\ Exclusive => \A c \in Calls : ~InProgress(c)
    /\ file' = "open"
    /\ gen' = gen + 1
    /\ ready' = {} /\ conn' \in {"none", "up"}
    /\ UNCHANGED <<callVars, timerVars, eventVars>>

-----------------------------------------------------------------------------

\* What the fiber of a call does once it is scheduled.
FiberStep(c) == ~aborted /\ (Call(c) \/ addEvent(c) \/ Resume(c))

TimerStep(c) ==
    /\ ~aborted
    /\ \/ \E k \in Try : Expire(c, k) \/ Callback(c, k)
       \/ cancelEvent(c)

Next ==
    \/ \E c \in Calls : FiberStep(c) \/ TimerStep(c)
    \/ /\ ~aborted
       /\ \/ \E c \in Calls : Begin(c)
          \/ \E e \in Event : Edge(e) \/ Report(e)
          \/ CloseBegin \/ CloseEnd \/ Reopen

Spec == Init /\ [][Next]_vars

(* Fairness: a fiber that can run is run (Scheduler shows it), timers      *)
(* expire and callbacks run, and the thread inside close() goes on.        *)
Fairness ==
    /\ \A c \in Calls : WF_vars(FiberStep(c)) /\ WF_vars(TimerStep(c))
    /\ WF_vars(~aborted /\ CloseEnd)

FairSpec == Spec /\ Fairness

-----------------------------------------------------------------------------
(* Properties *)

(* ETIMEDOUT is only returned by a call one of whose own timers expired,   *)
(* although a late callback may cancel the event of another call on the    *)
(* same descriptor, or on the next file with that number.                  *)
TimeoutIsReal == \A c \in Calls : result[c] = "timeout" => c \in expired

(* A fiber that yields in a hooked call is registered, and what is         *)
(* registered is a fiber that has yielded: no trigger, cancel or close     *)
(* loses a fiber or wakes one twice.  No timer outlives its call: every    *)
(* way out of do_io and connect_with_timeout has cancelled it, and a call  *)
(* never has two.                                                          *)
WaiterHasWaker ==
    /\ TypeOK
    /\ \A c \in Calls : pc[c] = "wait" <=> \E e \in Event : events[e] = c
    /\ \A p \in m_timers : InProgress(p[1]) /\ p[2] = tries[p[1]]

(* The timeout of a call that waits is still to come, as long as none has  *)
(* been noted: its timer runs or its callback is about to.                 *)
TimeoutStillComes ==
    \A c \in Timed : pc[c] = "wait" /\ ~cancelled[c] =>
        \E k \in Try : <<c, k>> \in m_timers \cup cbs

(* connect returns 0 without a connection only when something other than   *)
(* its socket has woken it: the late callback of an earlier call on the    *)
(* same number, or close() on another thread, when connect asks for        *)
(* SO_ERROR before the real close.  Its own timeout is told apart from the *)
(* socket's answer.                                                        *)
ConnectIsReal == misled \subseteq stray \cup shut

(* What a hooked call returns is so: the timeout, and the connection; and  *)
(* no two calls meet in the registration of one direction, which addEvent  *)
(* asserts.                                                                *)
ResultIsReal == TimeoutIsReal /\ ConnectIsReal /\ ~aborted

(* After close() every call on the descriptor returns, with one exception: *)
(* a call that another thread resumes between the cancelAll and the real   *)
(* close, that finds nothing to read or no room to write, and that         *)
(* registers again.  It waits for an event that cannot come, and its       *)
(* timeout, if it has one, cannot cancel the event of a closed descriptor. *)
CloseReleases ==
    \A c \in Calls : InProgress(c) /\ file = "closed" ~> ~InProgress(c) \/ c \in inside
=============================================================================
