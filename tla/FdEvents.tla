------------------------------- MODULE FdEvents -------------------------------
(***************************************************************************)
(* The IO events of file descriptors: FdContext, addEvent, delEvent,       *)
(* cancelEvent, cancelAll and the event loop of idle() in                  *)
(* gxh/iomanager.cc, with the epoll instance they drive.                   *)
(*                                                                         *)
(* Every operation holds the FdContext's mutex while it calls epoll_ctl    *)
(* and changes the context.  An idle thread gets its reports from          *)
(* epoll_wait without that mutex and takes it report by report afterwards, *)
(* so a report may be stale when it is handled.  The descriptor may be     *)
(* closed and its number reused in between.                                *)
(*                                                                         *)
(* A direction of a descriptor (READ or WRITE) is used by one fiber.       *)
(***************************************************************************)
EXTENDS Naturals, FiniteSets

CONSTANTS
    Fds,        \* file descriptor numbers
    Pollers,    \* threads in idle()
    Uses,       \* the directions of a descriptor that fibers wait for
    Exclusive   \* TRUE: nobody registers while the descriptor is being closed

Event == {"READ", "WRITE"}

ASSUME UsesAssumption == Uses \in [Fds -> SUBSET Event]
ASSUME FdsAssumption == IsFiniteSet(Fds) /\ Exclusive \in BOOLEAN

VARIABLES
    events,              \* FdContext::events
    ctx,                 \* the directions whose EventContext is filled
    m_pendingEventCount,
    waiting,             \* the directions whose fiber has yielded
    interest,            \* what epoll watches; {}: not in the epoll set
    cond,                \* the state of the file: READ, WRITE, HUP (or ERR)
    armed,               \* the descriptor is on epoll's ready list (EPOLLET)
    file,                \* open, closing (inside the hooked close), closed
    batch,               \* the reports a thread got from epoll_wait
    fault                \* the first failed assertion

kernelVars == <<interest, cond, armed>>
contextVars == <<events, ctx, m_pendingEventCount, waiting>>
fdVars == <<contextVars, kernelVars, file, batch, fault>>

Report == [fd : Fds, ev : SUBSET (Event \cup {"HUP"})]

(* One type invariant for the contexts, the epoll set and the reports.     *)
FdTypeOK ==
    /\ events \in [Fds -> SUBSET Event]
    /\ ctx \in [Fds -> SUBSET Event]
    /\ m_pendingEventCount \in Nat
    /\ waiting \in [Fds -> SUBSET Event]
    /\ interest \in [Fds -> SUBSET Event]
    /\ cond \in [Fds -> SUBSET (Event \cup {"HUP"})]
    /\ armed \in [Fds -> BOOLEAN]
    /\ file \in [Fds -> {"open", "closing", "closed"}]
    /\ batch \in [Pollers -> SUBSET Report]
    /\ fault \in {"none", "trigger", "duplicate", "context"}

FdInit ==
    /\ events = [fd \in Fds |-> {}]
    /\ ctx = [fd \in Fds |-> {}]
    /\ m_pendingEventCount = 0
    /\ waiting = [fd \in Fds |-> {}]
    /\ interest = [fd \in Fds |-> {}]
    /\ cond = [fd \in Fds |-> {}]
    /\ armed = [fd \in Fds |-> FALSE]
    /\ file = [fd \in Fds |-> "open"]
    /\ batch = [th \in Pollers |-> {}]
    /\ fault = "none"

-----------------------------------------------------------------------------
(* The kernel, as epoll(7) specifies it *)

\* epoll_ctl succeeds: ADD of an absent descriptor, MOD or DEL of a present.
CtlOk(fd, add) == file[fd] # "closed" /\ (add <=> interest[fd] = {})

\* ADD and MOD look at the file: what is ready already is reported again.
epoll_ctl(fd, new) ==
    /\ interest' = [interest EXCEPT ![fd] = new]
    /\ armed' = [armed EXCEPT
         ![fd] = new # {} /\ (@ \/ cond[fd] \cap (new \cup {"HUP"}) # {})]
    /\ UNCHANGED cond

\* Data or space arrives, or the peer hangs up: an edge.
Edge(fd, c) ==
    /\ file[fd] # "closed"
    /\ cond' = [cond EXCEPT ![fd] = @ \cup {c}]
    /\ armed' = [armed EXCEPT
         ![fd] = @ \/ (interest[fd] # {} /\ c \in interest[fd] \cup {"HUP"})]
    /\ UNCHANGED <<contextVars, interest, file, batch, fault>>

\* The running fiber of a direction reads or writes until EAGAIN.
Drain(fd, e) ==
    /\ e \in Uses[fd] \ waiting[fd]
    /\ e \in cond[fd]
    /\ file[fd] # "closed"
    /\ cond' = [cond EXCEPT ![fd] = @ \ {e}]
    /\ UNCHANGED <<contextVars, interest, armed, file, batch, fault>>

-----------------------------------------------------------------------------
(* Registering and removing events *)

\* addEvent(fd, e), then yield.  A failing epoll_ctl changes nothing.
addEvent(fd, e) ==
    /\ e \in Uses[fd] \ waiting[fd]
    /\ file[fd] = "open" \/ (file[fd] = "closing" /\ ~Exclusive)
    /\ \/ /\ e \in events[fd]
          /\ fault' = "duplicate"
          /\ UNCHANGED <<contextVars, kernelVars>>
       \/ /\ e \notin events[fd] /\ CtlOk(fd, events[fd] = {})
          /\ epoll_ctl(fd, events[fd] \cup {e})
          /\ m_pendingEventCount' = m_pendingEventCount + 1
          /\ events' = [events EXCEPT ![fd] = @ \cup {e}]
          /\ fault' = IF e \in ctx[fd] THEN "context" ELSE fault
          /\ ctx' = [ctx EXCEPT ![fd] = @ \cup {e}]
          /\ waiting' = [waiting EXCEPT ![fd] = @ \cup {e}]
    /\ UNCHANGED <<file, batch>>

\* Clear a set of registered events and their contexts.
Clear(fd, E) ==
    /\ events' = [events EXCEPT ![fd] = @ \ E]
    /\ ctx' = [ctx EXCEPT ![fd] = @ \ E]
    /\ waiting' = [waiting EXCEPT ![fd] = @ \ E]
    /\ m_pendingEventCount' = m_pendingEventCount - Cardinality(E)

\* triggerEvent(e) for each e of E: assert it is registered, clear it and
\* schedule its fiber.
triggerEvent(fd, E) == E \subseteq events[fd] /\ Clear(fd, E)

\* Mutant: the descriptor leaves epoll although the other event is waited for.
cancelEventDeletes(fd, e) ==
    /\ e \in events[fd]
    /\ CtlOk(fd, FALSE)
    /\ epoll_ctl(fd, {})
    /\ triggerEvent(fd, {e})
    /\ UNCHANGED <<file, batch, fault>>

\* cancelEvent(fd, e): remove it and trigger it once.
cancelEvent(fd, e) ==
    /\ e \in events[fd]
    /\ CtlOk(fd, FALSE)
    /\ epoll_ctl(fd, events[fd] \ {e})
    /\ triggerEvent(fd, {e})
    /\ UNCHANGED <<file, batch, fault>>

\* delEvent(fd, e): remove it; nobody waits for it any more.
delEvent(fd, e) ==
    /\ e \in events[fd]
    /\ CtlOk(fd, FALSE)
    /\ epoll_ctl(fd, events[fd] \ {e})
    /\ Clear(fd, {e})
    /\ UNCHANGED <<file, batch, fault>>

\* Mutant: one decrement for both directions.
cancelAllCountsOnce(fd) ==
    /\ events[fd] # {}
    /\ CtlOk(fd, FALSE)
    /\ epoll_ctl(fd, {})
    /\ events' = [events EXCEPT ![fd] = {}]
    /\ ctx' = [ctx EXCEPT ![fd] = {}]
    /\ waiting' = [waiting EXCEPT ![fd] = {}]
    /\ m_pendingEventCount' = m_pendingEventCount - 1

\* cancelAll(fd): remove the descriptor from epoll, trigger what it has.
cancelAll(fd) ==
    /\ events[fd] # {}
    /\ CtlOk(fd, FALSE)
    /\ epoll_ctl(fd, {})
    /\ triggerEvent(fd, events[fd])

\* The hooked close(): cancelAll first ...
CloseBegin(fd) ==
    /\ file[fd] = "open"
    /\ file' = [file EXCEPT ![fd] = "closing"]
    /\ IF events[fd] # {} THEN cancelAll(fd)
       ELSE UNCHANGED <<contextVars, kernelVars>>
    /\ UNCHANGED <<batch, fault>>

\* ... then the real close, which takes the file out of the epoll set.
CloseEnd(fd) ==
    /\ file[fd] = "closing"
    /\ file' = [file EXCEPT ![fd] = "closed"]
    /\ interest' = [interest EXCEPT ![fd] = {}]
    /\ armed' = [armed EXCEPT ![fd] = FALSE]
    /\ cond' = [cond EXCEPT ![fd] = {}]
    /\ UNCHANGED <<contextVars, batch, fault>>

\* socket() or accept() returns the number again, to new fibers.
Reopen(fd) ==
    /\ file[fd] = "closed"
    /\ file' = [file EXCEPT ![fd] = "open"]
    /\ waiting' = [waiting EXCEPT ![fd] = {}]
    /\ UNCHANGED <<events, ctx, m_pendingEventCount, kernelVars, batch, fault>>

-----------------------------------------------------------------------------
(* idle() on thread th *)

\* epoll_wait returns reports for some of the ready descriptors (at most
\* MAX_EVENTS); each is off the ready list then.
epoll_wait(th) ==
  \E S \in SUBSET {fd \in Fds : armed[fd]} :
    /\ S # {}
    /\ batch[th] = {}
    /\ armed' = [fd \in Fds |-> armed[fd] /\ fd \notin S]
    /\ batch' = [batch EXCEPT ![th] =
         {r \in {[fd |-> fd, ev |-> cond[fd] \cap (interest[fd] \cup {"HUP"})] : fd \in S} :
            r.ev # {}}]
    /\ UNCHANGED <<contextVars, interest, cond, file, fault>>

\* Mutant: a hang-up is not turned into the registered events.
RealEventsNoHup(r) == r.ev \cap Event

\* What a report is taken to mean: an error or a hang-up stands for all that
\* is registered now.
RealEvents(r) ==
    (r.ev \cap Event) \cup (IF "HUP" \in r.ev THEN events[r.fd] ELSE {})

\* One report, under the FdContext's mutex.
Handle(th, r) ==
    LET fd == r.fd
        real == RealEvents(r) IN
    /\ batch' = [batch EXCEPT ![th] = @ \ {r}]
    /\ IF events[fd] \cap real = {} \/ ~CtlOk(fd, FALSE)
       THEN UNCHANGED <<contextVars, kernelVars, fault>>
       ELSE \/ /\ epoll_ctl(fd, events[fd] \ real)
               /\ triggerEvent(fd, real)
               /\ UNCHANGED fault
            \/ /\ ~(real \subseteq events[fd])      \* GXH_ASSERT(events & event)
               /\ fault' = "trigger"
               /\ UNCHANGED <<contextVars, kernelVars>>
    /\ UNCHANGED file

-----------------------------------------------------------------------------

FdStep(fd) ==
    \/ \E c \in Event \cup {"HUP"} : Edge(fd, c)
    \/ \E e \in Event : Drain(fd, e) \/ addEvent(fd, e) \/ delEvent(fd, e)
                        \/ cancelEvent(fd, e)
    \/ cancelAll(fd) /\ UNCHANGED <<file, batch, fault>>
    \/ CloseBegin(fd) \/ CloseEnd(fd) \/ Reopen(fd)

FdNext ==
    /\ fault = "none"
    /\ \/ \E fd \in Fds : FdStep(fd)
       \/ \E th \in Pollers : epoll_wait(th) \/ \E r \in batch[th] : Handle(th, r)

FdSpec == FdInit /\ [][FdNext]_fdVars

-----------------------------------------------------------------------------
(* Properties *)

\* The registrations of all descriptors.
Registered == {p \in Fds \X Event : p[2] \in events[p[1]]}

(* m_pendingEventCount, which decides whether IOManager may stop, is the   *)
(* number of registered events, whoever removes them: a report, a cancel   *)
(* by a timer, or close().                                                 *)
PendingExact == m_pendingEventCount = Cardinality(Registered)

(* A fiber waits exactly for the events that its FdContext records, with a *)
(* context to resume it by, and that epoll watches: nobody waits for an    *)
(* event that cannot be reported.                                          *)
WaiterWatched ==
    \A fd \in Fds :
        /\ ctx[fd] = events[fd]
        /\ waiting[fd] = events[fd]
        /\ interest[fd] = events[fd]

(* No edge is missed: when the file is ready for a fiber that waits, the   *)
(* descriptor is on the ready list, or a thread holds a report that will   *)
(* trigger the event.  With EPOLLET this is what the re-registration in    *)
(* idle() and the MOD of addEvent must preserve.                           *)
ReadyIsSeen ==
    fault = "none" =>
      \A fd \in Fds : \A e \in events[fd] :
        e \in cond[fd] \/ "HUP" \in cond[fd] =>
            \/ armed[fd]
            \/ \E th \in Pollers : \E r \in batch[th] :
                r.fd = fd /\ e \in RealEvents(r)

(* The assertion of triggerEvent: only a registered event is triggered.    *)
TriggerAssertion == fault # "trigger"

(* The assertions of addEvent: the event is not registered yet and its     *)
(* context is empty.                                                       *)
AddAssertions == fault \notin {"duplicate", "context"}
=============================================================================
