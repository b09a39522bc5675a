----------------------------- MODULE EventProofs -----------------------------
(***************************************************************************)
(* Theorems about what wakes an idle thread of the IOManager: the events   *)
(* of descriptors (FdEvents), for every finite set of descriptors and      *)
(* every set of threads, and the timers (TimerManager), for every set of   *)
(* timers, threads and periods and every length of a run.  The discipline  *)
(* Exclusive of FdEvents is a hypothesis: section 4 of the README says     *)
(* what happens without it.                                                *)
(***************************************************************************)
EXTENDS FdEvents, TimerManager, FiniteSetTheorems, TLAPS

-----------------------------------------------------------------------------
(***************************************************************************)
(* Events of descriptors.                                                  *)
(***************************************************************************)

-----------------------------------------------------------------------------
(* The contexts, the waiting fibers and the epoll set agree.  This needs   *)
(* that nothing is registered on a descriptor from the moment close() has  *)
(* cancelled everything until the number is used again.                    *)

Quiet == \A fd \in Fds : file[fd] # "open" => events[fd] = {}

Shapes ==
    /\ events \in [Fds -> SUBSET Event]
    /\ ctx \in [Fds -> SUBSET Event]
    /\ waiting \in [Fds -> SUBSET Event]
    /\ interest \in [Fds -> SUBSET Event]
    /\ file \in [Fds -> {"open", "closing", "closed"}]
    /\ fault \in {"none", "trigger", "duplicate", "context"}

\* The part of the types that only the kernel and idle() change.
ReportShapes ==
    /\ cond \in [Fds -> SUBSET (Event \cup {"HUP"})]
    /\ armed \in [Fds -> BOOLEAN]
    /\ batch \in [Pollers -> SUBSET Report]

WatchInv == Shapes /\ WaiterWatched /\ Quiet /\ AddAssertions

\* Every descriptor starts open with nothing registered.
LEMMA InitWatch == FdInit => WatchInv
BY DEF FdInit, WatchInv, Shapes, WaiterWatched, Quiet, AddAssertions

\* What epoll_ctl and Clear do to the three views of a descriptor together.
LEMMA ClearViews ==
  ASSUME WatchInv, NEW fd \in Fds, NEW E, E \subseteq events[fd],
         events' = [events EXCEPT ![fd] = @ \ E],
         ctx' = [ctx EXCEPT ![fd] = @ \ E],
         waiting' = [waiting EXCEPT ![fd] = @ \ E],
         interest' = [interest EXCEPT ![fd] = events[fd] \ E],
         file' = file \/ (file' = [file EXCEPT ![fd] = "closing"] /\ E = events[fd]),
         fault' = fault
  PROVE  WatchInv'
<1>1. Shapes'
  BY DEF WatchInv, Shapes
<1>2. WaiterWatched'
  BY DEF WatchInv, Shapes, WaiterWatched
<1>3. Quiet'
  BY DEF WatchInv, Shapes, Quiet
<1>4. QED
  BY <1>1, <1>2, <1>3 DEF WatchInv, AddAssertions

\* Every step keeps the three views of a descriptor in agreement.
LEMMA NextWatch ==
  ASSUME Exclusive, WatchInv, ReportShapes, [FdNext]_fdVars
  PROVE  WatchInv'
<1> USE DEF contextVars, kernelVars
<1>1. CASE UNCHANGED <<events, ctx, waiting, interest, file, fault>>
  BY <1>1 DEF WatchInv, Shapes, WaiterWatched, Quiet, AddAssertions
<1>2. ASSUME NEW fd \in Fds, NEW e \in Event, addEvent(fd, e)
      PROVE  WatchInv'
  <2>1. e \notin events[fd] /\ e \notin ctx[fd]
    BY <1>2 DEF addEvent, WatchInv, WaiterWatched
  <2>2. /\ file[fd] = "open" /\ UNCHANGED <<file, fault>>
        /\ events' = [events EXCEPT ![fd] = @ \cup {e}]
        /\ ctx' = [ctx EXCEPT ![fd] = @ \cup {e}]
        /\ waiting' = [waiting EXCEPT ![fd] = @ \cup {e}]
        /\ interest' = [interest EXCEPT ![fd] = events[fd] \cup {e}]
    BY <1>2, <2>1 DEF addEvent, epoll_ctl
  <2>3. Shapes' /\ WaiterWatched'
    BY <2>2 DEF WatchInv, Shapes, WaiterWatched
  <2>4. Quiet'
    BY <2>2 DEF WatchInv, Shapes, Quiet
  <2>5. QED
    BY <2>2, <2>3, <2>4 DEF WatchInv, AddAssertions
<1>3. ASSUME NEW fd \in Fds, NEW e \in Event, delEvent(fd, e) \/ cancelEvent(fd, e)
      PROVE  WatchInv'
  <2>1. {e} \subseteq events[fd]
    BY <1>3 DEF delEvent, cancelEvent
  <2>2. /\ epoll_ctl(fd, events[fd] \ {e}) /\ Clear(fd, {e})
        /\ file' = file /\ fault' = fault
    BY <1>3 DEF delEvent, cancelEvent, triggerEvent
  <2>3. QED
    BY <2>1, <2>2, ClearViews DEF Clear, epoll_ctl
<1>4. ASSUME NEW fd \in Fds, cancelAll(fd), UNCHANGED <<file, batch, fault>>
      PROVE  WatchInv'
  <2>1. events[fd] \ events[fd] = {}
    OBVIOUS
  <2>2. QED
    BY <1>4, <2>1, ClearViews DEF cancelAll, triggerEvent, Clear, epoll_ctl
<1>5. ASSUME NEW fd \in Fds, CloseBegin(fd)
      PROVE  WatchInv'
  <2>1. CASE events[fd] # {}
    <3>1. events[fd] \ events[fd] = {}
      OBVIOUS
    <3>2. QED
      BY <1>5, <2>1, <3>1, ClearViews DEF CloseBegin, cancelAll, triggerEvent, Clear, epoll_ctl
  <2>2. CASE events[fd] = {}
    <3>1. /\ file' = [file EXCEPT ![fd] = "closing"]
          /\ UNCHANGED <<events, ctx, waiting, interest, fault>>
      BY <1>5, <2>2 DEF CloseBegin
    <3>2. QED
      BY <2>2, <3>1 DEF WatchInv, Shapes, WaiterWatched, Quiet, AddAssertions
  <2>3. QED
    BY <2>1, <2>2
<1>6. ASSUME NEW fd \in Fds, CloseEnd(fd)
      PROVE  WatchInv'
  <2>1. events[fd] = {} /\ interest[fd] = {}
    BY <1>6 DEF CloseEnd, WatchInv, Quiet, WaiterWatched
  <2>2. QED
    BY <1>6, <2>1 DEF CloseEnd, WatchInv, Shapes, WaiterWatched, Quiet, AddAssertions
<1>7. ASSUME NEW fd \in Fds, Reopen(fd)
      PROVE  WatchInv'
  <2>1. events[fd] = {}
    BY <1>7 DEF Reopen, WatchInv, Quiet
  <2>2. QED
    BY <1>7, <2>1 DEF Reopen, WatchInv, Shapes, WaiterWatched, Quiet, AddAssertions
<1>8. ASSUME NEW th \in Pollers, NEW r \in batch[th], Handle(th, r)
      PROVE  WatchInv'
  <2>0. r.fd \in Fds
    BY DEF ReportShapes, Report
  <2>1. CASE UNCHANGED <<contextVars, kernelVars>> /\ fault' \in {fault, "trigger"}
    BY <1>8, <2>1 DEF Handle, WatchInv, Shapes, WaiterWatched, Quiet, AddAssertions
  <2>2. CASE /\ epoll_ctl(r.fd, events[r.fd] \ RealEvents(r))
             /\ triggerEvent(r.fd, RealEvents(r))
             /\ UNCHANGED fault
    <3>1. RealEvents(r) \subseteq events[r.fd]
      BY <2>2 DEF triggerEvent
    <3>2. file' = file
      BY <1>8 DEF Handle
    <3>3. Clear(r.fd, RealEvents(r))
      BY <2>2 DEF triggerEvent
    <3>4. QED
      BY <2>0, <2>2, <3>1, <3>2, <3>3, ClearViews DEF Clear, epoll_ctl
  <2>3. QED
    BY <1>8, <2>1, <2>2 DEF Handle
<1>9. ASSUME NEW fd \in Fds, NEW c, Edge(fd, c) \/ Drain(fd, c)
      PROVE  WatchInv'
  BY <1>1, <1>9 DEF Edge, Drain
<1>10. ASSUME NEW th \in Pollers, epoll_wait(th)
       PROVE  WatchInv'
  BY <1>1, <1>10 DEF epoll_wait
<1>11. QED
  BY <1>1, <1>2, <1>3, <1>4, <1>5, <1>6, <1>7, <1>8, <1>9, <1>10
     DEF FdNext, FdStep, fdVars

\* A report names a descriptor and conditions of its file.
LEMMA NextReports ==
  ASSUME ReportShapes, Shapes, [FdNext]_fdVars
  PROVE  ReportShapes'
<1> USE DEF contextVars, kernelVars
<1>1. CASE UNCHANGED <<cond, armed, batch>>
  BY <1>1 DEF ReportShapes
<1>2. ASSUME NEW fd \in Fds, NEW c \in Event \cup {"HUP"}, Edge(fd, c)
      PROVE  ReportShapes'
  BY <1>2 DEF ReportShapes, Edge
<1>3. ASSUME NEW fd \in Fds, NEW e \in Event, Drain(fd, e)
      PROVE  ReportShapes'
  BY <1>3 DEF ReportShapes, Drain
<1>4. ASSUME NEW fd \in Fds, NEW new, epoll_ctl(fd, new),
             batch' = batch \/ \E th \in Pollers : \E r \in batch[th] :
                                 batch' = [batch EXCEPT ![th] = @ \ {r}]
      PROVE  ReportShapes'
  BY <1>4 DEF ReportShapes, epoll_ctl
<1>5. ASSUME NEW fd \in Fds, CloseEnd(fd)
      PROVE  ReportShapes'
  BY <1>5 DEF ReportShapes, CloseEnd
<1>6. ASSUME NEW th \in Pollers, epoll_wait(th)
      PROVE  ReportShapes'
  <2>1. PICK S \in SUBSET Fds :
           /\ armed' = [fd \in Fds |-> armed[fd] /\ fd \notin S]
           /\ batch' = [batch EXCEPT ![th] =
                {r \in {[fd |-> fd, ev |-> cond[fd] \cap (interest[fd] \cup {"HUP"})] : fd \in S} :
                   r.ev # {}}]
           /\ cond' = cond
    BY <1>6 DEF epoll_wait
  <2>2. ASSUME NEW fd \in S
        PROVE  [fd |-> fd, ev |-> cond[fd] \cap (interest[fd] \cup {"HUP"})] \in Report
    BY DEF ReportShapes, Report
  <2>3. armed' \in [Fds -> BOOLEAN]
    BY <2>1
  <2>4. batch' \in [Pollers -> SUBSET Report]
    BY <2>1, <2>2 DEF ReportShapes
  <2>5. QED
    BY <2>1, <2>3, <2>4 DEF ReportShapes
<1>7. ASSUME NEW th \in Pollers, NEW r \in batch[th], Handle(th, r)
      PROVE  ReportShapes'
  <2>1. r.fd \in Fds /\ batch' = [batch EXCEPT ![th] = @ \ {r}]
    BY <1>7 DEF ReportShapes, Report, Handle
  <2>2. CASE UNCHANGED <<cond, armed>>
    BY <2>1, <2>2 DEF ReportShapes
  <2>3. CASE epoll_ctl(r.fd, events[r.fd] \ RealEvents(r))
    BY <1>4, <2>1, <2>3
  <2>4. QED
    BY <1>7, <2>2, <2>3 DEF Handle
<1>8. ASSUME NEW fd \in Fds, NEW e \in Event,
             addEvent(fd, e) \/ delEvent(fd, e) \/ cancelEvent(fd, e)
      PROVE  ReportShapes'
  <2>1. batch' = batch
    BY <1>8 DEF addEvent, delEvent, cancelEvent
  <2>2. CASE UNCHANGED kernelVars
    BY <1>1, <2>1, <2>2
  <2>3. CASE \E new : epoll_ctl(fd, new)
    BY <1>4, <2>1, <2>3
  <2>4. QED
    BY <1>8, <2>2, <2>3 DEF addEvent, delEvent, cancelEvent
<1>9. ASSUME NEW fd \in Fds,
             (cancelAll(fd) /\ UNCHANGED <<file, batch, fault>>) \/ CloseBegin(fd)
      PROVE  ReportShapes'
  <2>1. batch' = batch
    BY <1>9 DEF CloseBegin
  <2>2. CASE UNCHANGED kernelVars
    BY <1>1, <2>1, <2>2
  <2>3. CASE epoll_ctl(fd, {})
    BY <1>4, <2>1, <2>3
  <2>4. QED
    BY <1>9, <2>2, <2>3 DEF CloseBegin, cancelAll
<1>10. ASSUME NEW fd \in Fds, Reopen(fd)
       PROVE  ReportShapes'
  BY <1>1, <1>10 DEF Reopen
<1>11. QED
  BY <1>1, <1>2, <1>3, <1>5, <1>6, <1>7, <1>8, <1>9, <1>10
     DEF FdNext, FdStep, fdVars

\* Both invariants together.
LEMMA WatchInvariant ==
  ASSUME Exclusive
  PROVE  FdSpec => [](WatchInv /\ ReportShapes)
<1>1. FdInit => WatchInv /\ ReportShapes
  BY InitWatch DEF FdInit, ReportShapes
<1>2. WatchInv /\ ReportShapes /\ [FdNext]_fdVars => WatchInv' /\ ReportShapes'
  BY NextWatch, NextReports DEF WatchInv
<1>3. QED
  BY <1>1, <1>2, PTL DEF FdSpec

(* Nobody waits for an event that epoll does not watch or whose context    *)
(* cannot resume it.                                                       *)
THEOREM WaitersAreWatched ==
  ASSUME Exclusive
  PROVE  FdSpec => []WaiterWatched
<1>1. WatchInv => WaiterWatched
  BY DEF WatchInv
<1>2. QED
  BY <1>1, WatchInvariant, PTL

(* The assertions of addEvent hold.                                        *)
THEOREM AddIsSafe ==
  ASSUME Exclusive
  PROVE  FdSpec => []AddAssertions
<1>1. WatchInv => AddAssertions
  BY DEF WatchInv
<1>2. QED
  BY <1>1, WatchInvariant, PTL

-----------------------------------------------------------------------------
(* The counter.  A step adds one registration, or takes a set E of         *)
(* registered events of one descriptor away and counts down by its size.   *)

\* The registrations are finitely many.
LEMMA RegisteredFinite == IsFiniteSet(Registered)
<1>1. IsFiniteSet(Event)
  <2>1. IsFiniteSet({"READ"} \cup {"WRITE"})
    BY FS_Singleton, FS_Union
  <2>2. Event = {"READ"} \cup {"WRITE"}
    BY DEF Event
  <2>3. QED
    BY <2>1, <2>2
<1>2. IsFiniteSet(Fds \X Event)
  BY <1>1, FdsAssumption, FS_Product
<1>3. Registered \in SUBSET (Fds \X Event)
  BY DEF Registered
<1>4. QED
  BY <1>2, <1>3, FS_Subset

\* Registering one more event.
LEMMA AddCount ==
  ASSUME Shapes, PendingExact, NEW fd \in Fds, NEW e \in Event, e \notin events[fd],
         events' = [events EXCEPT ![fd] = @ \cup {e}],
         m_pendingEventCount' = m_pendingEventCount + 1
  PROVE  PendingExact'
<1>1. Registered' = Registered \cup {<<fd, e>>}
  BY DEF Registered, Shapes
<1>2. <<fd, e>> \notin Registered
  BY DEF Registered
<1>3. Cardinality(Registered') = Cardinality(Registered) + 1
  BY <1>1, <1>2, RegisteredFinite, FS_AddElement
<1>4. QED
  BY <1>3 DEF PendingExact

\* The size of a set of directions.
LEMMA EventSets ==
  ASSUME NEW E \in SUBSET Event
  PROVE  \/ E = {} /\ Cardinality(E) = 0
         \/ \E e \in Event : E = {e} /\ Cardinality(E) = 1
         \/ E = {"READ", "WRITE"} /\ Cardinality(E) = 2
<1>1. E = {} \/ E = {"READ"} \/ E = {"WRITE"} \/ E = {"READ", "WRITE"}
  BY DEF Event
<1>2. Cardinality({}) = 0 /\ Cardinality({"READ"}) = 1 /\ Cardinality({"WRITE"}) = 1
  BY FS_EmptySet, FS_Singleton
<1>3. Cardinality({"READ"} \cup {"WRITE"}) = 2
  <2>1. IsFiniteSet({"READ"}) /\ "WRITE" \notin {"READ"}
    BY FS_Singleton
  <2>2. Cardinality({"READ"} \cup {"WRITE"}) = Cardinality({"READ"}) + 1
    BY <2>1, FS_AddElement
  <2>3. QED
    BY <1>2, <2>2
<1>4. {"READ", "WRITE"} = {"READ"} \cup {"WRITE"}
  OBVIOUS
<1>5. QED
  BY <1>1, <1>2, <1>3, <1>4 DEF Event

\* Taking a set of registered events away.
LEMMA ClearCount ==
  ASSUME Shapes, PendingExact, NEW fd \in Fds, NEW E, E \subseteq events[fd],
         Clear(fd, E)
  PROVE  PendingExact'
<1>1. /\ events' = [events EXCEPT ![fd] = @ \ E]
      /\ m_pendingEventCount' = m_pendingEventCount - Cardinality(E)
  BY DEF Clear
<1>2. E \in SUBSET Event
  BY DEF Shapes
<1>3. Cardinality(Registered) \in Nat
  BY RegisteredFinite, FS_CardinalityType
<1>4. CASE E = {} /\ Cardinality(E) = 0
  <2>1. events' = events
    BY <1>1, <1>4 DEF Shapes
  <2>2. Registered' = Registered
    BY <2>1 DEF Registered
  <2>3. QED
    BY <1>1, <1>3, <1>4, <2>2 DEF PendingExact
<1>5. ASSUME NEW e \in Event, E = {e}, Cardinality(E) = 1
      PROVE  PendingExact'
  <2>1. Registered' = Registered \ {<<fd, e>>}
    BY <1>1, <1>5 DEF Registered, Shapes
  <2>2. <<fd, e>> \in Registered
    BY <1>5 DEF Registered
  <2>3. Cardinality(Registered') = Cardinality(Registered) - 1
    BY <2>1, <2>2, RegisteredFinite, FS_RemoveElement
  <2>4. QED
    BY <1>1, <1>5, <2>3 DEF PendingExact
<1>6. CASE E = {"READ", "WRITE"} /\ Cardinality(E) = 2
  <2> DEFINE R == Registered \ {<<fd, "READ">>}
  <2>1. <<fd, "READ">> \in Registered /\ <<fd, "WRITE">> \in Registered
    BY <1>6 DEF Registered, Event
  <2>2. IsFiniteSet(R) /\ Cardinality(R) = Cardinality(Registered) - 1
    BY <2>1, RegisteredFinite, FS_RemoveElement
  <2>3. Cardinality(R \ {<<fd, "WRITE">>}) = Cardinality(R) - 1
    BY <2>1, <2>2, FS_RemoveElement
  <2>4. Registered' = R \ {<<fd, "WRITE">>}
    BY <1>1, <1>6 DEF Registered, Shapes, Event
  <2>5. QED
    BY <1>1, <1>3, <1>6, <2>2, <2>3, <2>4 DEF PendingExact
<1>7. QED
  BY <1>2, <1>4, <1>5, <1>6, EventSets

\* Every step counts exactly what it registers and removes.
LEMMA NextCount ==
  ASSUME Shapes, ReportShapes, PendingExact, [FdNext]_fdVars
  PROVE  PendingExact'
<1> USE DEF contextVars
<1>1. CASE UNCHANGED <<events, m_pendingEventCount>>
  BY <1>1 DEF PendingExact, Registered
<1>2. ASSUME NEW fd \in Fds, NEW e \in Event, addEvent(fd, e)
      PROVE  PendingExact'
  BY <1>1, <1>2, AddCount DEF addEvent
<1>3. ASSUME NEW fd \in Fds, NEW e \in Event, delEvent(fd, e) \/ cancelEvent(fd, e)
      PROVE  PendingExact'
  <2>1. {e} \subseteq events[fd] /\ Clear(fd, {e})
    BY <1>3 DEF delEvent, cancelEvent, triggerEvent
  <2>2. QED
    BY <2>1, ClearCount
<1>4. ASSUME NEW fd \in Fds, cancelAll(fd)
      PROVE  PendingExact'
  BY <1>4, ClearCount DEF cancelAll, triggerEvent
<1>5. ASSUME NEW fd \in Fds, CloseBegin(fd)
      PROVE  PendingExact'
  BY <1>1, <1>4, <1>5 DEF CloseBegin
<1>6. ASSUME NEW th \in Pollers, NEW r \in batch[th], Handle(th, r)
      PROVE  PendingExact'
  <2>1. r.fd \in Fds
    BY DEF ReportShapes, Report
  <2>2. CASE triggerEvent(r.fd, RealEvents(r))
    BY <2>1, <2>2, ClearCount DEF triggerEvent
  <2>3. QED
    BY <1>1, <1>6, <2>2 DEF Handle
<1>7. ASSUME NEW fd \in Fds, NEW c, Edge(fd, c) \/ Drain(fd, c)
      PROVE  PendingExact'
  BY <1>1, <1>7 DEF Edge, Drain
<1>8. ASSUME NEW fd \in Fds, CloseEnd(fd) \/ Reopen(fd)
      PROVE  PendingExact'
  BY <1>1, <1>8 DEF CloseEnd, Reopen
<1>9. ASSUME NEW th \in Pollers, epoll_wait(th)
      PROVE  PendingExact'
  BY <1>1, <1>9 DEF epoll_wait
<1>10. QED
  BY <1>1, <1>2, <1>3, <1>4, <1>5, <1>6, <1>7, <1>8, <1>9 DEF FdNext, FdStep, fdVars

(* m_pendingEventCount is the number of registered events.                 *)
THEOREM PendingIsExact ==
  ASSUME Exclusive
  PROVE  FdSpec => []PendingExact
<1>1. FdInit => PendingExact
  <2>1. FdInit => Registered = {}
    BY DEF FdInit, Registered
  <2>2. QED
    BY <2>1, FS_EmptySet DEF FdInit, PendingExact
<1>2. WatchInv /\ ReportShapes /\ PendingExact /\ [FdNext]_fdVars => PendingExact'
  BY NextCount DEF WatchInv
<1>3. QED
  BY <1>1, <1>2, WatchInvariant, PTL DEF FdSpec

(* The types of the contexts, the epoll set and the reports.               *)
THEOREM FdTypes ==
  ASSUME Exclusive
  PROVE  FdSpec => []FdTypeOK
<1>1. WatchInv /\ ReportShapes /\ PendingExact => FdTypeOK
  BY RegisteredFinite, FS_CardinalityType
     DEF WatchInv, Shapes, ReportShapes, PendingExact, FdTypeOK
<1>2. QED
  BY <1>1, WatchInvariant, PendingIsExact, PTL

-----------------------------------------------------------------------------
(* When every descriptor is used in one direction only, a stale report can *)
(* name no other, and triggerEvent's assertion holds.                      *)

OneDirection == \A fd \in Fds : \A d, e \in Uses[fd] : d = e

DirectionInv ==
    /\ \A fd \in Fds : events[fd] \subseteq Uses[fd]
    /\ \A th \in Pollers : \A r \in batch[th] : r.ev \cap Event \subseteq Uses[r.fd]
    /\ TriggerAssertion

\* Registrations and reports stay within the directions used.
LEMMA NextDirection ==
  ASSUME OneDirection, WatchInv, ReportShapes, DirectionInv, [FdNext]_fdVars
  PROVE  DirectionInv'
<1> USE DEF contextVars, kernelVars
<1>1. CASE UNCHANGED <<events, batch, fault>>
  BY <1>1 DEF DirectionInv, TriggerAssertion
<1>2. ASSUME NEW fd \in Fds, NEW e \in Event, addEvent(fd, e)
      PROVE  DirectionInv'
  <2>1. e \in Uses[fd] /\ batch' = batch /\ fault' # "trigger"
    BY <1>2 DEF addEvent, DirectionInv, TriggerAssertion
  <2>2. events' = events \/ events' = [events EXCEPT ![fd] = @ \cup {e}]
    BY <1>2 DEF addEvent
  <2>3. QED
    BY <2>1, <2>2 DEF DirectionInv, TriggerAssertion, WatchInv, Shapes
<1>3. ASSUME NEW fd \in Fds, NEW E, Clear(fd, E), UNCHANGED fault,
             \A th \in Pollers : batch'[th] \subseteq batch[th]
      PROVE  DirectionInv'
  <2>1. \A g \in Fds : events'[g] \subseteq events[g]
    BY <1>3 DEF Clear, WatchInv, Shapes
  <2>2. QED
    BY <1>3, <2>1 DEF DirectionInv, TriggerAssertion
<1>4. ASSUME NEW fd \in Fds, NEW e \in Event, delEvent(fd, e) \/ cancelEvent(fd, e)
      PROVE  DirectionInv'
  BY <1>3, <1>4 DEF delEvent, cancelEvent, triggerEvent
<1>5. ASSUME NEW fd \in Fds,
             (cancelAll(fd) /\ UNCHANGED <<file, batch, fault>>) \/ CloseBegin(fd)
      PROVE  DirectionInv'
  BY <1>1, <1>3, <1>5 DEF CloseBegin, cancelAll, triggerEvent
<1>6. ASSUME NEW th \in Pollers, epoll_wait(th)
      PROVE  DirectionInv'
  <2>1. \A t \in Pollers : \A r \in batch'[t] :
          r \in batch[t] \/ (\E fd \in Fds : r.fd = fd /\ r.ev \cap Event \subseteq interest[fd])
    BY <1>6 DEF epoll_wait, ReportShapes, Event
  <2>2. \A fd \in Fds : interest[fd] \subseteq Uses[fd]
    BY DEF WatchInv, WaiterWatched, DirectionInv
  <2>3. UNCHANGED <<events, fault>>
    BY <1>6 DEF epoll_wait
  <2>4. QED
    BY <2>1, <2>2, <2>3 DEF DirectionInv, TriggerAssertion
<1>7. ASSUME NEW th \in Pollers, NEW r \in batch[th], Handle(th, r)
      PROVE  DirectionInv'
  <2>1. r.fd \in Fds /\ RealEvents(r) \subseteq Uses[r.fd]
    BY DEF ReportShapes, Report, RealEvents, DirectionInv
  <2>2. events[r.fd] \cap RealEvents(r) # {} => RealEvents(r) \subseteq events[r.fd]
    BY <2>1 DEF OneDirection, DirectionInv
  <2>3. \A t \in Pollers : batch'[t] \subseteq batch[t]
    BY <1>7 DEF Handle, ReportShapes
  <2>4. CASE UNCHANGED <<contextVars, fault>>
    BY <2>3, <2>4 DEF DirectionInv, TriggerAssertion
  <2>5. CASE triggerEvent(r.fd, RealEvents(r)) /\ UNCHANGED fault
    BY <1>3, <2>1, <2>3, <2>5 DEF triggerEvent
  <2>6. QED
    BY <1>7, <2>2, <2>4, <2>5 DEF Handle
<1>8. ASSUME NEW fd \in Fds, NEW c, Edge(fd, c) \/ Drain(fd, c)
      PROVE  DirectionInv'
  BY <1>1, <1>8 DEF Edge, Drain
<1>9. ASSUME NEW fd \in Fds, CloseEnd(fd) \/ Reopen(fd)
      PROVE  DirectionInv'
  BY <1>1, <1>9 DEF CloseEnd, Reopen
<1>10. QED
  BY <1>1, <1>2, <1>4, <1>5, <1>6, <1>7, <1>8, <1>9 DEF FdNext, FdStep, fdVars

(* The assertion of triggerEvent holds for descriptors of one direction.   *)
THEOREM TriggerIsSafe ==
  ASSUME Exclusive, OneDirection
  PROVE  FdSpec => []TriggerAssertion
<1>1. FdInit => DirectionInv
  BY DEF FdInit, DirectionInv, TriggerAssertion
<1>2. WatchInv /\ ReportShapes /\ DirectionInv /\ [FdNext]_fdVars => DirectionInv'
  BY NextDirection
<1>3. DirectionInv => TriggerAssertion
  BY DEF DirectionInv
<1>4. QED
  BY <1>1, <1>2, <1>3, WatchInvariant, PTL DEF FdSpec

-----------------------------------------------------------------------------
(* No edge is missed.                                                      *)

\* ReadyIsSeen, of one descriptor.
Seen(fd) ==
    \A e \in events[fd] :
      e \in cond[fd] \/ "HUP" \in cond[fd] =>
        armed[fd] \/ \E th \in Pollers : \E r \in batch[th] : r.fd = fd /\ e \in RealEvents(r)

\* A step that takes no report of the descriptor away and makes nothing ready.
LEMMA SeenKept ==
  ASSUME NEW fd \in Fds, Seen(fd), events'[fd] = events[fd], cond'[fd] \subseteq cond[fd],
         armed[fd] => armed'[fd],
         \A th \in Pollers : \A r \in batch[th] : r.fd = fd => r \in batch'[th]
  PROVE  Seen(fd)'
<1> SUFFICES ASSUME NEW e \in events'[fd], e \in cond'[fd] \/ "HUP" \in cond'[fd], ~armed'[fd]
             PROVE  \E th \in Pollers : \E r \in batch'[th] : r.fd = fd /\ e \in RealEvents(r)'
  BY DEF Seen
<1>0. PICK th \in Pollers : \E r \in batch[th] : r.fd = fd /\ e \in RealEvents(r)
  BY DEF Seen
<1>1. PICK r \in batch[th] : r.fd = fd /\ e \in RealEvents(r)
  BY <1>0
<1>2. e \in RealEvents(r)' /\ r \in batch'[th]
  BY <1>1 DEF RealEvents
<1>3. QED
  BY <1>1, <1>2

\* epoll_ctl looks at the file: what is ready of what it is to watch goes on the ready list.
LEMMA CtlSees ==
  ASSUME ReportShapes, NEW fd \in Fds, NEW new, epoll_ctl(fd, new), events'[fd] \subseteq new
  PROVE  Seen(fd)'
<1>1. cond' = cond /\ armed'[fd] = (new # {} /\ (armed[fd] \/ cond[fd] \cap (new \cup {"HUP"}) # {}))
  BY DEF epoll_ctl, ReportShapes
<1>2. QED
  BY <1>1 DEF Seen

\* epoll_ctl on one descriptor leaves the others alone.
LEMMA CtlOthers ==
  ASSUME ReportShapes, NEW fd \in Fds, NEW new, epoll_ctl(fd, new)
  PROVE  cond' = cond /\ \A g \in Fds : g # fd => armed'[g] = armed[g]
BY DEF epoll_ctl, ReportShapes

\* Every step that does not fail an assertion.
LEMMA NextSeen ==
  ASSUME Exclusive, WatchInv, ReportShapes, ReadyIsSeen, [FdNext]_fdVars
  PROVE  ReadyIsSeen'
<1> USE DEF contextVars, kernelVars
<1>1. CASE UNCHANGED fdVars
  BY <1>1 DEF fdVars, ReadyIsSeen, RealEvents
<1>2. SUFFICES ASSUME FdNext, fault' = "none", NEW g \in Fds
               PROVE  Seen(g)'
  BY <1>1 DEF ReadyIsSeen, Seen
<1>3. Seen(g)
  BY <1>2 DEF FdNext, ReadyIsSeen, Seen
<1>4. ASSUME NEW fd \in Fds, NEW new, epoll_ctl(fd, new), events' = [events EXCEPT ![fd] = new], UNCHANGED batch
      PROVE  Seen(g)'
  <2>1. CASE g = fd
    <3>1. events'[fd] \subseteq new
      BY <1>4 DEF WatchInv, Shapes
    <3>2. QED
      BY <1>4, <2>1, <3>1, CtlSees
  <2>2. CASE g # fd
    <3>1. events'[g] = events[g] /\ cond' = cond /\ armed'[g] = armed[g]
      BY <1>4, <2>2, CtlOthers DEF WatchInv, Shapes
    <3>2. QED
      BY <1>3, <1>4, <3>1, SeenKept
  <2>3. QED
    BY <2>1, <2>2
<1>5. ASSUME NEW fd \in Fds, NEW c \in Event \cup {"HUP"}, Edge(fd, c)
      PROVE  Seen(g)'
  <2>1. /\ UNCHANGED <<events, batch>> /\ cond' = [cond EXCEPT ![fd] = @ \cup {c}]
        /\ armed' = [armed EXCEPT ![fd] = @ \/ (interest[fd] # {} /\ c \in interest[fd] \cup {"HUP"})]
    BY <1>5 DEF Edge
  <2>2. CASE g # fd
    <3>1. cond'[g] = cond[g] /\ armed'[g] = armed[g]
      BY <2>1, <2>2 DEF ReportShapes
    <3>2. QED
      BY <1>3, <2>1, <3>1, SeenKept
  <2>3. CASE g = fd /\ (c = "HUP" \/ c \in events[g])
    <3>1. interest[g] = events[g]
      BY DEF WatchInv, WaiterWatched
    <3>2. events[g] # {} => armed'[g]
      BY <2>1, <2>3, <3>1 DEF ReportShapes
    <3>3. QED
      BY <2>1, <3>2 DEF Seen
  <2>4. CASE g = fd /\ c # "HUP" /\ c \notin events[g]
    <3>1. /\ \A e \in events[g] : e \in cond'[g] => e \in cond[g]
          /\ "HUP" \in cond'[g] => "HUP" \in cond[g]
          /\ armed[g] => armed'[g]
      BY <2>1, <2>4 DEF ReportShapes
    <3>2. QED
      BY <1>3, <2>1, <3>1 DEF Seen, RealEvents
  <2>5. QED
    BY <2>2, <2>3, <2>4
<1>6. ASSUME NEW fd \in Fds, NEW e \in Event, Drain(fd, e)
      PROVE  Seen(g)'
  <2>1. UNCHANGED <<events, batch, armed>> /\ cond' = [cond EXCEPT ![fd] = @ \ {e}]
    BY <1>6 DEF Drain
  <2>2. cond'[g] \subseteq cond[g]
    BY <2>1 DEF ReportShapes
  <2>3. QED
    BY <1>3, <2>1, <2>2, SeenKept
<1>7. ASSUME NEW fd \in Fds, NEW e \in Event, addEvent(fd, e)
      PROVE  Seen(g)'
  <2>1. CASE /\ epoll_ctl(fd, events[fd] \cup {e}) /\ events' = [events EXCEPT ![fd] = @ \cup {e}]
             /\ UNCHANGED batch
    BY <1>4, <2>1
  <2>2. QED
    BY <1>2, <1>7, <2>1 DEF addEvent
<1>8. ASSUME NEW fd \in Fds, NEW e \in Event, delEvent(fd, e) \/ cancelEvent(fd, e)
      PROVE  Seen(g)'
  <2>1. /\ epoll_ctl(fd, events[fd] \ {e}) /\ events' = [events EXCEPT ![fd] = @ \ {e}]
        /\ UNCHANGED batch
    BY <1>8 DEF delEvent, cancelEvent, triggerEvent, Clear
  <2>2. QED
    BY <1>4, <2>1
<1>9. ASSUME NEW fd \in Fds, cancelAll(fd), UNCHANGED batch
      PROVE  Seen(g)'
  <2>1. /\ epoll_ctl(fd, {}) /\ events' = [events EXCEPT ![fd] = events[fd] \ events[fd]]
        /\ events[fd] \ events[fd] = {}
    BY <1>9 DEF cancelAll, triggerEvent, Clear
  <2>2. events' = [events EXCEPT ![fd] = {}]
    BY <2>1
  <2>3. QED
    BY <1>4, <1>9, <2>1, <2>2
<1>10. ASSUME NEW fd \in Fds, CloseBegin(fd)
       PROVE  Seen(g)'
  <2>1. CASE cancelAll(fd)
    BY <1>9, <1>10, <2>1 DEF CloseBegin
  <2>2. CASE UNCHANGED <<events, cond, armed, batch>>
    BY <1>3, <2>2, SeenKept
  <2>3. QED
    BY <1>10, <2>1, <2>2 DEF CloseBegin
<1>11. ASSUME NEW fd \in Fds, CloseEnd(fd)
       PROVE  Seen(g)'
  <2>1. /\ UNCHANGED <<events, batch>> /\ cond' = [cond EXCEPT ![fd] = {}] /\ armed' = [armed EXCEPT ![fd] = FALSE]
        /\ events[fd] = {}
    BY <1>11 DEF CloseEnd, WatchInv, Quiet
  <2>2. CASE g = fd
    BY <2>1, <2>2 DEF Seen
  <2>3. CASE g # fd
    <3>1. cond'[g] = cond[g] /\ armed'[g] = armed[g]
      BY <2>1, <2>3 DEF ReportShapes
    <3>2. QED
      BY <1>3, <2>1, <3>1, SeenKept
  <2>4. QED
    BY <2>2, <2>3
<1>12. ASSUME NEW fd \in Fds, Reopen(fd)
       PROVE  Seen(g)'
  BY <1>3, <1>12, SeenKept DEF Reopen
<1>13. ASSUME NEW th \in Pollers, epoll_wait(th)
       PROVE  Seen(g)'
  <2> DEFINE R(fd) == [fd |-> fd, ev |-> cond[fd] \cap (interest[fd] \cup {"HUP"})]
  <2>1. PICK S \in SUBSET {fd \in Fds : armed[fd]} :
          /\ batch[th] = {} /\ UNCHANGED <<events, cond>>
          /\ armed' = [fd \in Fds |-> armed[fd] /\ fd \notin S]
          /\ batch' = [batch EXCEPT ![th] = {r \in {R(fd) : fd \in S} : r.ev # {}}]
    BY <1>13 DEF epoll_wait
  <2>2. CASE g \notin S
    <3>1. armed[g] => armed'[g]
      BY <2>1, <2>2
    <3>2. \A x \in Pollers : \A r \in batch[x] : r \in batch'[x]
      BY <2>1 DEF ReportShapes
    <3>3. QED
      BY <1>3, <2>1, <3>1, <3>2, SeenKept
  <2>3. CASE g \in S
    <3> SUFFICES ASSUME NEW e \in events[g], e \in cond[g] \/ "HUP" \in cond[g]
                 PROVE  \E r \in batch'[th] : r.fd = g /\ e \in RealEvents(r)'
      BY <2>1 DEF Seen
    <3>1. e \in Event /\ interest[g] = events[g]
      BY DEF WatchInv, Shapes, WaiterWatched
    <3>2. PICK q : q = R(g)
      OBVIOUS
    <3>3. q.fd = g /\ q.ev = cond[g] \cap (interest[g] \cup {"HUP"})
      BY <3>2
    <3>4. (e \in q.ev /\ e \in Event) \/ "HUP" \in q.ev
      BY <3>1, <3>3
    <3>5. q \in batch'[th]
      BY <2>1, <2>3, <3>2, <3>4 DEF ReportShapes
    <3>6. e \in RealEvents(q)'
      BY <2>1, <3>3, <3>4 DEF RealEvents
    <3>7. QED
      BY <3>3, <3>5, <3>6
  <2>4. QED
    BY <2>2, <2>3
<1>14. ASSUME NEW th \in Pollers, NEW r \in batch[th], Handle(th, r)
       PROVE  Seen(g)'
  <2> DEFINE real == RealEvents(r)
  <2>0. r.fd \in Fds /\ batch' = [batch EXCEPT ![th] = @ \ {r}]
    BY <1>14 DEF ReportShapes, Report, Handle
  <2>1. \A x \in Pollers : \A q \in batch[x] : q # r => q \in batch'[x]
    BY <2>0 DEF ReportShapes
  <2>2. CASE /\ epoll_ctl(r.fd, events[r.fd] \ real) /\ events' = [events EXCEPT ![r.fd] = @ \ real]
    <3> HIDE DEF real
    <3>1. CASE g = r.fd
      <4>1. events'[g] \subseteq events[g] \ real
        BY <2>2, <3>1 DEF WatchInv, Shapes
      <4>2. QED
        BY <2>2, <3>1, <4>1, CtlSees
    <3>2. CASE g # r.fd
      <4>1. events'[g] = events[g] /\ cond' = cond /\ armed'[g] = armed[g]
        BY <2>0, <2>2, <3>2, CtlOthers DEF WatchInv, Shapes
      <4>2. QED
        BY <1>3, <2>1, <3>2, <4>1, SeenKept
    <3>3. QED
      BY <3>1, <3>2
  <2>3. CASE (events[r.fd] \cap real = {} \/ ~CtlOk(r.fd, FALSE)) /\ UNCHANGED <<events, cond, armed>>
    <3>1. CASE g # r.fd
      BY <1>3, <2>1, <2>3, <3>1, SeenKept
    <3>2. CASE g = r.fd /\ events[g] = {}
      BY <2>3, <3>2 DEF Seen
    <3>3. CASE g = r.fd /\ events[g] # {}
      <4>1. CtlOk(g, FALSE)
        BY <3>3 DEF CtlOk, WatchInv, WaiterWatched, Quiet
      <4>2. events[g] \cap real = {}
        BY <2>3, <3>3, <4>1
      <4>3. ASSUME NEW e \in events'[g], e \in cond'[g] \/ "HUP" \in cond'[g], ~armed'[g]
            PROVE  \E x \in Pollers : \E q \in batch'[x] : q.fd = g /\ e \in RealEvents(q)'
        <5>0. PICK x \in Pollers : \E q \in batch[x] : q.fd = g /\ e \in RealEvents(q)
          BY <1>3, <2>3, <4>3 DEF Seen
        <5>1. PICK q \in batch[x] : q.fd = g /\ e \in RealEvents(q)
          BY <5>0
        <5>2. q # r
          BY <2>3, <4>2, <4>3, <5>1
        <5>3. q \in batch'[x] /\ e \in RealEvents(q)'
          BY <2>1, <2>3, <5>1, <5>2 DEF RealEvents
        <5>4. QED
          BY <5>1, <5>3
      <4>4. QED
        BY <4>3 DEF Seen
    <3>4. QED
      BY <3>1, <3>2, <3>3
  <2>4. QED
    BY <1>2, <1>14, <2>2, <2>3 DEF Handle, triggerEvent, Clear
<1>15. QED
  BY <1>2, <1>5, <1>6, <1>7, <1>8, <1>9, <1>10, <1>11, <1>12, <1>13, <1>14 DEF FdNext, FdStep

(* No edge is missed: whenever a file is ready for a fiber that waits, the *)
(* descriptor is on epoll's ready list or a thread of idle() has a report  *)
(* that will trigger the event, although reports are handled late and out  *)
(* of order with addEvent, cancelEvent and close (iomanager.cc:406-460).   *)
THEOREM NoEdgeMissed ==
  ASSUME Exclusive
  PROVE  FdSpec => []ReadyIsSeen
<1>1. FdInit => ReadyIsSeen
  BY DEF FdInit, ReadyIsSeen
<1>2. WatchInv /\ ReportShapes /\ ReadyIsSeen /\ [FdNext]_fdVars => ReadyIsSeen'
  BY NextSeen
<1>3. QED
  BY <1>1, <1>2, WatchInvariant, PTL DEF FdSpec

-----------------------------------------------------------------------------
(***************************************************************************)
(* Timers.                                                                 *)
(***************************************************************************)

-----------------------------------------------------------------------------
(* Types *)

\* m_next - m_ms in Timer::reset does not wrap: a timer began at some clock.
Began == \A t \in Timers : m_ms[t] <= m_next[t]

\* The initial state has the types.
LEMMA InitType == Init => TypeOK /\ Began
<1> SUFFICES ASSUME Init PROVE TypeOK /\ Began
  OBVIOUS
<1>1. Began
  BY DEF Init, Began
<1>2. Boot \in Boot..MaxClock /\ 0 \in 0..MaxOwed
  BY ClockAssumption
<1>3. TypeOK
  BY <1>2 DEF Init, TypeOK, ThreadPc
<1>4. QED
  BY <1>1, <1>3

\* The timeout is a number of milliseconds or unlimited.
LEMMA EpollTimeoutType ==
  ASSUME NEW x \in Nat \cup {Never}
  PROVE  EpollTimeout(x) \in Nat \cup {Never}
<1>1. CASE x = Never
  BY <1>1, ClockAssumption DEF EpollTimeout
<1>2. CASE x \in Nat
  <2>1. ToInt(x) \in Int
    BY <1>2, ClockAssumption DEF ToInt
  <2>2. x # Never
    BY <1>2, ClockAssumption
  <2>3. QED
    BY <2>1, <2>2, ClockAssumption DEF EpollTimeout
<1>3. QED
  BY <1>1, <1>2

\* Inserting a timer keeps the set and the tickle protocol typed.
LEMMA AddTimerType ==
  ASSUME TypeOK, NEW t \in Timers, NEW next, addTimer(t, next)
  PROVE  /\ m_timers' \in SUBSET Timers
         /\ m_tickled' \in BOOLEAN
         /\ owed' \in 0..MaxOwed
<1>1. m_timers' \in SUBSET Timers
  BY DEF TypeOK, addTimer
<1>2. m_tickled' \in BOOLEAN /\ owed' \in 0..MaxOwed
  <2>1. CASE m_tickled' = TRUE /\ owed' = owed + 1
    BY <2>1, ClockAssumption DEF TypeOK, addTimer
  <2>2. CASE UNCHANGED <<m_tickled, owed>>
    BY <2>2 DEF TypeOK
  <2>3. QED
    BY <2>1, <2>2 DEF addTimer
<1>3. QED
  BY <1>1, <1>2

\* Every action preserves the types.
LEMMA NextType ==
  ASSUME TypeOK, Began, [Next]_vars
  PROVE  TypeOK' /\ Began'
<1> USE ClockAssumption DEF timerVars, tickleVars, threadVars, history, ThreadPc
<1>1. CASE UNCHANGED vars
  BY <1>1 DEF TypeOK, Began, vars
<1>2. CASE Tick
  BY <1>2 DEF TypeOK, Began, Tick
<1>3. ASSUME NEW t \in Timers, NEW ms \in Periods, NEW rec \in BOOLEAN,
             NewTimer(t, ms, rec)
      PROVE  TypeOK' /\ Began'
  <2>1. /\ m_next' \in [Timers -> Nat] /\ m_ms' \in [Timers -> Nat]
        /\ m_recurring' \in [Timers -> BOOLEAN] /\ m_cb' \in [Timers -> BOOLEAN]
        /\ phase' \in [Timers -> {"unused", "new", "added"}]
    BY <1>3 DEF TypeOK, NewTimer
  <2>2. QED
    BY <1>3, <2>1 DEF TypeOK, Began, NewTimer
<1>4. ASSUME NEW t \in Timers, InsertTimer(t)
      PROVE  TypeOK' /\ Began'
  <2>1. /\ m_timers' \in SUBSET Timers /\ m_tickled' \in BOOLEAN
        /\ owed' \in 0..MaxOwed
    BY <1>4, AddTimerType DEF InsertTimer
  <2>2. QED
    BY <1>4, <2>1 DEF TypeOK, Began, InsertTimer
<1>5. ASSUME NEW t \in Timers, cancel(t)
      PROVE  TypeOK' /\ Began'
  BY <1>5 DEF TypeOK, Began, cancel
<1>6. ASSUME NEW t \in Timers, refresh(t)
      PROVE  TypeOK' /\ Began'
  BY <1>6 DEF TypeOK, Began, refresh
<1>7. ASSUME NEW t \in Timers, NEW ms \in Periods, NEW from_now \in BOOLEAN,
             reset(t, ms, from_now)
      PROVE  TypeOK' /\ Began'
  <2>1. /\ m_timers' \in SUBSET Timers /\ m_tickled' \in BOOLEAN
        /\ owed' \in 0..MaxOwed
    BY <1>7, AddTimerType DEF reset
  <2>2. PICK start \in Nat : m_next' = [m_next EXCEPT ![t] = start + ms]
    <3>1. CASE from_now
      <4>1. clock \in Nat
        BY DEF TypeOK
      <4>2. m_next' = [m_next EXCEPT ![t] = clock + ms]
        BY <1>7, <3>1 DEF reset
      <4>3. QED
        BY <4>1, <4>2
    <3>2. CASE ~from_now
      <4>1. m_next[t] - m_ms[t] \in Nat
        BY DEF TypeOK, Began
      <4>2. QED
        BY <1>7, <3>2, <4>1 DEF reset
    <3>3. QED
      BY <3>1, <3>2
  <2>3. m_ms' = [m_ms EXCEPT ![t] = ms] /\ ms \in Nat
    BY <1>7 DEF reset
  <2>4. /\ m_next' \in [Timers -> Nat] /\ m_ms' \in [Timers -> Nat] /\ Began'
    BY <2>2, <2>3 DEF TypeOK, Began
  <2>5. QED
    BY <1>7, <2>1, <2>4 DEF TypeOK, reset
<1>8. CASE tickle
  <2>1. signal' \in BOOLEAN /\ owed' \in 0..MaxOwed
    BY <1>8 DEF TypeOK, tickle, hasIdleThreads
  <2>2. QED
    BY <1>8, <2>1 DEF TypeOK, Began, tickle
<1>9. ASSUME NEW th \in Threads, EnterIdle(th)
      PROVE  TypeOK' /\ Began'
  BY <1>9 DEF TypeOK, Began, EnterIdle
<1>10. ASSUME NEW th \in Threads, getNextTimer(th)
       PROVE  TypeOK' /\ Began'
  <2>1. PICK u, w : /\ until' = [until EXCEPT ![th] = EpollTimeout(u)]
                    /\ u \in Nat \cup {Never}
                    /\ target' = [target EXCEPT ![th] = w]
                    /\ w \in Int \cup {Never}
    <3>1. CASE /\ until' = [until EXCEPT ![th] = EpollTimeout(Never)]
               /\ target' = [target EXCEPT ![th] = Never]
      BY <3>1
    <3>2. CASE \E t \in FrontOf(m_timers, m_next) :
                 LET wait == IF clock >= m_next[t] THEN 0 ELSE m_next[t] - clock IN
                 /\ until' = [until EXCEPT ![th] = EpollTimeout(wait)]
                 /\ target' = [target EXCEPT ![th] = clock + wait]
      <4>1. PICK t \in Timers :
                 LET wait == IF clock >= m_next[t] THEN 0 ELSE m_next[t] - clock IN
                 /\ until' = [until EXCEPT ![th] = EpollTimeout(wait)]
                 /\ target' = [target EXCEPT ![th] = clock + wait]
        BY <3>2 DEF FrontOf, TypeOK
      <4> DEFINE wait == IF clock >= m_next[t] THEN 0 ELSE m_next[t] - clock
      <4>2. wait \in Nat /\ clock + wait \in Int
        BY DEF TypeOK
      <4>3. QED
        BY <4>1, <4>2
    <3>3. QED
      BY <1>10, <3>1, <3>2 DEF getNextTimer
  <2>2. EpollTimeout(u) \in Int \cup {Never}
    BY <2>1, EpollTimeoutType
  <2>3. until' \in [Threads -> Int \cup {Never}] /\ target' \in [Threads -> Int \cup {Never}]
    BY <2>1, <2>2 DEF TypeOK
  <2>4. QED
    BY <1>10, <2>3 DEF TypeOK, Began, getNextTimer
<1>11. ASSUME NEW th \in Threads, Sleep(th)
       PROVE  TypeOK' /\ Began'
  <2>1. until' \in [Threads -> Int \cup {Never}]
    BY <1>11 DEF TypeOK, Sleep
  <2>2. QED
    BY <1>11, <2>1 DEF TypeOK, Began, Sleep
<1>12. ASSUME NEW th \in Threads, Wake(th)
       PROVE  TypeOK' /\ Began'
  <2>1. signal' \in BOOLEAN
    BY <1>12 DEF TypeOK, Wake
  <2>2. QED
    BY <1>12, <2>1 DEF TypeOK, Began, Wake
<1>13. ASSUME NEW th \in Threads, Peek(th)
       PROVE  TypeOK' /\ Began'
  BY <1>13 DEF TypeOK, Began, Peek
<1>14. ASSUME NEW th \in Threads, listExpiredCb(th)
       PROVE  TypeOK' /\ Began'
  <2>1. Expired(now[th]) \subseteq m_timers
    BY DEF Expired
  <2>2. /\ m_next' \in [Timers -> Nat] /\ Began'
    BY <1>14 DEF TypeOK, Began, listExpiredCb
  <2>3. m_cb' \in [Timers -> BOOLEAN]
    BY <1>14 DEF TypeOK, listExpiredCb
  <2>4. /\ m_previouseTime' \in Boot..MaxClock
        /\ m_timers' \in SUBSET Timers
        /\ cbs' \in [Threads -> SUBSET Timers]
        /\ collected' \in SUBSET Timers
        /\ pc' \in [Threads -> ThreadPc]
    BY <1>14, <2>1 DEF TypeOK, listExpiredCb
  <2>5. QED
    BY <1>14, <2>2, <2>3, <2>4 DEF TypeOK, listExpiredCb
<1>15. ASSUME NEW th \in Threads, ScheduleCbs(th)
       PROVE  TypeOK' /\ Began'
  BY <1>15 DEF TypeOK, Began, ScheduleCbs
<1>16. QED
  BY <1>1, <1>2, <1>3, <1>4, <1>5, <1>6, <1>7, <1>8, <1>9, <1>10, <1>11, <1>12,
     <1>13, <1>14, <1>15
     DEF Next, UserStep, IdleStep

(* The types of TimerManager, its timers and the idle threads.             *)
THEOREM TimerTypes == Spec => []TypeOK
<1>1. Spec => [](TypeOK /\ Began)
  BY InitType, NextType, PTL DEF Spec
<1>2. QED
  BY <1>1, PTL

-----------------------------------------------------------------------------
(* The life of a timer.  CallbackMeansMember is not enough to show that a  *)
(* one-shot timer fires once or is cancelled: that needs to know that a    *)
(* timer with a collected or cancelled callback has no callback any more.  *)

Life(t) ==
    /\ phase[t] = "added" => (m_cb[t] <=> t \in m_timers)
    /\ phase[t] = "new" => m_cb[t]
    /\ phase[t] # "added" => t \notin m_timers /\ t \notin collected
                                               /\ t \notin cancelled
    /\ t \in cancelled => t \notin m_timers
    /\ t \in collected /\ ~m_recurring[t] => t \notin m_timers /\ t \notin cancelled

LifeInv == \A t \in Timers : Life(t)

\* Before any timer exists.
LEMMA InitLife == Init => LifeInv
BY DEF Init, LifeInv, Life

\* No step of a user or of an idle thread breaks the life of a timer.
LEMMA NextLife ==
  ASSUME TypeOK, LifeInv, [Next]_vars
  PROVE  LifeInv'
<1> USE DEF timerVars, tickleVars, threadVars, history
<1>1. CASE UNCHANGED <<phase, m_timers, m_recurring, m_cb, collected, cancelled>>
  BY <1>1 DEF LifeInv, Life
<1>2. ASSUME NEW t \in Timers, NEW ms \in Periods, NEW rec \in BOOLEAN,
             NewTimer(t, ms, rec)
      PROVE  LifeInv'
  BY <1>2 DEF TypeOK, LifeInv, Life, NewTimer
<1>3. ASSUME NEW t \in Timers, InsertTimer(t)
      PROVE  LifeInv'
  <2>1. m_timers' = m_timers \cup {t} /\ phase' = [phase EXCEPT ![t] = "added"]
        /\ phase[t] = "new" /\ UNCHANGED <<m_recurring, m_cb, collected, cancelled>>
    BY <1>3 DEF InsertTimer, addTimer
  <2>2. QED
    BY <2>1 DEF TypeOK, LifeInv, Life
<1>4. ASSUME NEW t \in Timers, cancel(t)
      PROVE  LifeInv'
  BY <1>4 DEF TypeOK, LifeInv, Life, cancel
<1>5. ASSUME NEW t \in Timers, refresh(t)
      PROVE  LifeInv'
  BY <1>1, <1>5 DEF refresh
<1>6. ASSUME NEW t \in Timers, NEW ms \in Periods, NEW from_now \in BOOLEAN,
             reset(t, ms, from_now)
      PROVE  LifeInv'
  <2>1. m_timers' = m_timers
    BY <1>6 DEF reset, addTimer
  <2>2. QED
    BY <1>1, <1>6, <2>1 DEF reset
<1>7. ASSUME NEW th \in Threads, listExpiredCb(th)
      PROVE  LifeInv'
  <2>1. Expired(now[th]) \subseteq m_timers
    BY DEF Expired
  <2>2. ASSUME NEW t \in Timers PROVE Life(t)'
    <3>1. Life(t)
      BY DEF LifeInv
    <3> DEFINE E == Expired(now[th])
    <3>2. /\ t \in m_timers' <=> (t \in m_timers /\ (t \notin E \/ m_recurring[t]))
          /\ m_cb'[t] <=> (m_cb[t] /\ (t \notin E \/ m_recurring[t]))
          /\ t \in collected' <=> (t \in collected \/ t \in E)
          /\ UNCHANGED <<phase, m_recurring, cancelled>>
      BY <1>7, <2>1 DEF listExpiredCb
    <3>3. t \in E => t \in m_timers
      BY <2>1
    <3> HIDE DEF E
    <3>4. QED
      BY <3>1, <3>2, <3>3 DEF Life
  <2>3. QED
    BY <2>2 DEF LifeInv
<1>8. ASSUME NEW th \in Threads,
             EnterIdle(th) \/ getNextTimer(th) \/ Sleep(th) \/ Wake(th)
             \/ Peek(th) \/ ScheduleCbs(th)
      PROVE  LifeInv'
  BY <1>1, <1>8 DEF EnterIdle, getNextTimer, Sleep, Wake, Peek, ScheduleCbs
<1>9. CASE Tick \/ tickle
  BY <1>1, <1>9 DEF Tick, tickle
<1>10. QED
  BY <1>1, <1>2, <1>3, <1>4, <1>5, <1>6, <1>7, <1>8, <1>9
     DEF Next, UserStep, IdleStep, vars

\* Types and lives together.
LEMMA LifeInvariant == Spec => [](TypeOK /\ Began /\ LifeInv)
<1> DEFINE I == TypeOK /\ Began /\ LifeInv
<1>1. Init => I
  BY InitType, InitLife
<1>2. I /\ [Next]_vars => I'
  BY NextType, NextLife
<1> HIDE DEF I
<1>3. Spec => []I
  BY <1>1, <1>2, PTL DEF Spec
<1>4. QED
  BY <1>3 DEF I

(* The erase in cancel() always finds the timer in the set.                *)
THEOREM CancelFindsTimer == Spec => []CallbackMeansMember
<1>1. LifeInv => CallbackMeansMember
  BY DEF LifeInv, Life, CallbackMeansMember
<1>2. QED
  BY <1>1, LifeInvariant, PTL

(* A one-shot timer is collected or cancelled, never both.                 *)
THEOREM OneFate == Spec => []OneShotFate
<1>1. LifeInv => OneShotFate
  BY DEF LifeInv, Life, OneShotFate
<1>2. QED
  BY <1>1, LifeInvariant, PTL

(* Both together: cancel() finds its timer and is final.                   *)
THEOREM CancelCorrect == Spec => []CancelIsExact
<1>1. CallbackMeansMember /\ OneShotFate => CancelIsExact
  BY DEF CancelIsExact
<1>2. QED
  BY <1>1, CancelFindsTimer, OneFate, PTL

(* A one-shot timer is collected once.                                     *)
THEOREM OneShotFiresOnce == Spec => FiresOnce
<1>1. ASSUME TypeOK, LifeInv, [Next]_vars
      PROVE  [\A t \in collected : ~m_recurring[t] =>
                \A th \in Threads : t \notin cbs'[th] \ cbs[th]]_vars
  <2>1. SUFFICES ASSUME NEW t \in collected, ~m_recurring[t], NEW th \in Threads
                 PROVE  t \notin cbs'[th] \ cbs[th]
    OBVIOUS
  <2>2. t \in Timers /\ t \notin m_timers
    BY <1>1, <2>1 DEF TypeOK, LifeInv, Life
  <2>3. CASE \E s \in Threads : listExpiredCb(s)
    <3>1. PICK s \in Threads : cbs' = [cbs EXCEPT ![s] = Expired(now[s])]
      BY <2>3 DEF listExpiredCb
    <3>2. t \notin Expired(now[s])
      BY <2>2 DEF Expired
    <3>3. QED
      BY <1>1, <3>1, <3>2 DEF TypeOK
  <2>4. CASE \E s \in Threads : ScheduleCbs(s)
    BY <1>1, <2>4 DEF TypeOK, ScheduleCbs
  <2>5. CASE UNCHANGED cbs
    BY <2>5
  <2>6. QED
    BY <1>1, <2>3, <2>4, <2>5 DEF Next, UserStep, IdleStep, vars, threadVars,
       Tick, NewTimer, InsertTimer, tickle, cancel, refresh, reset, EnterIdle,
       getNextTimer, Sleep, Wake, Peek
<1>2. QED
  BY <1>1, LifeInvariant, PTL DEF Spec, FiresOnce

-----------------------------------------------------------------------------
(* No timer fires early on a host that has been up for at least Hour,      *)
(* while no thread is stalled for Hour between reading the clock and       *)
(* taking the lock (here: the whole run is shorter than that).             *)

LongUp == Hour <= Boot /\ MaxClock - Boot <= Hour

\* uint64_t arithmetic that does not wrap.
LEMMA SmallMod ==
  ASSUME NEW x \in Nat, NEW w \in Nat, x < w
  PROVE  x % w = x
OBVIOUS

\* No thread has read a clock that has not come.
Read == \A th \in Threads : now[th] <= clock

\* The clock does not go back.
LEMMA NextRead ==
  ASSUME TypeOK, Began, Read, [Next]_vars
  PROVE  Read' /\ clock' >= clock /\ clock \in Nat /\ clock' \in Nat
<1>1. clock' >= clock
  <2>1. CASE Tick
    BY <2>1, ClockAssumption DEF TypeOK, Tick
  <2>2. CASE UNCHANGED clock
    BY <2>2, ClockAssumption DEF TypeOK
  <2>3. QED
    BY <2>1, <2>2 DEF Next, UserStep, IdleStep, vars,
       NewTimer, InsertTimer, tickle, cancel, refresh, reset, EnterIdle,
       getNextTimer, Sleep, Wake, Peek, listExpiredCb, ScheduleCbs
<1>2. \A th \in Threads : now'[th] \in {now[th], clock, Boot}
  BY DEF TypeOK, Next, UserStep, IdleStep, vars, threadVars, Tick,
     NewTimer, InsertTimer, tickle, cancel, refresh, reset, EnterIdle,
     getNextTimer, Sleep, Wake, Peek, listExpiredCb, ScheduleCbs
<1>3. clock \in Nat /\ clock' \in Nat /\ Boot <= clock /\ now \in [Threads -> Nat]
  BY NextType, ClockAssumption DEF TypeOK
<1>4. QED
  BY <1>1, <1>2, <1>3, ClockAssumption DEF Read

(* listExpiredCb collects only callbacks that are due.                     *)
THEOREM NeverEarly ==
  ASSUME LongUp
  PROVE  Spec => NoEarlyFire
<1>1. Init => Read
  BY ClockAssumption DEF Init, Read
<1>2. TypeOK /\ Began /\ Read /\ [Next]_vars => Read'
  BY NextRead
<1>3. ASSUME TypeOK, Read, [Next]_vars
      PROVE  [\A th \in Threads : \A t \in cbs'[th] \ cbs[th] : m_next[t] <= clock]_vars
  <2>1. SUFFICES ASSUME NEW th \in Threads, NEW t \in cbs'[th] \ cbs[th]
                 PROVE  m_next[t] <= clock
    OBVIOUS
  <2>2. CASE \E s \in Threads : listExpiredCb(s)
    <3>1. PICK s \in Threads : cbs' = [cbs EXCEPT ![s] = Expired(now[s])]
      BY <2>2 DEF listExpiredCb
    <3>2. ~detectClockRollover(now[s])
      <4>1. m_previouseTime - Hour \in Nat /\ m_previouseTime - Hour < Word
            /\ m_previouseTime - Hour <= now[s]
        BY <1>3, ClockAssumption DEF TypeOK, LongUp, Read
      <4>2. (m_previouseTime - Hour) % Word = m_previouseTime - Hour
        BY <4>1, SmallMod, ClockAssumption
      <4>3. now[s] \in Int
        BY <1>3, ClockAssumption DEF TypeOK
      <4>4. QED
        BY <4>1, <4>2, <4>3 DEF detectClockRollover
    <3>3. t \in Expired(now[s])
      BY <1>3, <2>1, <3>1 DEF TypeOK
    <3>4. t \in Timers /\ m_next[t] <= now[s]
      BY <1>3, <3>2, <3>3 DEF Expired, TypeOK
    <3>5. m_next[t] \in Nat /\ now[s] \in Int /\ clock \in Int /\ now[s] <= clock
      BY <1>3, <3>4, ClockAssumption DEF TypeOK, Read
    <3>6. QED
      BY <3>4, <3>5
  <2>3. CASE \E s \in Threads : ScheduleCbs(s)
    BY <1>3, <2>1, <2>3 DEF TypeOK, ScheduleCbs
  <2>4. CASE UNCHANGED cbs
    BY <2>1, <2>4
  <2>5. QED
    BY <1>3, <2>2, <2>3, <2>4 DEF Next, UserStep, IdleStep, vars, threadVars,
       Tick, NewTimer, InsertTimer, tickle, cancel, refresh, reset, EnterIdle,
       getNextTimer, Sleep, Wake, Peek
<1>4. Spec => [](TypeOK /\ Read)
  BY <1>1, <1>2, LifeInvariant, PTL DEF Spec
<1>5. QED
  BY <1>3, <1>4, PTL DEF Spec, NoEarlyFire

-----------------------------------------------------------------------------
(* No timer is overlooked.                                                 *)

\* A timer is due at most its period from now, so that refresh() only moves it back.
Started == \A t \in Timers : m_next[t] <= clock + m_ms[t] /\ m_ms[t] \in Periods \cup {0}

\* Someone is awake, or will be woken.
Roused == signal \/ owed > 0 \/ \E th \in Threads : pc[th] \notin {"asked", "wait"}

\* Some thread looks at the timer in time.
Covered(t) ==
    Roused \/ \E th \in Threads : target[th] # Never /\ (target[th] <= m_next[t] \/ target[th] <= clock)

\* m_tickled suppresses a tickle only while an earlier one is on its way or has woken a thread.
TickleComes == m_tickled => Roused

\* The timeout passed to epoll_wait is a limit.
Limited == \A th \in Threads : pc[th] \in {"asked", "wait"} => until[th] # Never

\* Every period fits an int: (int)next_timeout in idle() does not turn negative.
ShortPeriods == \A ms \in Periods : ms < IntHalf

\* The times of the timers.
LEMMA NextStarted ==
  ASSUME TypeOK, Began, Read, Started, [Next]_vars
  PROVE  Started'
<1> USE DEF timerVars, tickleVars, threadVars, history
<1>0. /\ clock' >= clock /\ clock \in Nat /\ clock' \in Nat
      /\ m_next \in [Timers -> Nat] /\ m_ms \in [Timers -> Nat] /\ Periods \subseteq Nat
  BY NextRead, ClockAssumption DEF TypeOK
<1>1. CASE UNCHANGED <<m_next, m_ms>>
  BY <1>0, <1>1 DEF Started
<1>2. ASSUME NEW t \in Timers, NEW ms \in Periods, NEW start \in Nat, start <= clock, UNCHANGED clock,
             m_next' = [m_next EXCEPT ![t] = start + ms], m_ms' = [m_ms EXCEPT ![t] = ms]
      PROVE  Started'
  BY <1>0, <1>2 DEF Started
<1>3. ASSUME NEW t \in Timers, NEW ms \in Periods, NEW rec \in BOOLEAN, NewTimer(t, ms, rec)
      PROVE  Started'
  BY <1>0, <1>2, <1>3 DEF NewTimer
<1>4. ASSUME NEW t \in Timers, refresh(t)
      PROVE  Started'
  BY <1>0, <1>4 DEF refresh, Started
<1>5. ASSUME NEW t \in Timers, NEW ms \in Periods, NEW from_now \in BOOLEAN, reset(t, ms, from_now)
      PROVE  Started'
  <2>1. UNCHANGED clock /\ m_ms' = [m_ms EXCEPT ![t] = ms]
    BY <1>5 DEF reset
  <2>2. CASE from_now
    <3>1. m_next' = [m_next EXCEPT ![t] = clock + ms]
      BY <1>5, <2>2 DEF reset
    <3>2. QED
      BY <1>0, <1>2, <2>1, <3>1
  <2>3. CASE ~from_now
    <3>1. m_next' = [m_next EXCEPT ![t] = (m_next[t] - m_ms[t]) + ms]
      BY <1>5, <2>3 DEF reset
    <3>2. m_next[t] - m_ms[t] \in Nat /\ m_next[t] - m_ms[t] <= clock
      BY <1>0 DEF Began, Started
    <3>3. QED
      BY <1>2, <2>1, <3>1, <3>2
  <2>4. QED
    BY <2>2, <2>3
<1>6. ASSUME NEW th \in Threads, listExpiredCb(th)
      PROVE  Started'
  <2>1. /\ UNCHANGED <<clock, m_ms>>
        /\ \A t \in Timers : m_next'[t] \in {now[th] + m_ms[t], m_next[t]}
    BY <1>6 DEF listExpiredCb
  <2>2. now[th] <= clock /\ now[th] \in Nat
    BY ClockAssumption DEF TypeOK, Read
  <2>3. QED
    BY <1>0, <2>1, <2>2 DEF Started
<1>7. QED
  BY <1>1, <1>3, <1>4, <1>5, <1>6 DEF Next, UserStep, IdleStep, vars, Tick, InsertTimer, tickle, cancel,
     EnterIdle, getNextTimer, Sleep, Wake, Peek, ScheduleCbs

\* What getNextTimer returns fits, so that the thread does not sleep for ever.
LEMMA TimeoutLimited ==
  ASSUME NEW w \in Nat, w < IntHalf
  PROVE  EpollTimeout(w) # Never /\ EpollTimeout(Never) # Never
<1>1. ToInt(w) = w
  <2>1. w + IntHalf \in Nat /\ 2 * IntHalf \in Nat /\ w + IntHalf < 2 * IntHalf
    BY ClockAssumption
  <2>2. (w + IntHalf) % (2 * IntHalf) = w + IntHalf
    BY <2>1, SmallMod
  <2>3. QED
    BY <2>2, ClockAssumption DEF ToInt
<1>2. QED
  BY <1>1, ClockAssumption DEF EpollTimeout

\* getNextTimer: what it tells the thread.
LEMMA NextTimerTells ==
  ASSUME TypeOK, Started, NEW th \in Threads, getNextTimer(th)
  PROVE  /\ target' = [target EXCEPT ![th] = target'[th]] /\ until' = [until EXCEPT ![th] = until'[th]]
         /\ \A t \in m_timers : target'[th] # Never /\ (target'[th] <= m_next[t] \/ target'[th] <= clock)
         /\ ShortPeriods => until'[th] # Never
<1>0. /\ clock \in Nat /\ m_next \in [Timers -> Nat] /\ m_ms \in [Timers -> Nat] /\ m_timers \subseteq Timers
      /\ target \in [Threads -> Int \cup {Never}] /\ until \in [Threads -> Int \cup {Never}]
  BY ClockAssumption DEF TypeOK
<1>1. CASE /\ m_timers = {} /\ until' = [until EXCEPT ![th] = EpollTimeout(Never)]
           /\ target' = [target EXCEPT ![th] = Never]
  <2>1. 0 \in Nat /\ 0 < IntHalf
    BY ClockAssumption
  <2>2. EpollTimeout(Never) # Never
    BY <2>1, TimeoutLimited
  <2>3. QED
    BY <1>0, <1>1, <2>2
<1>2. ASSUME NEW t \in FrontOf(m_timers, m_next),
             LET wait == IF clock >= m_next[t] THEN 0 ELSE m_next[t] - clock
             IN  /\ until' = [until EXCEPT ![th] = EpollTimeout(wait)]
                 /\ target' = [target EXCEPT ![th] = clock + wait]
      PROVE  /\ target' = [target EXCEPT ![th] = target'[th]] /\ until' = [until EXCEPT ![th] = until'[th]]
             /\ \A u \in m_timers : target'[th] # Never /\ (target'[th] <= m_next[u] \/ target'[th] <= clock)
             /\ ShortPeriods => until'[th] # Never
  <2> DEFINE wait == IF clock >= m_next[t] THEN 0 ELSE m_next[t] - clock
  <2>1. t \in m_timers /\ t \in Timers /\ \A u \in m_timers : u \in Timers /\ m_next[t] <= m_next[u]
    BY <1>0 DEF FrontOf
  <2>2. /\ wait \in Nat /\ (clock + wait = m_next[t] \/ clock + wait = clock)
        /\ wait <= m_ms[t]
    BY <1>0, <2>1 DEF Started
  <2>3. /\ until' = [until EXCEPT ![th] = EpollTimeout(wait)] /\ target' = [target EXCEPT ![th] = clock + wait]
    BY <1>2
  <2> HIDE DEF wait
  <2>4. until'[th] = EpollTimeout(wait) /\ target'[th] = clock + wait
    BY <1>0, <2>3
  <2>5. clock + wait # Never
    BY <1>0, <2>2, ClockAssumption
  <2>6. ShortPeriods => until'[th] # Never
    <3> SUFFICES ASSUME ShortPeriods PROVE until'[th] # Never
      OBVIOUS
    <3>1. m_ms[t] < IntHalf
      <4>1. CASE m_ms[t] \in Periods
        BY <4>1 DEF ShortPeriods
      <4>2. CASE m_ms[t] = 0
        BY <4>2, ClockAssumption
      <4>3. m_ms[t] \in Periods \/ m_ms[t] = 0
        BY <2>1 DEF Started
      <4>4. QED
        BY <4>1, <4>2, <4>3
    <3>2. wait < IntHalf
      BY <1>0, <2>1, <2>2, <3>1, ClockAssumption
    <3>3. QED
      BY <2>2, <2>4, <3>2, TimeoutLimited
  <2>7. \A u \in m_timers : target'[th] # Never /\ (target'[th] <= m_next[u] \/ target'[th] <= clock)
    BY <1>0, <2>1, <2>2, <2>4, <2>5
  <2>8. QED
    BY <2>3, <2>4, <2>6, <2>7
<1>3. QED
  BY <1>1, <1>2 DEF getNextTimer

\* A timer that is not moved forward stays covered.
LEMMA CoverKept ==
  ASSUME TypeOK, TypeOK', NEW t \in Timers, Covered(t), m_next[t] <= m_next'[t], clock <= clock',
         Roused => Roused', UNCHANGED target
  PROVE  Covered(t)'
<1>1. clock \in Int /\ clock' \in Int /\ m_next[t] \in Int /\ m_next'[t] \in Int
      /\ \A th \in Threads : target[th] # Never => target[th] \in Int
  BY ClockAssumption DEF TypeOK
<1>2. QED
  BY <1>1 DEF Covered

\* A timer comes into the set, or moves in it: it is behind another one, or a tickle is owed, or one
\* was made before.
LEMMA AddCovers ==
  ASSUME TypeOK, TypeOK', TickleComes, \A u \in m_timers : Covered(u), NEW t \in Timers,
         addTimer(t, m_next'), \A u \in Timers : u # t => m_next'[u] = m_next[u],
         UNCHANGED <<clock, signal, pc, target>>
  PROVE  (\A u \in m_timers' : Covered(u)') /\ TickleComes'
<1>0. /\ clock \in Int /\ m_next \in [Timers -> Nat] /\ m_next' \in [Timers -> Nat] /\ m_timers \subseteq Timers
      /\ owed \in Nat /\ m_timers' = m_timers \cup {t}
  BY ClockAssumption DEF TypeOK, addTimer
<1>1. PICK front \in BOOLEAN :
        /\ FrontOf(m_timers \cup {t}, m_next') = {t} => front
        /\ IF front /\ ~m_tickled THEN m_tickled' = TRUE /\ owed' = owed + 1 ELSE UNCHANGED <<m_tickled, owed>>
  BY DEF addTimer
<1>2. Roused => Roused'
  BY <1>0, <1>1 DEF Roused
<1>3. TickleComes'
  <2>1. CASE front /\ ~m_tickled
    <3>1. owed' = owed + 1
      BY <1>1, <2>1
    <3>2. owed' > 0
      BY <1>0, <3>1
    <3>3. Roused'
      BY <3>2 DEF Roused
    <3>4. QED
      BY <3>3 DEF TickleComes
  <2>2. CASE ~(front /\ ~m_tickled)
    <3>1. m_tickled' = m_tickled
      BY <1>1, <2>2
    <3>2. QED
      BY <1>2, <3>1 DEF TickleComes
  <2>3. QED
    BY <2>1, <2>2
<1>4. ASSUME NEW u \in m_timers, u # t
      PROVE  Covered(u)'
  <2>1. m_next[u] <= m_next'[u] /\ u \in Timers
    BY <1>0, <1>4
  <2>2. QED
    BY <1>0, <1>2, <2>1, CoverKept
<1>5. Covered(t)'
  <2>1. CASE front
    BY <1>0, <1>1, <1>2, <2>1 DEF Covered, TickleComes, Roused
  <2>2. CASE ~front
    <3>1. PICK u \in m_timers : u # t /\ m_next'[u] <= m_next'[t]
      <4>1. SUFFICES ASSUME \A u \in m_timers : u # t => ~(m_next'[u] <= m_next'[t])
                     PROVE  FALSE
        OBVIOUS
      <4>2. FrontOf(m_timers \cup {t}, m_next') = {t}
        BY <1>0, <4>1 DEF FrontOf
      <4>3. QED
        BY <1>1, <2>2, <4>2
    <3>2. Covered(u)' /\ u \in Timers
      BY <1>0, <1>4, <3>1
    <3>3. \A th \in Threads : target'[th] # Never => target'[th] \in Int
      BY DEF TypeOK
    <3>4. QED
      BY <1>0, <3>1, <3>2, <3>3 DEF Covered
  <2>3. QED
    BY <1>1, <2>1, <2>2
<1>6. QED
  BY <1>0, <1>3, <1>4, <1>5

\* Every step keeps every timer of the set covered.
LEMMA NextCovered ==
  ASSUME TypeOK, Began, LifeInv, Read, Started, TickleComes, \A t \in m_timers : Covered(t), [Next]_vars
  PROVE  (\A t \in m_timers' : Covered(t)') /\ TickleComes'
<1> USE DEF timerVars, tickleVars, threadVars, history
<1>0. /\ TypeOK' /\ clock' >= clock /\ clock \in Nat /\ clock' \in Nat /\ m_timers \subseteq Timers
      /\ m_next \in [Timers -> Nat] /\ m_next' \in [Timers -> Nat] /\ m_ms \in [Timers -> Nat]
      /\ pc \in [Threads -> ThreadPc] /\ owed \in Nat
  BY NextRead, NextType, ClockAssumption DEF TypeOK
<1>1. ASSUME m_timers' \subseteq m_timers, \A t \in m_timers : m_next[t] <= m_next'[t], Roused => Roused',
             UNCHANGED <<m_tickled, target>>
      PROVE  (\A t \in m_timers' : Covered(t)') /\ TickleComes'
  BY <1>0, <1>1, CoverKept DEF TickleComes
<1>2. ASSUME Roused'
      PROVE  (\A t \in m_timers' : Covered(t)') /\ TickleComes'
  BY <1>2 DEF Covered, TickleComes
<1>3. \A t \in m_timers : m_next[t] \in Nat /\ m_next[t] <= m_next[t]
  BY <1>0
<1>4. CASE UNCHANGED vars
  BY <1>1, <1>3, <1>4 DEF vars, Roused
<1>5. CASE Tick
  BY <1>1, <1>3, <1>5 DEF Tick, Roused
<1>6. ASSUME NEW t \in Timers, NEW ms \in Periods, NEW rec \in BOOLEAN, NewTimer(t, ms, rec)
      PROVE  (\A u \in m_timers' : Covered(u)') /\ TickleComes'
  <2>1. t \notin m_timers /\ m_next' = [m_next EXCEPT ![t] = clock + ms]
        /\ UNCHANGED <<m_timers, m_tickled, target, signal, owed, pc>>
    BY <1>6 DEF NewTimer, LifeInv, Life
  <2>2. \A u \in m_timers : m_next[u] <= m_next'[u]
    BY <1>0, <1>3, <2>1
  <2>3. QED
    BY <1>1, <2>1, <2>2 DEF Roused
<1>7. ASSUME NEW t \in Timers, InsertTimer(t)
      PROVE  (\A u \in m_timers' : Covered(u)') /\ TickleComes'
  BY <1>0, <1>7, AddCovers DEF InsertTimer
<1>8. ASSUME NEW t \in Timers, cancel(t)
      PROVE  (\A u \in m_timers' : Covered(u)') /\ TickleComes'
  BY <1>1, <1>3, <1>8 DEF cancel, Roused
<1>9. ASSUME NEW t \in Timers, refresh(t)
      PROVE  (\A u \in m_timers' : Covered(u)') /\ TickleComes'
  <2>1. m_next' = [m_next EXCEPT ![t] = clock + m_ms[t]] /\ UNCHANGED <<m_timers, m_tickled, target, signal, owed, pc>>
    BY <1>9 DEF refresh
  <2>2. m_next[t] <= clock + m_ms[t]
    BY DEF Started
  <2>3. \A u \in m_timers : m_next[u] <= m_next'[u]
    BY <1>0, <1>3, <2>1, <2>2
  <2>4. QED
    BY <1>1, <2>1, <2>3 DEF Roused
<1>10. ASSUME NEW t \in Timers, NEW ms \in Periods, NEW from_now \in BOOLEAN, reset(t, ms, from_now)
       PROVE  (\A u \in m_timers' : Covered(u)') /\ TickleComes'
  <2>1. /\ addTimer(t, m_next') /\ UNCHANGED <<clock, signal, pc, target>>
    BY <1>10 DEF reset
  <2>2. \A u \in Timers : u # t => m_next'[u] = m_next[u]
    BY <1>0, <1>10 DEF reset
  <2>3. QED
    BY <1>0, <2>1, <2>2, AddCovers
<1>11. CASE tickle
  <2>1. CASE hasIdleThreads
    BY <1>2, <1>11, <2>1 DEF tickle, Roused
  <2>2. CASE ~hasIdleThreads
    <3>1. \A th \in Threads : pc'[th] = "out"
      BY <1>11, <2>2 DEF tickle, hasIdleThreads
    <3>2. Roused'
      BY <3>1, ClockAssumption DEF Roused
    <3>3. QED
      BY <1>2, <3>2
  <2>3. QED
    BY <2>1, <2>2
<1>12. ASSUME NEW th \in Threads, EnterIdle(th) \/ Wake(th) \/ Peek(th) \/ listExpiredCb(th) \/ ScheduleCbs(th)
       PROVE  (\A u \in m_timers' : Covered(u)') /\ TickleComes'
  <2>1. pc'[th] \notin {"asked", "wait"}
    BY <1>0, <1>12 DEF EnterIdle, Wake, Peek, listExpiredCb, ScheduleCbs
  <2>2. QED
    BY <1>2, <2>1 DEF Roused
<1>13. ASSUME NEW th \in Threads, getNextTimer(th)
       PROVE  (\A u \in m_timers' : Covered(u)') /\ TickleComes'
  <2>1. ~m_tickled' /\ UNCHANGED <<m_timers, m_next, clock>>
    BY <1>13 DEF getNextTimer
  <2>2. \A u \in m_timers : target'[th] # Never /\ (target'[th] <= m_next[u] \/ target'[th] <= clock)
    BY <1>13, NextTimerTells
  <2>3. QED
    BY <2>1, <2>2 DEF Covered, TickleComes
<1>14. ASSUME NEW th \in Threads, Sleep(th)
       PROVE  (\A u \in m_timers' : Covered(u)') /\ TickleComes'
  <2>1. pc[th] = "asked" /\ pc' = [pc EXCEPT ![th] = "wait"] /\ UNCHANGED <<m_timers, m_next, m_tickled, target, signal, owed>>
    BY <1>14 DEF Sleep
  <2>2. Roused => Roused'
    BY <1>0, <2>1 DEF Roused
  <2>3. QED
    BY <1>1, <1>3, <2>1, <2>2
<1>15. QED
  BY <1>4, <1>5, <1>6, <1>7, <1>8, <1>9, <1>10, <1>11, <1>12, <1>13, <1>14 DEF Next, UserStep, IdleStep

\* No thread is about to sleep without a limit.
LEMMA NextLimited ==
  ASSUME ShortPeriods, TypeOK, Started, Limited, [Next]_vars
  PROVE  Limited'
<1> USE DEF timerVars, tickleVars, threadVars, history
<1>0. pc \in [Threads -> ThreadPc] /\ until \in [Threads -> Int \cup {Never}] /\ clock \in Int
  BY ClockAssumption DEF TypeOK
<1>1. CASE UNCHANGED <<pc, until>>
  BY <1>1 DEF Limited
<1>2. ASSUME NEW th \in Threads, UNCHANGED until, pc' = [pc EXCEPT ![th] = pc'[th]], pc'[th] \notin {"asked", "wait"}
      PROVE  Limited'
  BY <1>0, <1>2 DEF Limited
<1>3. ASSUME NEW th \in Threads, EnterIdle(th) \/ Peek(th) \/ listExpiredCb(th) \/ ScheduleCbs(th)
      PROVE  Limited'
  BY <1>0, <1>2, <1>3 DEF EnterIdle, Peek, listExpiredCb, ScheduleCbs
<1>4. ASSUME NEW th \in Threads, Wake(th)
      PROVE  Limited'
  BY <1>0, <1>4 DEF Wake, Limited
<1>5. ASSUME NEW th \in Threads, Sleep(th)
      PROVE  Limited'
  <2>1. /\ pc[th] = "asked" /\ pc' = [pc EXCEPT ![th] = "wait"]
        /\ until' = [until EXCEPT ![th] = IF @ = Never THEN Never ELSE clock + @]
    BY <1>5 DEF Sleep
  <2>2. until[th] # Never /\ until[th] \in Int
    BY <1>0, <2>1 DEF Limited
  <2>3. until'[th] # Never
    BY <1>0, <2>1, <2>2, ClockAssumption
  <2>4. QED
    BY <1>0, <2>1, <2>3 DEF Limited
<1>6. ASSUME NEW th \in Threads, getNextTimer(th)
      PROVE  Limited'
  <2>1. pc' = [pc EXCEPT ![th] = "asked"]
    BY <1>6 DEF getNextTimer
  <2>2. until' = [until EXCEPT ![th] = until'[th]] /\ until'[th] # Never
    BY <1>6, NextTimerTells
  <2>3. QED
    BY <1>0, <2>1, <2>2 DEF Limited
<1>7. QED
  BY <1>1, <1>3, <1>4, <1>5, <1>6 DEF Next, UserStep, IdleStep, vars, Tick, NewTimer, InsertTimer, tickle, cancel,
     refresh, reset

(* No timer is overlooked, for any number of timers and threads, while the *)
(* periods fit an int: m_tickled never suppresses the tickle that would    *)
(* have been needed, and idle() never sleeps without a limit               *)
(* (timer.cc:121-123 and 179-190, iomanager.cc:378-390).                   *)
THEOREM NoTimerOverlooked ==
  ASSUME ShortPeriods
  PROVE  Spec => []Watched
<1> DEFINE W == Read /\ Started /\ TickleComes /\ Limited /\ \A t \in m_timers : Covered(t)
<1>1. Init => W
  BY ClockAssumption DEF Init, Read, Started, TickleComes, Limited
<1>2. TypeOK /\ Began /\ LifeInv /\ W /\ [Next]_vars => W'
  BY NextRead, NextStarted, NextCovered, NextLimited
<1>3. W => Watched
  BY DEF Covered, Roused, Limited, Watched
<1> HIDE DEF W
<1>4. QED
  BY <1>1, <1>2, <1>3, LifeInvariant, PTL DEF Spec
=============================================================================
