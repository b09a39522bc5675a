------------------------------ MODULE HookProofs ------------------------------
(***************************************************************************)
(* Theorems about HookIO, for any calls, timeouts, bounds and files.  Only *)
(* what connect() returns needs the discipline Exclusive.                  *)
(***************************************************************************)
EXTENDS HookIO, TLAPS

-----------------------------------------------------------------------------
(* Who waits is registered, for its own direction; timers belong to calls  *)
(* between addConditionTimer and the cancel after they are resumed.        *)

Registered ==
    /\ \A c \in Calls : pc[c] = "wait" <=> \E e \in Event : events[e] = c
    /\ \A e \in Event : events[e] # NoCall => Dir(events[e]) = e

Armed(c) == pc[c] \in {"armed", "wait", "woken"}

TimersOwned == \A p \in m_timers : Armed(p[1]) /\ p[2] = tries[p[1]]

WaiterInv == TypeOK /\ Registered /\ TimersOwned

\* The direction of a call is one of the two events.
LEMMA DirIsEvent == ASSUME NEW c \in Calls PROVE Dir(c) \in Event
BY CallsAssumption DEF Dir, Event

\* Nothing is registered and no timer exists before the first call.
LEMMA InitWaiter == Init => WaiterInv
<1> SUFFICES ASSUME Init PROVE WaiterInv
  OBVIOUS
<1>0. aborted \in BOOLEAN
  BY Zenon DEF Init
<1>1. TypeOK
  BY <1>0, CallsAssumption DEF Init, TypeOK, Event
<1>2. Registered
  BY CallsAssumption DEF Init, Registered, Event
<1>3. TimersOwned
  BY DEF Init, TimersOwned
<1>4. QED
  BY <1>1, <1>2, <1>3 DEF WaiterInv

\* A step of a fiber inside its call.
LEMMA FiberStepTypes ==
  ASSUME TypeOK, NEW c \in Calls, Call(c) \/ addEvent(c) \/ Resume(c)
  PROVE  TypeOK'
<1> USE DirIsEvent, CallsAssumption DEF TypeOK, callVars, timerVars, eventVars, fileVars
<1>1. CASE Call(c)
  <2>1. CASE Finish(c, "error") /\ UNCHANGED <<tries, m_timers, ready, conn>>
    BY <1>1, <2>1 DEF Call, Finish
  <2>2. CASE Transfer(c)
    BY <1>1, <2>2 DEF Call, Finish, Transfer, Taken, WouldBlock, Try
  <2>3. CASE Connect(c)
    BY <1>1, <2>3 DEF Call, Finish, Connect, WouldBlock, Try
  <2>4. QED
    BY <1>1, <2>1, <2>2, <2>3 DEF Call
<1>2. CASE addEvent(c)
  <2>1. CASE aborted' = TRUE /\ UNCHANGED <<pc, result, m_timers, events, inside>>
    <3>1. aborted' \in BOOLEAN
      BY <2>1, Zenon
    <3>2. QED
      BY <1>2, <2>1, <3>1 DEF addEvent
  <2>2. CASE ~(aborted' = TRUE /\ UNCHANGED <<pc, result, m_timers, events, inside>>)
    BY <1>2, <2>2 DEF addEvent, Finish, CancelTimer
  <2>3. QED
    BY <2>1, <2>2
<1>3. CASE Resume(c)
  BY <1>3 DEF Resume, Finish, CancelTimer, SO_ERROR
<1>4. QED
  BY <1>1, <1>2, <1>3

\* Every step keeps the types.
LEMMA NextTypes ==
  ASSUME TypeOK, [Next]_vars
  PROVE  TypeOK'
<1> USE DirIsEvent, CallsAssumption DEF callVars, timerVars, eventVars, fileVars
<1>1. ASSUME NEW c \in Calls, Begin(c)
      PROVE  TypeOK'
  BY <1>1 DEF Begin, TypeOK
<1>2. ASSUME NEW c \in Calls, FiberStep(c)
      PROVE  TypeOK'
  BY <1>2, FiberStepTypes DEF FiberStep
<1>3. ASSUME NEW c \in Calls, NEW k \in Try, Expire(c, k)
      PROVE  TypeOK'
  BY <1>3 DEF Expire, TypeOK
<1>4. ASSUME NEW c \in Calls, NEW k \in Try, Callback(c, k)
      PROVE  TypeOK'
  BY <1>4 DEF Callback, TypeOK
<1>5. ASSUME NEW c \in Calls, cancelEvent(c)
      PROVE  TypeOK'
  BY <1>5 DEF cancelEvent, triggerEvent, TypeOK
<1>6. ASSUME NEW e \in Event, Edge(e) \/ Report(e)
      PROVE  TypeOK'
  BY <1>6 DEF Edge, Report, triggerEvent, Taken, TypeOK
<1>7. CASE CloseBegin
  BY <1>7 DEF CloseBegin, cancelAll, TypeOK
<1>8. CASE CloseEnd
  BY <1>8 DEF CloseEnd, TypeOK
<1>9. CASE Reopen
  BY <1>9 DEF Reopen, TypeOK
<1>10. CASE UNCHANGED vars
  BY <1>10 DEF vars, TypeOK
<1>11. QED
  BY <1>1, <1>2, <1>3, <1>4, <1>5, <1>6, <1>7, <1>8, <1>9, <1>10 DEF Next, TimerStep

\* What triggering one event does to the registrations: its call, and no other, is woken.
LEMMA TriggerOne ==
  ASSUME TypeOK, Registered, NEW e \in Event, events[e] # NoCall, triggerEvent(e)
  PROVE  Registered'
<1> DEFINE d == events[e]
<1>1. d \in Calls /\ Dir(d) = e
  BY DEF TypeOK, Registered
<1>2. \A f \in Event : f # e => events[f] # d
  BY <1>1, CallsAssumption DEF Registered, Event
<1>3. /\ \A c \in Calls : pc'[c] = IF c = d THEN "woken" ELSE pc[c]
      /\ \A f \in Event : events'[f] = IF f = e THEN NoCall ELSE events[f]
  BY <1>1 DEF triggerEvent, TypeOK
<1>4. ASSUME NEW c \in Calls
      PROVE  pc'[c] = "wait" <=> \E f \in Event : events'[f] = c
  BY <1>1, <1>2, <1>3, CallsAssumption DEF Registered
<1>5. \A f \in Event : events'[f] # NoCall => Dir(events'[f]) = f
  BY <1>3 DEF Registered
<1>6. QED
  BY <1>4, <1>5 DEF Registered

\* No trigger, cancel or close loses a fiber that waits or leaves one registered that does not.
LEMMA NextRegistered ==
  ASSUME TypeOK, Registered, [Next]_vars
  PROVE  Registered'
<1> USE DEF callVars, timerVars, eventVars, fileVars
<1>1. ASSUME NEW c \in Calls, pc[c] # "wait", UNCHANGED events,
             NEW q, q # "wait", pc' = [pc EXCEPT ![c] = q]
      PROVE  Registered'
  BY <1>1 DEF Registered, TypeOK
<1>2. CASE UNCHANGED <<pc, events>>
  BY <1>2 DEF Registered
<1>3. ASSUME NEW c \in Calls, Begin(c)
      PROVE  Registered'
  BY <1>1, <1>3 DEF Begin
<1>4. ASSUME NEW c \in Calls, Call(c)
      PROVE  Registered'
  BY <1>1, <1>4 DEF Call, Finish, Transfer, Connect, WouldBlock
<1>5. ASSUME NEW c \in Calls, addEvent(c)
      PROVE  Registered'
  <2>1. CASE pc' = [pc EXCEPT ![c] = "done"] /\ UNCHANGED events
    BY <1>1, <1>5, <2>1 DEF addEvent
  <2>0. CASE UNCHANGED <<pc, events>>
    BY <1>2, <2>0
  <2>2. CASE /\ pc[c] = "armed" /\ events[Dir(c)] = NoCall
             /\ events' = [events EXCEPT ![Dir(c)] = c] /\ pc' = [pc EXCEPT ![c] = "wait"]
    BY <2>2, DirIsEvent, CallsAssumption DEF Registered, TypeOK
  <2>3. QED
    BY <1>5, <2>0, <2>1, <2>2 DEF addEvent, Finish
<1>6. ASSUME NEW c \in Calls, Resume(c)
      PROVE  Registered'
  BY <1>1, <1>6 DEF Resume, Finish
<1>7. ASSUME NEW c \in Calls, TimerStep(c)
      PROVE  Registered'
  BY <1>2, <1>7, TriggerOne, DirIsEvent DEF TimerStep, Expire, Callback, cancelEvent
<1>8. ASSUME NEW e \in Event, Edge(e) \/ Report(e)
      PROVE  Registered'
  BY <1>2, <1>8, TriggerOne DEF Edge, Report
<1>9. CASE CloseBegin
  <2>1. /\ \A c \in Calls : pc'[c] = IF \E e \in Event : events[e] = c THEN "woken" ELSE pc[c]
        /\ \A e \in Event : events'[e] = NoCall
    BY <1>9 DEF CloseBegin, cancelAll
  <2>2. QED
    BY <2>1, CallsAssumption DEF Registered
<1>10. CASE CloseEnd \/ Reopen \/ UNCHANGED vars
  BY <1>2, <1>10 DEF CloseEnd, Reopen, vars
<1>11. QED
  BY <1>3, <1>4, <1>5, <1>6, <1>7, <1>8, <1>9, <1>10 DEF Next, FiberStep

\* A call has at most the timer of its present try, and none when it returns.
LEMMA NextTimers ==
  ASSUME TypeOK, Registered, TimersOwned, [Next]_vars
  PROVE  TimersOwned'
<1> USE DEF callVars, timerVars, eventVars, fileVars
<1>1. ASSUME m_timers' \subseteq m_timers, UNCHANGED <<pc, tries>>
      PROVE  TimersOwned'
  BY <1>1 DEF TimersOwned, Armed
<1>2. ASSUME NEW c \in Calls, ~Armed(c), NEW q, pc' = [pc EXCEPT ![c] = q], UNCHANGED <<m_timers, tries>>
      PROVE  TimersOwned'
  BY <1>2 DEF TimersOwned, Armed, TypeOK
<1>3. ASSUME NEW c \in Calls, NEW q, pc' = [pc EXCEPT ![c] = q], CancelTimer(c), UNCHANGED tries
      PROVE  TimersOwned'
  <2>1. ASSUME NEW p \in m_timers'
        PROVE  Armed(p[1])' /\ p[2] = tries'[p[1]]
    <3>1. p \in m_timers /\ p # <<c, tries[c]>> /\ p \in Calls \X Try
      BY <1>3 DEF CancelTimer, TypeOK
    <3>2. p[1] # c
      BY <3>1 DEF TimersOwned
    <3>3. QED
      BY <1>3, <3>1, <3>2 DEF TimersOwned, Armed, TypeOK
  <2>2. QED
    BY <2>1 DEF TimersOwned
<1>4. ASSUME NEW c \in Calls, pc[c] = "call", WouldBlock(c)
      PROVE  TimersOwned'
  <2>1. ASSUME NEW p \in m_timers'
        PROVE  Armed(p[1])' /\ p[2] = tries'[p[1]]
    <3>1. CASE p = <<c, tries[c] + 1>>
      BY <1>4, <3>1 DEF WouldBlock, Armed, TypeOK
    <3>2. CASE p \in m_timers
      <4>1. p[1] \in Calls /\ p[1] # c
        BY <1>4, <3>2 DEF TypeOK, TimersOwned, Armed
      <4>2. QED
        BY <1>4, <3>2, <4>1 DEF WouldBlock, TimersOwned, Armed, TypeOK
    <3>3. QED
      BY <1>4, <3>1, <3>2 DEF WouldBlock
  <2>2. QED
    BY <2>1 DEF TimersOwned
<1>5. ASSUME NEW e \in Event, events[e] # NoCall, triggerEvent(e), UNCHANGED <<m_timers, tries>>
      PROVE  TimersOwned'
  <2>1. events[e] \in Calls /\ pc[events[e]] = "wait"
    BY <1>5 DEF TypeOK, Registered
  <2>2. QED
    BY <1>5, <2>1 DEF triggerEvent, TimersOwned, Armed, TypeOK
<1>6. ASSUME NEW c \in Calls, Begin(c)
      PROVE  TimersOwned'
  BY <1>2, <1>6 DEF Begin, Armed
<1>7. ASSUME NEW c \in Calls, Call(c)
      PROVE  TimersOwned'
  BY <1>2, <1>4, <1>7 DEF Call, Finish, Transfer, Connect, Armed
<1>8. ASSUME NEW c \in Calls, addEvent(c)
      PROVE  TimersOwned'
  <2>0. CASE UNCHANGED <<pc, m_timers>>
    BY <1>1, <1>8, <2>0 DEF addEvent
  <2>1. CASE pc' = [pc EXCEPT ![c] = "wait"] /\ UNCHANGED m_timers
    BY <1>8, <2>1 DEF addEvent, TimersOwned, Armed, TypeOK
  <2>2. CASE CancelTimer(c) /\ Finish(c, "error")
    BY <1>3, <1>8, <2>2 DEF addEvent, Finish
  <2>3. QED
    BY <1>8, <2>0, <2>1, <2>2 DEF addEvent
<1>9. ASSUME NEW c \in Calls, Resume(c)
      PROVE  TimersOwned'
  BY <1>3, <1>9 DEF Resume, Finish
<1>10. ASSUME NEW c \in Calls, TimerStep(c)
      PROVE  TimersOwned'
  BY <1>1, <1>5, <1>10, DirIsEvent DEF TimerStep, Expire, Callback, cancelEvent
<1>11. ASSUME NEW e \in Event, Edge(e) \/ Report(e)
      PROVE  TimersOwned'
  BY <1>1, <1>5, <1>11 DEF Edge, Report
<1>12. CASE CloseBegin
  <2>1. \A c \in Calls : Armed(c) => Armed(c)'
    BY <1>12 DEF CloseBegin, cancelAll, Armed
  <2>2. \A p \in m_timers : p[1] \in Calls
    BY DEF TypeOK
  <2>3. UNCHANGED <<m_timers, tries>>
    BY <1>12 DEF CloseBegin
  <2>4. QED
    BY <2>1, <2>2, <2>3 DEF TimersOwned
<1>13. CASE CloseEnd \/ Reopen \/ UNCHANGED vars
  BY <1>1, <1>13 DEF CloseEnd, Reopen, vars
<1>14. QED
  BY <1>6, <1>7, <1>8, <1>9, <1>10, <1>11, <1>12, <1>13 DEF Next, FiberStep

\* A fiber that yields in a hooked call is registered and only such a fiber is; a timer belongs to the
\* present try of a call that has not returned.
THEOREM WaitersAreWoken == Spec => []WaiterHasWaker
<1>1. Init => WaiterInv
  BY InitWaiter
<1>2. WaiterInv /\ [Next]_vars => WaiterInv'
  BY NextTypes, NextRegistered, NextTimers DEF WaiterInv
<1>3. WaiterInv => WaiterHasWaker
  BY DEF WaiterInv, WaiterHasWaker, Registered, TimersOwned, Armed, InProgress
<1>4. QED
  BY <1>1, <1>2, <1>3, PTL DEF Spec

-----------------------------------------------------------------------------
(* The timeouts.  ComesInv starts where the timer is added: a callback may *)
(* run before the event is registered.                                     *)

ComesInv ==
    \A c \in Timed : pc[c] \in {"armed", "wait"} /\ ~cancelled[c] =>
        \E k \in Try : <<c, k>> \in m_timers \cup cbs

\* Only a timer of its own makes a call time out.
ExpiredInv ==
    /\ \A p \in cbs : p[1] \in expired
    /\ \A c \in Calls : cancelled[c] \/ result[c] = "timeout" => c \in expired

\* What is waited for is given up only by the call itself, when it is resumed or returns.
LEMMA NextComes ==
  ASSUME TypeOK, ComesInv, [Next]_vars
  PROVE  ComesInv'
<1> USE CallsAssumption DEF callVars, timerVars, eventVars, fileVars
<1>0. ASSUME UNCHANGED <<m_timers, cbs, cancelled>>,
             \A d \in Calls : pc'[d] \in {"armed", "wait"} => pc[d] \in {"armed", "wait"}
      PROVE  ComesInv'
  BY <1>0 DEF ComesInv
<1>1. ASSUME NEW c \in Calls, UNCHANGED <<cbs, cancelled>>,
             m_timers \ {<<c, tries[c]>>} \subseteq m_timers',
             \A d \in Calls \ {c} : pc'[d] = pc[d], pc'[c] \notin {"armed", "wait"}
      PROVE  ComesInv'
  BY <1>1 DEF ComesInv
<1>2. ASSUME NEW c \in Calls, Begin(c)
      PROVE  ComesInv'
  BY <1>0, <1>2 DEF Begin, TypeOK
<1>3. ASSUME NEW c \in Calls, pc[c] = "call", WouldBlock(c), UNCHANGED <<cbs, cancelled>>
      PROVE  ComesInv'
  <2>1. tries[c] + 1 \in Try
    BY <1>3 DEF WouldBlock, TypeOK, Try
  <2>2. QED
    BY <1>3, <2>1 DEF WouldBlock, ComesInv, TypeOK
<1>4. ASSUME NEW c \in Calls, Call(c)
      PROVE  ComesInv'
  <2>1. CASE WouldBlock(c)
    BY <1>3, <1>4, <2>1 DEF Call
  <2>2. CASE ~WouldBlock(c)
    <3>1. \E r : Finish(c, r) /\ UNCHANGED <<m_timers, cbs, cancelled>>
      BY <1>4, <2>2 DEF Call, Transfer, Connect
    <3>2. QED
      BY <1>0, <3>1 DEF Finish, TypeOK
  <2>3. QED
    BY <2>1, <2>2
<1>5. ASSUME NEW c \in Calls, addEvent(c)
      PROVE  ComesInv'
  <2>0. CASE UNCHANGED <<pc, m_timers>>
    BY <1>0, <1>5, <2>0 DEF addEvent
  <2>1. CASE pc' = [pc EXCEPT ![c] = "wait"] /\ UNCHANGED m_timers
    BY <1>0, <1>5, <2>1 DEF addEvent, TypeOK
  <2>2. CASE CancelTimer(c) /\ Finish(c, "error")
    BY <1>1, <1>5, <2>2 DEF addEvent, CancelTimer, Finish, TypeOK
  <2>3. QED
    BY <1>5, <2>0, <2>1, <2>2 DEF addEvent
<1>6. ASSUME NEW c \in Calls, Resume(c)
      PROVE  ComesInv'
  <2>1. \E q \in {"call", "done"} : pc' = [pc EXCEPT ![c] = q]
    BY <1>6 DEF Resume, Finish
  <2>2. QED
    BY <1>1, <1>6, <2>1 DEF Resume, CancelTimer, TypeOK
<1>7. ASSUME NEW c \in Calls, NEW k \in Try, Expire(c, k)
      PROVE  ComesInv'
  BY <1>7 DEF Expire, ComesInv
<1>8. ASSUME NEW c \in Calls, NEW k \in Try, Callback(c, k)
      PROVE  ComesInv'
  <2>1. \A d \in Calls, j \in Try : d # c => <<d, j>> # <<c, k>>
    OBVIOUS
  <2>2. CASE pc[c] = "done" \/ cancelled[c]
    BY <1>8, <2>1, <2>2 DEF Callback, ComesInv
  <2>3. CASE ~(pc[c] = "done" \/ cancelled[c])
    BY <1>8, <2>1, <2>3 DEF Callback, ComesInv, TypeOK
  <2>4. QED
    BY <2>2, <2>3
<1>9. ASSUME NEW c \in Calls, cancelEvent(c)
      PROVE  ComesInv'
  BY <1>0, <1>9, DirIsEvent DEF cancelEvent, triggerEvent, TypeOK
<1>10. ASSUME NEW e \in Event, Edge(e) \/ Report(e)
      PROVE  ComesInv'
  BY <1>0, <1>10 DEF Edge, Report, triggerEvent, TypeOK
<1>11. CASE CloseBegin
  BY <1>0, <1>11 DEF CloseBegin, cancelAll
<1>12. CASE CloseEnd \/ Reopen \/ UNCHANGED vars
  BY <1>0, <1>12 DEF CloseEnd, Reopen, vars
<1>13. QED
  BY <1>2, <1>4, <1>5, <1>6, <1>7, <1>8, <1>9, <1>10, <1>11, <1>12 DEF Next, FiberStep, TimerStep

\* The timeout of a call that waits is still to come, unless it has been noted.
THEOREM TimeoutsAreNotLost == Spec => []TimeoutStillComes
<1>1. Init => TypeOK /\ ComesInv
  BY InitWaiter, CallsAssumption DEF WaiterInv, Init, ComesInv
<1>2. TypeOK /\ ComesInv /\ [Next]_vars => TypeOK' /\ ComesInv'
  BY NextTypes, NextComes
<1>3. ComesInv => TimeoutStillComes
  BY DEF ComesInv, TimeoutStillComes
<1>4. QED
  BY <1>1, <1>2, <1>3, PTL DEF Spec

\* A timeout that is noted or returned comes from a timer of the call itself.
LEMMA NextExpired ==
  ASSUME TypeOK, ExpiredInv, [Next]_vars
  PROVE  ExpiredInv'
<1> USE DEF callVars, timerVars, eventVars, fileVars
<1>0. CASE UNCHANGED <<cbs, cancelled, result, expired>>
  BY <1>0 DEF ExpiredInv
<1>1. ASSUME NEW c \in Calls, NEW r, r = "timeout" => cancelled[c], Finish(c, r),
             UNCHANGED <<cbs, cancelled, expired>>
      PROVE  ExpiredInv'
  BY <1>1 DEF Finish, ExpiredInv, TypeOK
<1>2. ASSUME NEW c \in Calls, Call(c) \/ addEvent(c)
      PROVE  ExpiredInv'
  BY <1>0, <1>1, <1>2 DEF Call, addEvent, Transfer, Connect, WouldBlock
<1>3. ASSUME NEW c \in Calls, Resume(c)
      PROVE  ExpiredInv'
  BY <1>0, <1>1, <1>3 DEF Resume, SO_ERROR
<1>4. ASSUME NEW c \in Calls, NEW k \in Try, Expire(c, k) \/ Callback(c, k)
      PROVE  ExpiredInv'
  BY <1>4 DEF Expire, Callback, ExpiredInv, TypeOK
<1>5. ASSUME NEW c \in Calls, Begin(c) \/ cancelEvent(c)
      PROVE  ExpiredInv'
  BY <1>0, <1>5 DEF Begin, cancelEvent
<1>6. ASSUME NEW e \in Event, Edge(e) \/ Report(e)
      PROVE  ExpiredInv'
  BY <1>0, <1>6 DEF Edge, Report
<1>7. CASE CloseBegin \/ CloseEnd \/ Reopen \/ UNCHANGED vars
  BY <1>0, <1>7 DEF CloseBegin, CloseEnd, Reopen, vars
<1>8. QED
  BY <1>2, <1>3, <1>4, <1>5, <1>6, <1>7 DEF Next, FiberStep, TimerStep

-----------------------------------------------------------------------------
(* What connect() takes for a connection.  With Exclusive the calls in     *)
(* progress are on the present file, one for each direction, so that a     *)
(* connect has the state of the connection to itself.                      *)

OneFile == \A c \in Calls : InProgress(c) => of[c] = gen

OnePerDir ==
    \A c, d \in Calls : InProgress(c) /\ InProgress(d) /\ c # d => Dir(c) # Dir(d)

Unconnected == conn \in {"none", "progress"} => ready = {}

Begun == \A c \in Calls : Kind[c] = "CONNECT" /\ pc[c] = "call" => conn = "none"

LateNoted == \A c \in late : cancelled[c]

WokenRight ==
    \A c \in Calls : Kind[c] = "CONNECT" /\ pc[c] = "woken" =>
        conn \in {"up", "refused"} \/ cancelled[c] \/ c \in stray \cup shut

ConnectInv ==
    /\ OneFile /\ OnePerDir /\ Unconnected /\ Begun /\ LateNoted /\ WokenRight
    /\ ConnectIsReal

\* Steps of timers, events and close() that end no call and begin none.
LEMMA SameCalls ==
  ASSUME TypeOK, ConnectInv, UNCHANGED <<of, gen>>,
         \A c \in Calls : /\ InProgress(c)' => InProgress(c)
                          /\ pc'[c] = "call" => pc[c] = "call"
  PROVE  OneFile' /\ OnePerDir' /\ (UNCHANGED conn => Begun')
BY DEF ConnectInv, OneFile, OnePerDir, Begun, InProgress

\* A fiber's own steps.
LEMMA FiberConnect ==
  ASSUME Exclusive, TypeOK, ConnectInv, NEW c \in Calls, FiberStep(c)
  PROVE  ConnectInv'
<1> USE CallsAssumption DEF callVars, timerVars, eventVars, fileVars
<1>1. CASE Call(c)
  <2>1. pc[c] = "call" /\ InProgress(c)
    BY <1>1 DEF Call, InProgress
  <2>2. \E q \in {"done", "armed"} : pc' = [pc EXCEPT ![c] = q]
    BY <1>1 DEF Call, Finish, Transfer, Connect, WouldBlock
  <2>3. UNCHANGED <<of, gen, late, cancelled, stray, shut, misled, file>>
    BY <1>1 DEF Call
  <2>4. OneFile' /\ OnePerDir' /\ (UNCHANGED conn => Begun')
    BY <2>1, <2>2, <2>3, SameCalls DEF InProgress, TypeOK
  <2>5. CASE UNCHANGED conn
    <3>1. Unconnected'
      <4>1. ready' \subseteq ready
        BY <1>1, <2>5 DEF Call, Transfer, Connect, Taken
      <4>2. QED
        BY <2>5, <4>1 DEF Unconnected, ConnectInv
    <3>2. WokenRight'
      BY <2>2, <2>3, <2>5 DEF WokenRight, ConnectInv, TypeOK
    <3>3. QED
      BY <2>3, <2>4, <2>5, <3>1, <3>2 DEF ConnectInv, LateNoted, ConnectIsReal
  <2>6. CASE Kind[c] = "CONNECT" /\ Connect(c)
    <3>1. conn = "none" /\ ready = {} /\ ready' = ready
      BY <2>1, <2>6 DEF ConnectInv, Begun, Unconnected, Connect
    <3>2. \A d \in Calls \ {c} : Kind[d] = "CONNECT" => ~InProgress(d) /\ pc'[d] = pc[d]
      BY <2>1, <2>2, <2>6 DEF ConnectInv, OnePerDir, Dir, TypeOK
    <3>3. Begun' /\ WokenRight'
      BY <2>2, <3>2 DEF Begun, WokenRight, InProgress, TypeOK
    <3>4. QED
      BY <2>3, <2>4, <3>1, <3>3 DEF ConnectInv, LateNoted, ConnectIsReal, Unconnected
  <2>7. QED
    BY <1>1, <2>5, <2>6 DEF Call, Transfer
<1>2. CASE addEvent(c)
  <2>1. \E q \in {"done", "wait", "armed"} : pc' = [pc EXCEPT ![c] = q] /\ pc[c] = "armed"
    BY <1>2 DEF addEvent, Finish, TypeOK
  <2>2. UNCHANGED <<of, gen, late, cancelled, stray, shut, misled, file, conn, ready>>
    BY <1>2 DEF addEvent
  <2>3. OneFile' /\ OnePerDir' /\ Begun'
    BY <2>1, <2>2, SameCalls DEF InProgress, TypeOK
  <2>4. WokenRight'
    BY <2>1, <2>2 DEF ConnectInv, WokenRight, TypeOK
  <2>5. QED
    BY <2>2, <2>3, <2>4 DEF ConnectInv, LateNoted, ConnectIsReal, Unconnected
<1>3. CASE Resume(c)
  <2>1. \E q \in {"done", "call"} : pc' = [pc EXCEPT ![c] = q] /\ pc[c] = "woken"
                                   /\ (q = "call" => Kind[c] # "CONNECT")
    BY <1>3 DEF Resume, Finish
  <2>2. UNCHANGED <<of, gen, late, cancelled, stray, shut, file, conn, ready>>
    BY <1>3 DEF Resume
  <2>3. OneFile' /\ OnePerDir' /\ Begun'
    BY <2>1, <2>2 DEF ConnectInv, OneFile, OnePerDir, Begun, InProgress, TypeOK
  <2>4. WokenRight'
    BY <2>1, <2>2 DEF ConnectInv, WokenRight, TypeOK
  <2>5. misled' \subseteq stray \cup shut
    <3>1. CASE UNCHANGED misled
      BY <3>1 DEF ConnectInv, ConnectIsReal
    <3>2. CASE /\ ~cancelled[c] /\ Kind[c] = "CONNECT" /\ misled' = misled \cup {c}
               /\ SO_ERROR = "ok" /\ conn # "up"
      <4>1. conn # "refused"
        BY <3>2 DEF SO_ERROR
      <4>2. c \in stray \cup shut
        BY <2>1, <3>2, <4>1 DEF ConnectInv, WokenRight
      <4>3. QED
        BY <3>2, <4>2 DEF ConnectInv, ConnectIsReal
    <3>3. QED
      BY <1>3, <3>1, <3>2 DEF Resume
  <2>6. QED
    BY <2>2, <2>3, <2>4, <2>5 DEF ConnectInv, LateNoted, ConnectIsReal, Unconnected
<1>4. QED
  BY <1>1, <1>2, <1>3 DEF FiberStep

\* What wakes a connect is its event, its own timeout, which it will see, close(), or a stray callback.
LEMMA NextConnect ==
  ASSUME Exclusive, WaiterInv, ConnectInv, [Next]_vars
  PROVE  ConnectInv'
<1> USE CallsAssumption DEF callVars, timerVars, eventVars, fileVars
<1>0. TypeOK
  BY DEF WaiterInv
<1>1. ASSUME NEW c \in Calls, Begin(c)
      PROVE  ConnectInv'
  <2>1. /\ pc' = [pc EXCEPT ![c] = "call"] /\ of' = [of EXCEPT ![c] = gen]
        /\ UNCHANGED <<late, cancelled, stray, shut, misled, file, gen, conn, ready>>
    BY <1>1 DEF Begin
  <2>2. \A d \in Calls : InProgress(d) => Dir(d) # Dir(c)
    BY <1>1 DEF Begin, ConnectInv, OneFile
  <2>3. OneFile' /\ OnePerDir'
    BY <1>0, <2>1, <2>2 DEF ConnectInv, OneFile, OnePerDir, InProgress, TypeOK
  <2>4. Begun' /\ WokenRight'
    BY <1>0, <1>1, <2>1 DEF Begin, ConnectInv, Begun, WokenRight, TypeOK
  <2>5. QED
    BY <2>1, <2>3, <2>4 DEF ConnectInv, LateNoted, ConnectIsReal, Unconnected
<1>2. ASSUME NEW c \in Calls, NEW k \in Try, Expire(c, k)
      PROVE  ConnectInv'
  BY <1>2 DEF Expire, ConnectInv, OneFile, OnePerDir, Unconnected, Begun, LateNoted, WokenRight,
              ConnectIsReal, InProgress
<1>3. ASSUME NEW c \in Calls, NEW k \in Try, Callback(c, k)
      PROVE  ConnectInv'
  <2>1. /\ UNCHANGED <<pc, of, gen, conn, ready, file, stray, shut, misled>>
        /\ \A d \in Calls : cancelled[d] => cancelled'[d]
        /\ \A d \in late' : d \in late \/ cancelled'[d]
        /\ late' \subseteq Calls
    BY <1>0, <1>3 DEF Callback, TypeOK
  <2>2. OneFile' /\ OnePerDir' /\ Begun' /\ Unconnected' /\ ConnectIsReal'
    BY <2>1 DEF ConnectInv, OneFile, OnePerDir, Begun, Unconnected, ConnectIsReal, InProgress
  <2>3. LateNoted' /\ WokenRight'
    BY <2>1 DEF ConnectInv, LateNoted, WokenRight
  <2>4. QED
    BY <2>2, <2>3 DEF ConnectInv
<1>4. ASSUME NEW c \in Calls, cancelEvent(c)
      PROVE  ConnectInv'
  <2>1. /\ UNCHANGED <<of, gen, conn, ready, file, misled, cancelled, shut>>
        /\ late' \subseteq late /\ stray \subseteq stray'
    BY <1>4 DEF cancelEvent, triggerEvent
  <2>2. CASE UNCHANGED <<pc, stray>>
    BY <2>1, <2>2 DEF ConnectInv, OneFile, OnePerDir, Unconnected, Begun, LateNoted, WokenRight,
                      ConnectIsReal, InProgress
  <2>3. CASE /\ triggerEvent(Dir(c)) /\ events[Dir(c)] # NoCall
             /\ stray' = stray \cup ({events[Dir(c)]} \ {c})
    <3> DEFINE d == events[Dir(c)]
    <3>1. d \in Calls /\ pc[d] = "wait"
      BY <1>0, <2>3, DirIsEvent DEF WaiterInv, Registered, TypeOK
    <3>2. pc' = [pc EXCEPT ![d] = "woken"]
      BY <2>3 DEF triggerEvent
    <3>3. OneFile' /\ OnePerDir' /\ Begun'
      BY <1>0, <2>1, <3>1, <3>2, SameCalls DEF InProgress, TypeOK
    <3>4. cancelled[d] \/ d \in stray'
      BY <1>4, <2>3 DEF cancelEvent, ConnectInv, LateNoted
    <3>5. WokenRight'
      BY <1>0, <2>1, <3>1, <3>2, <3>4 DEF ConnectInv, WokenRight, TypeOK
    <3>6. QED
      BY <2>1, <3>3, <3>5 DEF ConnectInv, LateNoted, ConnectIsReal, Unconnected
  <2>4. QED
    BY <1>4, <2>2, <2>3 DEF cancelEvent
<1>5. ASSUME NEW e \in Event, Edge(e)
      PROVE  ConnectInv'
  BY <1>0, <1>5 DEF Edge, ConnectInv, OneFile, OnePerDir, Unconnected, Begun, LateNoted, WokenRight,
              ConnectIsReal, InProgress, TypeOK
<1>6. ASSUME NEW e \in Event, Report(e)
      PROVE  ConnectInv'
  <2> DEFINE d == events[e]
  <2>1. d \in Calls /\ pc[d] = "wait" /\ pc' = [pc EXCEPT ![d] = "woken"]
    BY <1>0, <1>6 DEF Report, triggerEvent, WaiterInv, Registered, TypeOK
  <2>2. /\ UNCHANGED <<of, gen, conn, file, misled, cancelled, late, stray, shut>>
        /\ ready' \subseteq ready
    BY <1>6 DEF Report, Taken, triggerEvent
  <2>3. conn \in {"up", "refused"}
    BY <1>0, <1>6 DEF Report, ConnectInv, Unconnected, TypeOK
  <2>4. OneFile' /\ OnePerDir' /\ Begun'
    BY <1>0, <2>1, <2>2, SameCalls DEF InProgress, TypeOK
  <2>5. QED
    BY <2>2, <2>3, <2>4 DEF ConnectInv, LateNoted, ConnectIsReal, Unconnected, WokenRight
<1>7. CASE CloseBegin
  <2>1. /\ UNCHANGED <<of, gen, conn, ready, misled, cancelled, late, stray>>
        /\ shut' = shut \cup {c \in Calls : Kind[c] = "CONNECT" /\ \E e \in Event : events[e] = c}
        /\ \A c \in Calls : pc'[c] = IF \E e \in Event : events[e] = c THEN "woken" ELSE pc[c]
    BY <1>7 DEF CloseBegin, cancelAll
  <2>2. \A c \in Calls : pc'[c] = pc[c] \/ (pc'[c] = "woken" /\ pc[c] = "wait")
    BY <2>1 DEF WaiterInv, Registered
  <2>3. OneFile' /\ OnePerDir' /\ Begun'
    BY <1>0, <2>1, <2>2, SameCalls DEF InProgress
  <2>4. QED
    BY <2>1, <2>3 DEF ConnectInv, LateNoted, ConnectIsReal, Unconnected, WokenRight
<1>8. CASE CloseEnd
  BY <1>8 DEF CloseEnd, ConnectInv, OneFile, OnePerDir, Unconnected, Begun, LateNoted, WokenRight,
              ConnectIsReal, InProgress
<1>9. CASE Reopen
  <2>1. \A c \in Calls : pc'[c] = pc[c] /\ ~InProgress(c)
    BY <1>9 DEF Reopen
  <2>2. ready' = {} /\ UNCHANGED <<misled, stray, shut, late, cancelled>>
    BY <1>9 DEF Reopen
  <2>3. QED
    BY <2>1, <2>2 DEF ConnectInv, OneFile, OnePerDir, Unconnected, Begun, LateNoted, WokenRight,
              ConnectIsReal, InProgress
<1>10. CASE UNCHANGED vars
  BY <1>10 DEF vars, ConnectInv, OneFile, OnePerDir, Unconnected, Begun, LateNoted, WokenRight,
              ConnectIsReal, InProgress
<1>11. QED
  BY <1>0, <1>1, <1>2, <1>3, <1>4, <1>5, <1>6, <1>7, <1>8, <1>9, <1>10, FiberConnect
  DEF Next, TimerStep

\* With one call for each direction nobody is registered when a call comes to addEvent.
LEMMA NextAborted ==
  ASSUME WaiterInv, ConnectInv, ~aborted, [Next]_vars
  PROVE  ~aborted'
<1> USE DEF callVars, timerVars, eventVars, fileVars
<1>1. ASSUME NEW c \in Calls, addEvent(c)
      PROVE  ~aborted'
  <2>1. pc[c] = "armed" /\ Dir(c) \in Event
    BY <1>1, DirIsEvent DEF addEvent
  <2>2. ASSUME events[Dir(c)] # NoCall
        PROVE  FALSE
    <3> DEFINE d == events[Dir(c)]
    <3>1. d \in Calls /\ pc[d] = "wait" /\ Dir(d) = Dir(c)
      BY <2>1, <2>2 DEF WaiterInv, TypeOK, Registered
    <3>2. QED
      BY <2>1, <3>1 DEF ConnectInv, OnePerDir, InProgress
  <2>3. QED
    BY <1>1, <2>2 DEF addEvent
<1>2. ASSUME NEW c \in Calls, Begin(c) \/ Call(c) \/ Resume(c) \/ TimerStep(c)
      PROVE  ~aborted'
  BY <1>2 DEF Begin, Call, Resume, TimerStep, Expire, Callback, cancelEvent, triggerEvent
<1>3. ASSUME NEW e \in Event, Edge(e) \/ Report(e)
      PROVE  ~aborted'
  BY <1>3 DEF Edge, Report, triggerEvent
<1>4. CASE CloseBegin \/ CloseEnd \/ Reopen \/ UNCHANGED vars
  BY <1>4 DEF CloseBegin, cancelAll, CloseEnd, Reopen, vars
<1>5. QED
  BY <1>1, <1>2, <1>3, <1>4 DEF Next, FiberStep

\* ETIMEDOUT is only returned by a call one of whose own timers expired, with or without Exclusive.
THEOREM TimeoutsAreReal == Spec => []TimeoutIsReal
<1>1. Init => TypeOK /\ ExpiredInv
  BY InitWaiter DEF WaiterInv, Init, ExpiredInv
<1>2. TypeOK /\ ExpiredInv /\ [Next]_vars => TypeOK' /\ ExpiredInv'
  BY NextTypes, NextExpired
<1>3. ExpiredInv => TimeoutIsReal
  BY DEF ExpiredInv, TimeoutIsReal
<1>4. QED
  BY <1>1, <1>2, <1>3, PTL DEF Spec

\* What a hooked call returns is so: a timeout is its own, connect() reports a connection that is not
\* there only when a stray callback or close() has woken it, and the assertion of addEvent holds.
THEOREM ResultsAreReal == ASSUME Exclusive PROVE Spec => []ResultIsReal
<1> DEFINE I == WaiterInv /\ ConnectInv /\ ~aborted
<1>1. Init => I
  BY InitWaiter DEF Init, ConnectInv, OneFile, OnePerDir, Unconnected, Begun, LateNoted, WokenRight,
                    ConnectIsReal, InProgress
<1>2. I /\ [Next]_vars => I'
  BY NextTypes, NextRegistered, NextTimers, NextConnect, NextAborted DEF WaiterInv
<1>3. I => ConnectIsReal /\ ~aborted
  BY DEF ConnectInv
<1>4. Spec => [](ConnectIsReal /\ ~aborted)
  BY <1>1, <1>2, <1>3, PTL DEF Spec
<1>5. QED
  BY <1>4, TimeoutsAreReal, PTL DEF ResultIsReal
=============================================================================
