------------------------------- MODULE IOProofs -------------------------------
(***************************************************************************)
(* Theorems about IOManager, for every finite set of workers, with or      *)
(* without the caller's thread, any fibers and any use of pinned tasks.    *)
(***************************************************************************)
EXTENDS IOManager, TLAPS, FiniteSetTheorems, SequenceTheorems

-----------------------------------------------------------------------------
(* Every fiber is where its place says, and only there.                    *)

Queued(f) == \E i \in 1..Len(m_tasks) : m_tasks[i].fiber = f

QueueExact ==
    /\ \A f \in Fibers : place[f] = "queue" <=> Queued(f)
    /\ \A i, j \in 1..Len(m_tasks) : m_tasks[i].fiber = m_tasks[j].fiber => i = j

RunExact ==
    /\ \A t \in Threads : pc[t] = "run" => cur[t] \in Fibers /\ place[cur[t]] = "run"
    /\ \A t, u \in Threads : pc[t] = "run" /\ pc[u] = "run" /\ t # u => cur[t] # cur[u]
    /\ \A f \in Fibers : place[f] = "run" => \E t \in Threads : pc[t] = "run" /\ cur[t] = f

HeldExact ==
    /\ \A t \in Threads : held[t] # {} => pc[t] = "due"
    /\ \A t \in Threads : \A f \in held[t] : place[f] = "held"
    /\ \A t, u \in Threads : t # u => held[t] \cap held[u] = {}
    /\ \A f \in Fibers : place[f] = "held" => \E t \in Threads : f \in held[t]

(* m_pendingEventCount counts the fibers that wait for an event, and the   *)
(* events that are triggered and not yet subtracted.                       *)
Waiting == {f \in Fibers : place[f] = "event"}
Subtracting == {t \in Threads : pc[t] = "dec"}

PendingExact ==
    /\ IsFiniteSet(Waiting)
    /\ m_pendingEventCount = Cardinality(Waiting) + Cardinality(Subtracting)

(* The last thread that decides to leave finds nothing queued and nobody   *)
(* active, and from then on nobody is left to submit anything.             *)
Settled ==
    (\A t \in Threads : idleTerm[t]) =>
        m_tasks = <<>> /\ \A t \in Threads : pc[t] \in {"pick", "exit"}

\* Who has decided to leave, and how far stop() is.
Leaving ==
    /\ m_stopping <=> cpc # "live"
    /\ UseCaller /\ cpc \in {"live", "root"} => pc[Caller] = "off"
    /\ \A t \in Threads : idleTerm[t] => m_stopping /\ pc[t] \in {"pick", "run", "yield", "back", "exit"}
    /\ \A t \in Threads : pc[t] = "exit" => idleTerm[t]
    /\ Settled
    /\ cpc = "stopped" => \A t \in Threads : pc[t] = "exit"

PlaceInv == QueueExact /\ RunExact /\ HeldExact

IOInv == TypeOK /\ PlaceInv /\ PendingExact /\ Leaving

-----------------------------------------------------------------------------
(* Facts about the constants and about the list operation of run().        *)

\* The manager has finitely many threads; the caller is one of them or not.
LEMMA ThreadsFinite == IsFiniteSet(Threads) /\ Cardinality(Threads) \in Nat
<1>1. IsFiniteSet(Threads)
  <2>1. CASE UseCaller
    BY <2>1, IOAssumption, FS_AddElement DEF Threads
  <2>2. CASE ~UseCaller
    BY <2>2, IOAssumption DEF Threads
  <2>3. QED
    BY <2>1, <2>2
<1>2. QED
  BY <1>1, FS_CardinalityType

\* Erasing a position of a list: what is left, and where it was.
LEMMA RemoveAtProperties ==
  ASSUME NEW S, NEW s \in Seq(S), NEW i \in 1..Len(s)
  PROVE  /\ RemoveAt(s, i) \in Seq(S)
         /\ Len(RemoveAt(s, i)) = Len(s) - 1
         /\ \A j \in 1..(Len(s) - 1) :
              RemoveAt(s, i)[j] = IF j < i THEN s[j] ELSE s[j + 1]
<1> DEFINE a == SubSeq(s, 1, i - 1)
           b == SubSeq(s, i + 1, Len(s))
<1>1. a \in Seq(S) /\ Len(a) = i - 1 /\ \A j \in 1..(i - 1) : a[j] = s[j]
  BY SubSeqProperties
<1>2. b \in Seq(S) /\ Len(b) = Len(s) - i
      /\ \A j \in 1..(Len(s) - i) : b[j] = s[i + j]
  BY SubSeqProperties
<1>3. RemoveAt(s, i) = a \o b
  BY DEF RemoveAt
<1> HIDE DEF a, b
<1>4. a \o b \in Seq(S) /\ Len(a \o b) = Len(a) + Len(b)
  BY <1>1, <1>2, ConcatProperties
<1>5. ASSUME NEW j \in 1..(Len(s) - 1)
      PROVE  (a \o b)[j] = IF j < i THEN s[j] ELSE s[j + 1]
  <2>1. (a \o b)[j] = IF j <= Len(a) THEN a[j] ELSE b[j - Len(a)]
    BY <1>1, <1>2, ConcatProperties
  <2>2. CASE j < i
    BY <1>1, <2>1, <2>2
  <2>3. CASE ~(j < i)
    <3>1. j - Len(a) \in 1..(Len(s) - i) /\ i + (j - Len(a)) = j + 1
      BY <1>1, <2>3
    <3>2. QED
      BY <1>1, <1>2, <2>1, <2>3, <3>1
  <2>4. QED
    BY <2>2, <2>3
<1>6. QED
  BY <1>1, <1>2, <1>3, <1>4, <1>5

-----------------------------------------------------------------------------
(* Types.  A thread that has an event to subtract finds it counted.        *)

\* A thread about to lower m_pendingEventCount finds it above zero.
LEMMA CountedEvent ==
  ASSUME PendingExact, NEW t \in Threads, pc[t] = "dec"
  PROVE  m_pendingEventCount \in Nat /\ m_pendingEventCount > 0
<1>1. IsFiniteSet(Subtracting)
  BY ThreadsFinite, FS_Subset DEF Subtracting
<1>2. Cardinality(Subtracting) \in Nat /\ Cardinality(Waiting) \in Nat
  BY <1>1, FS_CardinalityType DEF PendingExact
<1>3. Subtracting # {}
  BY DEF Subtracting
<1>4. Cardinality(Subtracting) # 0
  BY <1>1, <1>3, FS_EmptySet
<1>5. QED
  BY <1>2, <1>4 DEF PendingExact

\* The list after schedule() is a list of tasks again.
LEMMA ScheduleTypes ==
  ASSUME TypeOK, NEW a \in Actors, NEW f \in Fibers, NEW p \in Threads \cup {AnyThread}, schedule(a, f, p)
  PROVE  /\ m_tasks' \in Seq([fiber : Fibers, thread : Threads \cup {AnyThread}])
         /\ owes' \in [Actors -> Nat]
<1>1. [fiber |-> f, thread |-> p] \in [fiber : Fibers, thread : Threads \cup {AnyThread}]
  OBVIOUS
<1>2. m_tasks' \in Seq([fiber : Fibers, thread : Threads \cup {AnyThread}])
  BY <1>1, AppendProperties DEF TypeOK, schedule
<1>3. owes' \in [Actors -> Nat]
  BY DEF TypeOK, schedule
<1>4. QED
  BY <1>2, <1>3

\* What is queued at a position is a task with a fiber.
LEMMA QueuedAt ==
  ASSUME TypeOK, NEW i \in 1..Len(m_tasks)
  PROVE  m_tasks[i].fiber \in Fibers /\ Len(m_tasks) \in Nat /\ m_tasks # <<>>
<1>1. m_tasks[i] \in [fiber : Fibers, thread : Threads \cup {AnyThread}]
  BY ElementOfSeq DEF TypeOK
<1>2. QED
  BY <1>1, LenProperties, EmptySeq DEF TypeOK

\* Every step keeps the types.
LEMMA NextTypes ==
  ASSUME TypeOK, RunExact, PendingExact, [Next]_vars
  PROVE  TypeOK'
<1> USE ThreadsFinite DEF Actors, ThreadPc, IdlePc
<1>1. ASSUME NEW a \in Actors, tickle(a)
      PROVE  TypeOK'
  BY <1>1 DEF tickle, TypeOK
<1>2. ASSUME NEW t \in Threads, Take(t)
      PROVE  TypeOK'
  <2>1. PICK i \in 1..Len(m_tasks) :
          /\ cur' = [cur EXCEPT ![t] = m_tasks[i].fiber]
          /\ place' = [place EXCEPT ![m_tasks[i].fiber] = "run"]
          /\ m_tasks' = RemoveAt(m_tasks, i)
          /\ owes' = [owes EXCEPT ![t] = IF TickleMe(t, i) THEN 1 ELSE 0]
          /\ pc' = [pc EXCEPT ![t] = "run"]
          /\ fault' = (m_tasks[i].fiber \in SwitchedOut)
          /\ UNCHANGED <<idleTerm, held, m_pendingEventCount, signal, m_stopping, cpc>>
    BY <1>2 DEF Take, First, Eligible
  <2>2. m_tasks' \in Seq([fiber : Fibers, thread : Threads \cup {AnyThread}])
    BY <2>1, QueuedAt, RemoveAtProperties DEF TypeOK
  <2>3. (m_tasks[i].fiber \in SwitchedOut) \in BOOLEAN
    OBVIOUS
  <2>4. fault' \in BOOLEAN
    BY <2>1, <2>3, Zenon
  <2>5. QED
    BY <2>1, <2>2, <2>4, QueuedAt DEF TypeOK
<1>3. ASSUME NEW t \in Threads, TakeNothing(t)
      PROVE  TypeOK'
  BY <1>3 DEF TakeNothing, TypeOK
<1>4. ASSUME NEW t \in Threads, Enter(t) \/ swapcontext(t) \/ Drop(t)
      PROVE  TypeOK'
  BY <1>4 DEF Enter, swapcontext, Drop, TypeOK
<1>5. ASSUME NEW t \in Threads, RunAddEvent(t) \/ RunAddTimer(t) \/ RunReturn(t)
      PROVE  TypeOK'
  <2>1. cur[t] \in Fibers
    BY <1>5 DEF RunExact, RunAddEvent, RunAddTimer, RunReturn
  <2>2. CASE RunAddEvent(t)
    BY <2>1, <2>2 DEF RunAddEvent, TypeOK
  <2>3. CASE RunReturn(t)
    BY <2>1, <2>3 DEF RunReturn, TypeOK
  <2>4. CASE RunAddTimer(t)
    <3>1. owes' \in [Actors -> Nat]
      BY <2>4 DEF RunAddTimer, TypeOK
    <3>2. QED
      BY <2>1, <2>4, <3>1 DEF RunAddTimer, TypeOK
  <2>5. QED
    BY <1>5, <2>2, <2>3, <2>4
<1>6. ASSUME NEW a \in Actors, UserStep(a)
      PROVE  TypeOK'
  <2>1. ASSUME NEW f \in Fibers, NEW p \in PinsUsed, Submit(a, f, p)
        PROVE  TypeOK'
    <3>1. p \in Threads \cup {AnyThread}
      BY IOAssumption
    <3>2. QED
      BY <2>1, <3>1, ScheduleTypes DEF Submit, TypeOK
  <2>2. ASSUME NEW f \in Fibers, AddEventCb(a, f)
        PROVE  TypeOK'
    BY <2>2 DEF AddEventCb, TypeOK
  <2>3. ASSUME NEW f \in Fibers, AddTimerCb(a, f)
        PROVE  TypeOK'
    <3>1. owes' \in [Actors -> Nat]
      BY <2>3 DEF AddTimerCb, TypeOK
    <3>2. QED
      BY <2>3, <3>1 DEF AddTimerCb, TypeOK
  <2>4. QED
    BY <1>6, <2>1, <2>2, <2>3 DEF UserStep
<1>7. ASSUME NEW t \in Threads, ReadTimers(t) \/ ReadPending(t) \/ epoll_wait(t) \/ IdleYield(t)
      PROVE  TypeOK'
  BY <1>7 DEF ReadTimers, ReadPending, epoll_wait, IdleYield, TypeOK
<1>8. ASSUME NEW t \in Threads, ReadScheduler(t)
      PROVE  TypeOK'
  <2>1. SchedulerStopping \in BOOLEAN
    BY DEF SchedulerStopping, TypeOK
  <2>2. QED
    BY <1>8, <2>1 DEF ReadScheduler, TypeOK
<1>9. ASSUME NEW t \in Threads, listExpiredCb(t)
      PROVE  TypeOK'
  BY <1>9 DEF listExpiredCb, m_timers, TypeOK
<1>10. ASSUME NEW t \in Threads, ScheduleCb(t)
      PROVE  TypeOK'
  <2>1. PICK f \in held[t] :
          /\ held' = [held EXCEPT ![t] = @ \ {f}]
          /\ place' = [place EXCEPT ![f] = "queue"]
          /\ schedule(t, f, AnyThread)
          /\ UNCHANGED <<pc, cur, idleTerm, m_pendingEventCount, signal, m_stopping, cpc, fault>>
    BY <1>10 DEF ScheduleCb
  <2>2. f \in Fibers
    BY DEF TypeOK
  <2>3. QED
    BY <2>1, <2>2, ScheduleTypes DEF TypeOK
<1>11. ASSUME NEW t \in Threads, triggerEvent(t)
      PROVE  TypeOK'
  BY <1>11, ScheduleTypes DEF triggerEvent, TypeOK
<1>12. ASSUME NEW t \in Threads, EventDone(t)
      PROVE  TypeOK'
  BY <1>12, CountedEvent DEF EventDone, TypeOK
<1>13. CASE StopSet \/ StopRoot \/ StopJoin
  BY <1>13 DEF StopSet, StopRoot, StopJoin, TypeOK
<1>14. CASE UNCHANGED vars
  BY <1>14 DEF vars, TypeOK
<1>15. QED
  BY <1>1, <1>2, <1>3, <1>4, <1>5, <1>6, <1>7, <1>8, <1>9, <1>10, <1>11, <1>12, <1>13, <1>14
  DEF Next, ThreadStep, IdleStep, StopStep, Terminated

-----------------------------------------------------------------------------
(* Where the fibers are.                                                   *)

\* What schedule() appends is queued once more than before.
LEMMA PushTask ==
  ASSUME TypeOK, QueueExact, NEW f \in Fibers, place[f] # "queue", NEW p \in Threads \cup {AnyThread},
         m_tasks' = Append(m_tasks, [fiber |-> f, thread |-> p]),
         place' = [place EXCEPT ![f] = "queue"]
  PROVE  QueueExact'
<1> DEFINE n == Len(m_tasks)
<1>1. n \in Nat
  BY LenProperties DEF TypeOK
<1>2. /\ Len(m_tasks') = n + 1
      /\ \A i \in 1..n : m_tasks'[i] = m_tasks[i]
      /\ m_tasks'[n + 1].fiber = f
  <2>1. [fiber |-> f, thread |-> p] \in [fiber : Fibers, thread : Threads \cup {AnyThread}]
    OBVIOUS
  <2>2. QED
    BY <2>1, AppendProperties DEF TypeOK
<1>3. \A i \in 1..n : m_tasks[i].fiber # f
  BY DEF QueueExact, Queued
<1>4. \A i \in 1..(n + 1) : i \in 1..n \/ i = n + 1
  BY <1>1
<1>5. n + 1 \in 1..(n + 1) /\ 1..n \subseteq 1..(n + 1)
  BY <1>1
<1> HIDE DEF n
<1>6. ASSUME NEW g \in Fibers
      PROVE  place'[g] = "queue" <=> Queued(g)'
  <2>1. Queued(g) <=> \E i \in 1..n : m_tasks[i].fiber = g
    BY DEF Queued, n
  <2>2. Queued(g)' <=> \E i \in 1..(n + 1) : m_tasks'[i].fiber = g
    BY <1>2 DEF Queued
  <2>3. CASE g = f
    BY <1>2, <1>5, <2>2, <2>3 DEF TypeOK
  <2>4. CASE g # f
    <3>1. place'[g] = place[g]
      BY <2>4 DEF TypeOK
    <3>2. Queued(g)' <=> Queued(g)
      BY <1>2, <1>4, <1>5, <2>1, <2>2, <2>4
    <3>3. QED
      BY <3>1, <3>2 DEF QueueExact
  <2>5. QED
    BY <2>3, <2>4
<1>7. ASSUME NEW i \in 1..(n + 1), NEW j \in 1..(n + 1), m_tasks'[i].fiber = m_tasks'[j].fiber
      PROVE  i = j
  BY <1>2, <1>3, <1>4, <1>7 DEF QueueExact, n
<1>8. QED
  BY <1>2, <1>6, <1>7 DEF QueueExact

\* The task that run() takes was queued once, and is no longer.
LEMMA EraseTask ==
  ASSUME TypeOK, QueueExact, NEW i \in 1..Len(m_tasks), NEW f, f = m_tasks[i].fiber,
         m_tasks' = RemoveAt(m_tasks, i), place' = [place EXCEPT ![f] = "run"]
  PROVE  QueueExact'
<1> DEFINE n == Len(m_tasks)
           old(j) == IF j < i THEN j ELSE j + 1
<1>1. n \in Nat /\ f \in Fibers
  <2>1. m_tasks[i] \in [fiber : Fibers, thread : Threads \cup {AnyThread}]
    BY ElementOfSeq DEF TypeOK
  <2>2. QED
    BY <2>1, LenProperties DEF TypeOK
<1>2. Len(m_tasks') = n - 1 /\ \A j \in 1..(n - 1) : m_tasks'[j] = m_tasks[old(j)]
  <2>1. /\ Len(m_tasks') = n - 1
        /\ \A j \in 1..(n - 1) : m_tasks'[j] = IF j < i THEN m_tasks[j] ELSE m_tasks[j + 1]
    BY RemoveAtProperties DEF TypeOK
  <2>2. QED
    BY <2>1
<1>3. \A j \in 1..(n - 1) : old(j) \in 1..n /\ old(j) # i
  BY <1>1
<1>4. \A k \in 1..n : k # i => \E j \in 1..(n - 1) : k = old(j)
  <2>1. ASSUME NEW k \in 1..n, k # i
        PROVE  \E j \in 1..(n - 1) : k = old(j)
    <3>1. CASE k < i
      <4>1. k \in 1..(n - 1) /\ old(k) = k
        BY <1>1, <3>1
      <4>2. QED
        BY <4>1
    <3>2. CASE k > i
      <4>1. k - 1 \in 1..(n - 1) /\ old(k - 1) = k
        BY <1>1, <3>2
      <4>2. QED
        BY <4>1
    <3>3. QED
      BY <1>1, <2>1, <3>1, <3>2
  <2>2. QED
    BY <2>1
<1>5. \A j, k \in 1..(n - 1) : old(j) = old(k) => j = k
  BY <1>1
<1>6. \A k \in 1..n : m_tasks[k].fiber = f => k = i
  BY DEF QueueExact
<1>7. i \in 1..n
  OBVIOUS
<1>8. \A k, l \in 1..n : m_tasks[k].fiber = m_tasks[l].fiber => k = l
  BY DEF QueueExact
<1>9. \A g \in Fibers : Queued(g) <=> \E k \in 1..n : m_tasks[k].fiber = g
  BY DEF Queued
<1> HIDE DEF n, old
<1>10. \A g \in Fibers : Queued(g)' <=> \E j \in 1..(n - 1) : m_tasks'[j].fiber = g
  BY <1>2 DEF Queued
<1>11. ASSUME NEW g \in Fibers
      PROVE  place'[g] = "queue" <=> Queued(g)'
  <2>1. CASE g = f
    <3>1. place'[g] = "run"
      BY <1>1, <2>1 DEF TypeOK
    <3>2. ~Queued(g)'
      BY <1>2, <1>3, <1>6, <1>10, <2>1
    <3>3. QED
      BY <3>1, <3>2
  <2>2. CASE g # f
    <3>1. place'[g] = place[g]
      BY <2>2 DEF TypeOK
    <3>2. Queued(g)' => Queued(g)
      BY <1>2, <1>3, <1>9, <1>10
    <3>3. Queued(g) => Queued(g)'
      BY <1>2, <1>4, <1>9, <1>10, <2>2
    <3>4. QED
      BY <3>1, <3>2, <3>3 DEF QueueExact
  <2>3. QED
    BY <2>1, <2>2
<1>12. ASSUME NEW j \in 1..(n - 1), NEW k \in 1..(n - 1), m_tasks'[j].fiber = m_tasks'[k].fiber
      PROVE  j = k
  BY <1>2, <1>3, <1>5, <1>8, <1>12
<1>13. QED
  BY <1>2, <1>11, <1>12 DEF QueueExact

\* A step that leaves the queue as it is.
LEMMA SameQueue ==
  ASSUME QueueExact, UNCHANGED m_tasks, \A f \in Fibers : place'[f] = "queue" <=> place[f] = "queue"
  PROVE  QueueExact'
BY DEF QueueExact, Queued

\* A step that leaves the running fibers as they are.
LEMMA SameRun ==
  ASSUME RunExact, \A f \in Fibers : place'[f] = "run" <=> place[f] = "run",
         \A t \in Threads : (pc'[t] = "run" <=> pc[t] = "run") /\ (pc[t] = "run" => cur'[t] = cur[t])
  PROVE  RunExact'
BY DEF RunExact

\* A step that leaves the collected callbacks as they are.
LEMMA SameHeld ==
  ASSUME HeldExact, UNCHANGED held, \A f \in Fibers : place'[f] = "held" <=> place[f] = "held",
         TypeOK, \A t \in Threads : pc[t] = "due" => pc'[t] = "due" \/ held[t] = {}
  PROVE  HeldExact'
BY DEF HeldExact, TypeOK

\* A thread moves inside run() or idle() and no fiber moves with it.
LEMMA ThreadMoves ==
  ASSUME TypeOK, PlaceInv, NEW t \in Threads, NEW q, UNCHANGED <<m_tasks, place, held>>,
         pc' = [pc EXCEPT ![t] = q], q # "run", pc[t] # "run", pc[t] = "due" => held[t] = {},
         \A u \in Threads : u # t => cur'[u] = cur[u]
  PROVE  PlaceInv'
<1>1. \A u \in Threads : pc'[u] = IF u = t THEN q ELSE pc[u]
  BY DEF TypeOK
<1>2. QueueExact'
  BY SameQueue DEF PlaceInv
<1>3. RunExact'
  BY <1>1, SameRun DEF PlaceInv
<1>4. HeldExact'
  BY <1>1, SameHeld DEF PlaceInv
<1>5. QED
  BY <1>2, <1>3, <1>4 DEF PlaceInv

\* The fiber on thread t gives up the thread for x.
LEMMA GiveUp ==
  ASSUME TypeOK, PlaceInv, NEW t \in Threads, pc[t] = "run", NEW x, x \notin {"run", "queue", "held"},
         place' = [place EXCEPT ![cur[t]] = x], pc' = [pc EXCEPT ![t] = "yield"],
         UNCHANGED <<m_tasks, cur, held>>
  PROVE  PlaceInv'
<1> DEFINE g == cur[t]
<1>1. g \in Fibers /\ place[g] = "run"
  BY DEF PlaceInv, RunExact
<1>2. /\ \A f \in Fibers : place'[f] = IF f = g THEN x ELSE place[f]
      /\ \A u \in Threads : pc'[u] = IF u = t THEN "yield" ELSE pc[u]
  BY <1>1 DEF TypeOK
<1>3. QueueExact'
  BY <1>1, <1>2, SameQueue DEF PlaceInv
<1>4. HeldExact'
  BY <1>1, <1>2, SameHeld DEF PlaceInv
<1>5. RunExact'
  BY <1>1, <1>2 DEF PlaceInv, RunExact
<1>6. QED
  BY <1>3, <1>4, <1>5 DEF PlaceInv

\* A fiber that is neither running, queued nor held is given to a waker or to the queue.
LEMMA HandedOver ==
  ASSUME TypeOK, PlaceInv, NEW f \in Fibers, place[f] \in {"new", "event"}, NEW x,
         x \in {"queue", "event", "timer"}, place' = [place EXCEPT ![f] = x],
         IF x = "queue" THEN \E p \in Threads \cup {AnyThread} :
                               m_tasks' = Append(m_tasks, [fiber |-> f, thread |-> p])
                        ELSE UNCHANGED m_tasks,
         UNCHANGED <<cur, held>>,
         UNCHANGED pc \/ \E t \in Threads : pc[t] = "due" /\ held[t] = {} /\ pc' = [pc EXCEPT ![t] = "dec"]
  PROVE  PlaceInv'
<1>1. \A g \in Fibers : place'[g] = IF g = f THEN x ELSE place[g]
  BY DEF TypeOK
<1>2. QueueExact'
  BY <1>1, SameQueue, PushTask DEF PlaceInv
<1>3. \A t \in Threads : (pc'[t] = "run" <=> pc[t] = "run") /\ (pc[t] = "due" => pc'[t] = "due" \/ held[t] = {})
  BY DEF TypeOK
<1>4. RunExact'
  BY <1>1, <1>3, SameRun DEF PlaceInv
<1>5. HeldExact'
  BY <1>1, <1>3, SameHeld DEF PlaceInv
<1>6. QED
  BY <1>2, <1>4, <1>5 DEF PlaceInv

\* Every step moves a fiber from one place to one other.
LEMMA NextPlaces ==
  ASSUME TypeOK, PlaceInv, Leaving, [Next]_vars
  PROVE  PlaceInv'
<1>1. CASE UNCHANGED <<m_tasks, place, pc, cur, held>>
  BY <1>1, SameQueue, SameRun, SameHeld DEF PlaceInv
<1>2. ASSUME NEW t \in Threads, Take(t)
      PROVE  PlaceInv'
  <2>1. PICK i \in 1..Len(m_tasks) :
          /\ pc[t] = "pick"
          /\ cur' = [cur EXCEPT ![t] = m_tasks[i].fiber]
          /\ place' = [place EXCEPT ![m_tasks[i].fiber] = "run"]
          /\ m_tasks' = RemoveAt(m_tasks, i)
          /\ pc' = [pc EXCEPT ![t] = "run"]
          /\ UNCHANGED held
    BY <1>2 DEF Take, First, Eligible
  <2> DEFINE f == m_tasks[i].fiber
  <2>2. i \in 1..Len(m_tasks) /\ f \in Fibers
    BY QueuedAt
  <2>3. place[f] = "queue"
    BY <2>2 DEF PlaceInv, QueueExact, Queued
  <2>4. QueueExact'
    BY <2>1, <2>2, EraseTask DEF PlaceInv
  <2> HIDE DEF f
  <2>5. /\ \A g \in Fibers : place'[g] = IF g = f THEN "run" ELSE place[g]
        /\ \A u \in Threads : pc'[u] = IF u = t THEN "run" ELSE pc[u]
        /\ \A u \in Threads : cur'[u] = IF u = t THEN f ELSE cur[u]
    BY <2>1, <2>2 DEF TypeOK, f
  <2>6. RunExact'
    BY <2>1, <2>2, <2>3, <2>5 DEF PlaceInv, RunExact
  <2>7. HeldExact'
    BY <2>1, <2>2, <2>3, <2>5, SameHeld DEF PlaceInv
  <2>8. QED
    BY <2>4, <2>6, <2>7 DEF PlaceInv
<1>3. ASSUME NEW t \in Threads, TakeNothing(t) \/ Enter(t) \/ swapcontext(t) \/ Drop(t)
      PROVE  PlaceInv'
  <2>1. CASE TakeNothing(t)
    BY <2>1, ThreadMoves DEF TakeNothing
  <2>2. CASE Enter(t) \/ swapcontext(t)
    BY <2>2, ThreadMoves DEF Enter, swapcontext
  <2>3. CASE Drop(t)
    <3>1. \A u \in Threads : u # t => cur'[u] = cur[u]
      BY <2>3 DEF Drop, TypeOK
    <3>2. QED
      BY <2>3, <3>1, ThreadMoves DEF Drop
  <2>4. QED
    BY <1>3, <2>1, <2>2, <2>3
<1>4. ASSUME NEW t \in Threads, RunAddEvent(t) \/ RunAddTimer(t) \/ RunReturn(t)
      PROVE  PlaceInv'
  BY <1>4, GiveUp DEF RunAddEvent, RunAddTimer, RunReturn
<1>5. ASSUME NEW a \in Actors, NEW f \in Fibers, NEW p \in PinsUsed, Submit(a, f, p)
      PROVE  PlaceInv'
  <2>1. p \in Threads \cup {AnyThread}
    BY IOAssumption
  <2>2. QED
    BY <1>5, <2>1, HandedOver DEF Submit, schedule
<1>6. ASSUME NEW a \in Actors, NEW f \in Fibers, AddEventCb(a, f) \/ AddTimerCb(a, f)
      PROVE  PlaceInv'
  BY <1>6, HandedOver DEF AddEventCb, AddTimerCb
<1>7. ASSUME NEW t \in Threads, ReadTimers(t) \/ ReadPending(t) \/ ReadScheduler(t)
      PROVE  PlaceInv'
  BY <1>7, ThreadMoves DEF ReadTimers, ReadPending, ReadScheduler
<1>8. ASSUME NEW t \in Threads, epoll_wait(t) \/ EventDone(t) \/ IdleYield(t)
      PROVE  PlaceInv'
  BY <1>8, ThreadMoves DEF epoll_wait, EventDone, IdleYield
<1>9. ASSUME NEW t \in Threads, listExpiredCb(t)
      PROVE  PlaceInv'
  <2>1. PICK due \in SUBSET m_timers :
          /\ pc[t] = "woke"
          /\ held' = [held EXCEPT ![t] = due]
          /\ place' = [f \in Fibers |-> IF f \in due THEN "held" ELSE place[f]]
          /\ pc' = [pc EXCEPT ![t] = "due"]
          /\ UNCHANGED <<m_tasks, cur>>
    BY <1>9 DEF listExpiredCb
  <2>2. \A f \in due : f \in Fibers /\ place[f] = "timer"
    BY DEF m_timers
  <2>3. /\ \A f \in Fibers : place'[f] = IF f \in due THEN "held" ELSE place[f]
        /\ \A u \in Threads : pc'[u] = IF u = t THEN "due" ELSE pc[u]
        /\ \A u \in Threads : held'[u] = IF u = t THEN due ELSE held[u]
    BY <2>1 DEF TypeOK
  <2>4. QueueExact'
    BY <2>1, <2>2, <2>3, SameQueue DEF PlaceInv
  <2>5. RunExact'
    BY <2>1, <2>2, <2>3, SameRun DEF PlaceInv
  <2>6. held[t] = {}
    BY <2>1 DEF PlaceInv, HeldExact
  <2>7. \A u \in Threads : held[u] \subseteq Fibers
    BY DEF TypeOK
  <2>8. HeldExact'
    <3>1. \A u \in Threads : held'[u] # {} => pc'[u] = "due"
      BY <2>3 DEF PlaceInv, HeldExact
    <3>2. \A u \in Threads : \A f \in held'[u] : place'[f] = "held"
      BY <2>2, <2>3, <2>7 DEF PlaceInv, HeldExact
    <3>3. ASSUME NEW u \in Threads, NEW v \in Threads, u # v
          PROVE  held'[u] \cap held'[v] = {}
      <4>1. \A w \in Threads : held[w] \cap due = {}
        BY <2>2 DEF PlaceInv, HeldExact
      <4>2. held[u] \cap held[v] = {}
        BY <3>3 DEF PlaceInv, HeldExact
      <4>3. QED
        BY <2>3, <3>3, <4>1, <4>2
    <3>4. \A f \in Fibers : place'[f] = "held" => \E u \in Threads : f \in held'[u]
      BY <2>3, <2>6 DEF PlaceInv, HeldExact
    <3>5. QED
      BY <3>1, <3>2, <3>3, <3>4 DEF HeldExact
  <2>9. QED
    BY <2>4, <2>5, <2>8 DEF PlaceInv
<1>10. ASSUME NEW t \in Threads, ScheduleCb(t)
      PROVE  PlaceInv'
  <2>1. PICK f \in held[t] :
          /\ pc[t] = "due"
          /\ held' = [held EXCEPT ![t] = @ \ {f}]
          /\ place' = [place EXCEPT ![f] = "queue"]
          /\ m_tasks' = Append(m_tasks, [fiber |-> f, thread |-> AnyThread])
          /\ UNCHANGED <<pc, cur>>
    BY <1>10 DEF ScheduleCb, schedule
  <2>2. f \in Fibers /\ place[f] = "held"
    BY DEF TypeOK, PlaceInv, HeldExact
  <2>3. /\ \A g \in Fibers : place'[g] = IF g = f THEN "queue" ELSE place[g]
        /\ \A u \in Threads : held'[u] = IF u = t THEN held[t] \ {f} ELSE held[u]
        /\ \A u \in Threads : held[u] \subseteq Fibers
    BY <2>1, <2>2 DEF TypeOK
  <2>4. QueueExact'
    BY <2>1, <2>2, PushTask DEF PlaceInv
  <2>5. RunExact'
    BY <2>1, <2>2, <2>3, SameRun DEF PlaceInv
  <2>6. \A u \in Threads : u # t => f \notin held[u]
    BY DEF PlaceInv, HeldExact
  <2>7. HeldExact'
    BY <2>1, <2>2, <2>3, <2>6 DEF PlaceInv, HeldExact
  <2>8. QED
    BY <2>4, <2>5, <2>7 DEF PlaceInv
<1>11. ASSUME NEW t \in Threads, triggerEvent(t)
      PROVE  PlaceInv'
  <2>1. PICK f \in Fibers :
          /\ pc[t] = "due" /\ held[t] = {} /\ place[f] = "event"
          /\ place' = [place EXCEPT ![f] = "queue"]
          /\ m_tasks' = Append(m_tasks, [fiber |-> f, thread |-> AnyThread])
          /\ pc' = [pc EXCEPT ![t] = "dec"]
          /\ UNCHANGED <<cur, held>>
    BY <1>11 DEF triggerEvent, schedule
  <2>2. QED
    BY <2>1, HandedOver
<1>12. CASE StopRoot
  <2>1. CASE UseCaller
    BY <1>12, <2>1, ThreadMoves DEF StopRoot, Threads, Leaving
  <2>2. CASE ~UseCaller
    BY <1>1, <1>12, <2>2 DEF StopRoot
  <2>3. QED
    BY <2>1, <2>2
<1>13. CASE StopSet \/ StopJoin \/ UNCHANGED vars \/ \E a \in Actors : tickle(a)
  BY <1>1, <1>13 DEF StopSet, StopJoin, vars, tickle
<1>14. QED
  BY <1>2, <1>3, <1>4, <1>5, <1>6, <1>7, <1>8, <1>9, <1>10, <1>11, <1>12, <1>13
  DEF Next, ThreadStep, IdleStep, UserStep, StopStep, Terminated, Actors

-----------------------------------------------------------------------------
(* The count of pending events.                                            *)

\* A step that registers no event and triggers none.
LEMMA SameEvents ==
  ASSUME PendingExact, UNCHANGED m_pendingEventCount,
         \A f \in Fibers : place'[f] = "event" <=> place[f] = "event",
         \A t \in Threads : pc'[t] = "dec" <=> pc[t] = "dec"
  PROVE  PendingExact'
<1>1. Waiting' = Waiting
  BY DEF Waiting
<1>2. Subtracting' = Subtracting
  BY DEF Subtracting
<1>3. QED
  BY <1>1, <1>2 DEF PendingExact

\* A fiber that did not wait for an event does, and is counted.
LEMMA OneMoreEvent ==
  ASSUME PendingExact, TypeOK, NEW f \in Fibers, place[f] # "event",
         place' = [place EXCEPT ![f] = "event"], m_pendingEventCount' = m_pendingEventCount + 1,
         \A t \in Threads : pc'[t] = "dec" <=> pc[t] = "dec"
  PROVE  PendingExact'
<1>1. Waiting' = Waiting \cup {f} /\ f \notin Waiting
  BY DEF Waiting, TypeOK
<1>2. Subtracting' = Subtracting
  BY DEF Subtracting
<1>3. IsFiniteSet(Subtracting)
  BY ThreadsFinite, FS_Subset DEF Subtracting
<1>4. /\ IsFiniteSet(Waiting \cup {f})
      /\ Cardinality(Waiting \cup {f}) = Cardinality(Waiting) + 1
      /\ Cardinality(Waiting) \in Nat /\ Cardinality(Subtracting) \in Nat
  BY <1>1, <1>3, FS_AddElement, FS_CardinalityType DEF PendingExact
<1>5. QED
  BY <1>1, <1>2, <1>4 DEF PendingExact

\* Every step keeps the count: an event is subtracted by the thread that has triggered it.
LEMMA NextPending ==
  ASSUME TypeOK, PlaceInv, PendingExact, Leaving, [Next]_vars
  PROVE  PendingExact'
<1>1. CASE UNCHANGED <<place, pc, m_pendingEventCount>>
  BY <1>1, SameEvents
<1>2. ASSUME NEW t \in Threads, NEW q, q # "dec", pc[t] # "dec", pc' = [pc EXCEPT ![t] = q],
             UNCHANGED <<place, m_pendingEventCount>>
      PROVE  PendingExact'
  BY <1>2, SameEvents DEF TypeOK
<1>3. ASSUME NEW t \in Threads, Take(t)
      PROVE  PendingExact'
  <2>1. PICK i \in 1..Len(m_tasks) :
          /\ pc[t] = "pick"
          /\ place' = [place EXCEPT ![m_tasks[i].fiber] = "run"]
          /\ pc' = [pc EXCEPT ![t] = "run"]
          /\ UNCHANGED m_pendingEventCount
    BY <1>3 DEF Take, First, Eligible
  <2> DEFINE f == m_tasks[i].fiber
  <2>2. f \in Fibers /\ place[f] = "queue"
    BY QueuedAt DEF PlaceInv, QueueExact, Queued
  <2>3. QED
    BY <2>1, <2>2, SameEvents DEF TypeOK
<1>4. ASSUME NEW t \in Threads, TakeNothing(t) \/ Enter(t) \/ swapcontext(t) \/ Drop(t)
      PROVE  PendingExact'
  BY <1>2, <1>4 DEF TakeNothing, Enter, swapcontext, Drop
<1>5. ASSUME NEW t \in Threads, RunAddEvent(t) \/ RunAddTimer(t) \/ RunReturn(t)
      PROVE  PendingExact'
  <2>1. pc[t] = "run" /\ cur[t] \in Fibers /\ place[cur[t]] = "run" /\ pc' = [pc EXCEPT ![t] = "yield"]
    BY <1>5 DEF RunAddEvent, RunAddTimer, RunReturn, PlaceInv, RunExact
  <2>2. \A u \in Threads : pc'[u] = "dec" <=> pc[u] = "dec"
    BY <2>1 DEF TypeOK
  <2>3. CASE RunAddEvent(t)
    BY <2>1, <2>2, <2>3, OneMoreEvent DEF RunAddEvent
  <2>4. CASE RunAddTimer(t) \/ RunReturn(t)
    BY <2>1, <2>2, <2>4, SameEvents DEF RunAddTimer, RunReturn, TypeOK
  <2>5. QED
    BY <1>5, <2>3, <2>4
<1>6. ASSUME NEW a \in Actors, NEW f \in Fibers, NEW p \in PinsUsed, Submit(a, f, p)
      PROVE  PendingExact'
  BY <1>6, SameEvents DEF Submit, TypeOK
<1>7. ASSUME NEW a \in Actors, NEW f \in Fibers, AddEventCb(a, f)
      PROVE  PendingExact'
  BY <1>7, OneMoreEvent DEF AddEventCb
<1>8. ASSUME NEW a \in Actors, NEW f \in Fibers, AddTimerCb(a, f)
      PROVE  PendingExact'
  BY <1>8, SameEvents DEF AddTimerCb, TypeOK
<1>9. ASSUME NEW t \in Threads,
             ReadTimers(t) \/ ReadPending(t) \/ ReadScheduler(t) \/ epoll_wait(t) \/ IdleYield(t)
      PROVE  PendingExact'
  BY <1>2, <1>9 DEF ReadTimers, ReadPending, ReadScheduler, epoll_wait, IdleYield
<1>10. ASSUME NEW t \in Threads, listExpiredCb(t)
      PROVE  PendingExact'
  BY <1>10, SameEvents DEF listExpiredCb, m_timers, TypeOK
<1>11. ASSUME NEW t \in Threads, ScheduleCb(t)
      PROVE  PendingExact'
  <2>1. PICK f \in held[t] : place' = [place EXCEPT ![f] = "queue"] /\ UNCHANGED <<pc, m_pendingEventCount>>
    BY <1>11 DEF ScheduleCb
  <2>2. f \in Fibers /\ place[f] = "held"
    BY DEF TypeOK, PlaceInv, HeldExact
  <2>3. QED
    BY <2>1, <2>2, SameEvents DEF TypeOK
<1>12. ASSUME NEW t \in Threads, triggerEvent(t)
      PROVE  PendingExact'
  <2>1. PICK f \in Fibers :
          /\ pc[t] = "due" /\ place[f] = "event"
          /\ place' = [place EXCEPT ![f] = "queue"]
          /\ pc' = [pc EXCEPT ![t] = "dec"]
          /\ UNCHANGED m_pendingEventCount
    BY <1>12 DEF triggerEvent
  <2>2. Waiting' = Waiting \ {f} /\ f \in Waiting
    BY <2>1 DEF Waiting, TypeOK
  <2>3. Subtracting' = Subtracting \cup {t} /\ t \notin Subtracting
    BY <2>1 DEF Subtracting, TypeOK
  <2>4. IsFiniteSet(Subtracting)
    BY ThreadsFinite, FS_Subset DEF Subtracting
  <2>5. /\ IsFiniteSet(Waiting \ {f}) /\ Cardinality(Waiting \ {f}) = Cardinality(Waiting) - 1
        /\ Cardinality(Subtracting \cup {t}) = Cardinality(Subtracting) + 1
        /\ Cardinality(Waiting) \in Nat /\ Cardinality(Subtracting) \in Nat
    BY <2>2, <2>3, <2>4, FS_AddElement, FS_RemoveElement, FS_CardinalityType DEF PendingExact
  <2>6. QED
    BY <2>1, <2>2, <2>3, <2>5 DEF PendingExact
<1>13. ASSUME NEW t \in Threads, EventDone(t)
      PROVE  PendingExact'
  <2>1. Waiting' = Waiting
    BY <1>13 DEF EventDone, Waiting
  <2>2. Subtracting' = Subtracting \ {t} /\ t \in Subtracting
    BY <1>13 DEF EventDone, Subtracting, TypeOK
  <2>3. IsFiniteSet(Subtracting)
    BY ThreadsFinite, FS_Subset DEF Subtracting
  <2>4. /\ Cardinality(Subtracting \ {t}) = Cardinality(Subtracting) - 1
        /\ Cardinality(Waiting) \in Nat /\ Cardinality(Subtracting) \in Nat
    BY <2>2, <2>3, FS_RemoveElement, FS_CardinalityType DEF PendingExact
  <2>5. m_pendingEventCount' = m_pendingEventCount - 1
    BY <1>13 DEF EventDone
  <2>6. QED
    BY <2>1, <2>2, <2>4, <2>5 DEF PendingExact
<1>14. CASE StopRoot
  <2>1. CASE UseCaller
    BY <1>2, <1>14, <2>1 DEF StopRoot, Threads, Leaving
  <2>2. CASE ~UseCaller
    BY <1>1, <1>14, <2>2 DEF StopRoot
  <2>3. QED
    BY <2>1, <2>2
<1>15. CASE StopSet \/ StopJoin \/ UNCHANGED vars \/ \E a \in Actors : tickle(a)
  BY <1>1, <1>15 DEF StopSet, StopJoin, vars, tickle
<1>16. QED
  BY <1>3, <1>4, <1>5, <1>6, <1>7, <1>8, <1>9, <1>10, <1>11, <1>12, <1>13, <1>14, <1>15
  DEF Next, ThreadStep, IdleStep, UserStep, StopStep, Terminated, Actors

-----------------------------------------------------------------------------
(* The end.                                                                *)

\* A thread with no task and nothing to submit moves; whether it has decided to leave does not change.
LEMMA LeavingMoves ==
  ASSUME TypeOK, Leaving, NEW t \in Threads, NEW q, pc' = [pc EXCEPT ![t] = q],
         UNCHANGED <<m_stopping, cpc, idleTerm>>,
         pc[t] \notin {"off", "exit"}, q # "off",
         idleTerm[t] => q \in {"pick", "run", "yield", "back", "exit"}, q = "exit" => idleTerm[t],
         (\A u \in Threads : idleTerm[u]) => UNCHANGED m_tasks /\ q \in {"pick", "exit"}
  PROVE  Leaving'
<1>1. \A u \in Threads : pc'[u] = IF u = t THEN q ELSE pc[u]
  BY DEF TypeOK
<1>2. UseCaller => Caller \in Threads
  BY DEF Threads
<1>3. (UseCaller /\ cpc \in {"live", "root"} => pc[Caller] = "off")'
  BY <1>1, <1>2 DEF Leaving, Settled
<1>4. cpc # "stopped"
  BY DEF Leaving, Settled
<1>5. QED
  BY <1>1, <1>3, <1>4 DEF Leaving, Settled

\* Every step keeps it.
LEMMA NextLeaving ==
  ASSUME TypeOK, PlaceInv, Leaving, [Next]_vars
  PROVE  Leaving'
<1>1. CASE UNCHANGED <<m_tasks, pc, idleTerm, m_stopping, cpc>>
  BY <1>1 DEF Leaving, Settled
<1>2. ASSUME NEW t \in Threads, pc[t] \notin {"pick", "exit"}, UNCHANGED <<pc, idleTerm, m_stopping, cpc>>
      PROVE  Leaving'
  BY <1>2 DEF Leaving, Settled
<1>3. ASSUME NEW t \in Threads, Take(t)
      PROVE  Leaving'
  <2>1. PICK i \in 1..Len(m_tasks) :
          pc[t] = "pick" /\ pc' = [pc EXCEPT ![t] = "run"] /\ UNCHANGED <<idleTerm, m_stopping, cpc>>
    BY <1>3 DEF Take, First, Eligible
  <2>2. m_tasks # <<>>
    BY QueuedAt
  <2>3. ~\A u \in Threads : idleTerm[u]
    BY <2>2 DEF Leaving, Settled
  <2>4. QED
    BY <2>1, <2>3, LeavingMoves
<1>4. ASSUME NEW t \in Threads, TakeNothing(t) \/ Enter(t) \/ swapcontext(t) \/ Drop(t)
      PROVE  Leaving'
  <2>1. CASE TakeNothing(t)
    BY <2>1, LeavingMoves DEF TakeNothing
  <2>2. CASE Enter(t)
    <3>1. ~idleTerm[t]
      BY <2>2 DEF Enter, Leaving, Settled
    <3>2. QED
      BY <2>2, <3>1, LeavingMoves DEF Enter
  <2>3. CASE Drop(t)
    BY <2>3, LeavingMoves DEF Drop
  <2>4. CASE swapcontext(t)
    <3>1. ~\A u \in Threads : idleTerm[u]
      BY <2>4 DEF swapcontext, Leaving, Settled
    <3>2. QED
      BY <2>4, <3>1, LeavingMoves DEF swapcontext
  <2>5. QED
    BY <1>4, <2>1, <2>2, <2>3, <2>4
<1>5. ASSUME NEW t \in Threads, RunAddEvent(t) \/ RunAddTimer(t) \/ RunReturn(t)
      PROVE  Leaving'
  <2>1. pc[t] = "run" /\ pc' = [pc EXCEPT ![t] = "yield"] /\ UNCHANGED <<m_tasks, idleTerm, m_stopping, cpc>>
    BY <1>5 DEF RunAddEvent, RunAddTimer, RunReturn
  <2>2. ~\A u \in Threads : idleTerm[u]
    BY <2>1 DEF Leaving, Settled
  <2>3. QED
    BY <2>1, <2>2, LeavingMoves
<1>6. ASSUME NEW a \in Actors, UserStep(a)
      PROVE  Leaving'
  <2>1. CanCall(a) /\ UNCHANGED <<pc, idleTerm, m_stopping, cpc>>
    BY <1>6 DEF UserStep, Submit, AddEventCb, AddTimerCb
  <2>2. CASE a \in Threads /\ pc[a] = "run"
    BY <1>2, <2>1, <2>2
  <2>3. CASE cpc = "live"
    <3>1. \A t \in Threads : ~idleTerm[t]
      BY <2>3 DEF Leaving, Settled
    <3>2. Threads # {}
      BY IOAssumption
    <3>3. QED
      BY <2>1, <3>1, <3>2 DEF Leaving, Settled
  <2>4. QED
    BY <2>1, <2>2, <2>3 DEF CanCall
<1>7. ASSUME NEW t \in Threads, ReadTimers(t) \/ ReadPending(t) \/ epoll_wait(t) \/ EventDone(t) \/ IdleYield(t)
      PROVE  Leaving'
  <2>1. \E q \in IdlePc \cup {"pick"} : pc' = [pc EXCEPT ![t] = q]
    BY <1>7 DEF ReadTimers, ReadPending, epoll_wait, EventDone, IdleYield, IdlePc
  <2>2. pc[t] \in IdlePc /\ UNCHANGED <<m_tasks, idleTerm, m_stopping, cpc>>
    BY <1>7 DEF ReadTimers, ReadPending, epoll_wait, EventDone, IdleYield, IdlePc
  <2>3. ~idleTerm[t]
    BY <2>2 DEF Leaving, Settled, IdlePc
  <2>4. QED
    BY <2>1, <2>2, <2>3, LeavingMoves DEF IdlePc
<1>8. ASSUME NEW t \in Threads, ReadScheduler(t)
      PROVE  Leaving'
  <2>1. ~idleTerm[t]
    BY <1>8 DEF ReadScheduler, Leaving, Settled
  <2>2. CASE ~SchedulerStopping
    <3>1. idleTerm' = idleTerm
      <4>1. SchedulerStopping = FALSE /\ idleTerm[t] = FALSE
        BY <2>1, <2>2 DEF SchedulerStopping, TypeOK
      <4>2. QED
        BY <1>8, <4>1 DEF ReadScheduler, TypeOK
    <3>2. QED
      BY <1>8, <2>1, <2>2, <3>1, LeavingMoves DEF ReadScheduler
  <2>3. CASE SchedulerStopping
    <3>1. /\ m_stopping /\ m_tasks = <<>>
          /\ \A u \in Threads : pc[u] \notin {"run", "yield", "back"}
      BY <2>3 DEF SchedulerStopping, NobodyActive
    <3>2. /\ \A u \in Threads : pc'[u] = IF u = t THEN "pick" ELSE pc[u]
          /\ \A u \in Threads : idleTerm'[u] = IF u = t THEN TRUE ELSE idleTerm[u]
          /\ UNCHANGED <<m_tasks, m_stopping, cpc>>
      BY <1>8, <2>3 DEF ReadScheduler, TypeOK
    <3>3. pc[t] = "sched"
      BY <1>8 DEF ReadScheduler
    <3>4. UseCaller => Caller \in Threads
      BY DEF Threads
    <3>5. (UseCaller /\ cpc \in {"live", "root"} => pc[Caller] = "off")'
      BY <3>2, <3>3, <3>4 DEF Leaving, Settled
    <3>6. Settled'
      BY <3>1, <3>2 DEF Leaving, Settled
    <3>7. cpc # "stopped"
      BY <3>3 DEF Leaving, Settled
    <3>8. QED
      BY <3>1, <3>2, <3>5, <3>6, <3>7 DEF Leaving, Settled
  <2>4. QED
    BY <2>2, <2>3
<1>9. ASSUME NEW t \in Threads, listExpiredCb(t) \/ triggerEvent(t) \/ ScheduleCb(t)
      PROVE  Leaving'
  <2>1. pc[t] \in {"woke", "due"} /\ UNCHANGED <<idleTerm, m_stopping, cpc>>
    BY <1>9 DEF listExpiredCb, triggerEvent, ScheduleCb
  <2>2. ~idleTerm[t]
    BY <2>1 DEF Leaving, Settled
  <2>3. CASE UNCHANGED pc
    BY <1>2, <2>1, <2>3
  <2>4. CASE \E q \in {"due", "dec"} : pc' = [pc EXCEPT ![t] = q]
    BY <2>1, <2>2, <2>4, LeavingMoves
  <2>5. QED
    BY <1>9, <2>3, <2>4 DEF listExpiredCb, triggerEvent, ScheduleCb
<1>10. CASE StopSet
  BY <1>10 DEF StopSet, Leaving, Settled
<1>11. CASE StopRoot
  <2>1. CASE UseCaller
    <3>1. Caller \in Threads /\ pc[Caller] = "off" /\ ~idleTerm[Caller]
      BY <1>11, <2>1 DEF StopRoot, Leaving, Settled, Threads
    <3>2. \A u \in Threads : pc'[u] = IF u = Caller THEN "pick" ELSE pc[u]
      BY <1>11, <2>1 DEF StopRoot, TypeOK
    <3>3. cpc' = "join" /\ cpc = "root" /\ UNCHANGED <<m_tasks, idleTerm, m_stopping>>
      BY <1>11 DEF StopRoot
    <3>4. QED
      BY <3>1, <3>2, <3>3 DEF Leaving, Settled
  <2>2. CASE ~UseCaller
    BY <1>11, <2>2 DEF StopRoot, Leaving, Settled
  <2>3. QED
    BY <2>1, <2>2
<1>12. CASE StopJoin
  BY <1>12 DEF StopJoin, Leaving, Settled
<1>13. CASE UNCHANGED vars \/ \E a \in Actors : tickle(a)
  BY <1>1, <1>13 DEF vars, tickle
<1>14. QED
  BY <1>3, <1>4, <1>5, <1>6, <1>7, <1>8, <1>9, <1>10, <1>11, <1>12, <1>13
  DEF Next, ThreadStep, IdleStep, StopStep, Terminated, Actors

\* The workers start in run() with nothing to do.
LEMMA InitIO == Init => IOInv
<1> SUFFICES ASSUME Init PROVE IOInv
  OBVIOUS
<1>1. TypeOK
  <2>1. <<>> \in Seq([fiber : Fibers, thread : Threads \cup {AnyThread}])
    BY EmptySeq
  <2>2. QED
    BY <2>1 DEF Init, TypeOK, ThreadPc
<1>2. PlaceInv
  BY DEF Init, PlaceInv, QueueExact, Queued, RunExact, HeldExact
<1>3. PendingExact
  <2>1. Waiting = {} /\ Subtracting = {}
    BY DEF Init, Waiting, Subtracting
  <2>2. QED
    BY <2>1, FS_EmptySet DEF Init, PendingExact
<1>4. Leaving
  BY IOAssumption DEF Init, Leaving, Settled, Threads
<1>5. QED
  BY <1>1, <1>2, <1>3, <1>4 DEF IOInv

\* The invariant of the manager.
LEMMA IOInvariant == Spec => []IOInv
<1>1. Init => IOInv
  BY InitIO
<1>2. IOInv /\ [Next]_vars => IOInv'
  BY NextTypes, NextPlaces, NextPending, NextLeaving DEF IOInv, PlaceInv
<1>3. QED
  BY <1>1, <1>2, PTL DEF Spec

\* stop() returns only when every task that was queued, in execution or collected from an expired timer
\* has run, whichever threads have left before; and the count of pending events never falls below zero.
THEOREM TasksRunBeforeStop == Spec => []StopRunsTasks
<1>1. IOInv => StopRunsTasks
  <2> SUFFICES ASSUME IOInv, cpc = "stopped", NEW f \in Fibers
               PROVE  place[f] \notin {"queue", "run", "held"}
    BY DEF StopRunsTasks, IOInv
  <2>1. \A t \in Threads : pc[t] = "exit" /\ idleTerm[t]
    BY DEF IOInv, Leaving, Settled
  <2>2. m_tasks = <<>>
    BY <2>1 DEF IOInv, Leaving, Settled
  <2>3. place[f] # "queue"
    BY <2>2 DEF IOInv, PlaceInv, QueueExact, Queued
  <2>4. place[f] # "run"
    BY <2>1 DEF IOInv, PlaceInv, RunExact
  <2>5. place[f] # "held"
    BY <2>1 DEF IOInv, PlaceInv, HeldExact
  <2>6. QED
    BY <2>3, <2>4, <2>5
<1>2. QED
  BY <1>1, IOInvariant, PTL

\* What stopping() reads between the steps of other threads is right: m_pendingEventCount is the number
\* of fibers that wait for an event and of events whose trigger has still to be subtracted.
THEOREM PendingIsExact == Spec => []PendingExact
<1>1. IOInv => PendingExact
  BY DEF IOInv
<1>2. QED
  BY <1>1, IOInvariant, PTL

-----------------------------------------------------------------------------
(* The pool of tasks.                                                      *)

\* A fiber that a thread executes is on no other, from run() until its context is saved.
OnThread ==
    /\ \A t \in Threads : pc[t] \in {"run", "yield"} => cur[t] \in Fibers
    /\ \A t, u \in Threads : pc[t] \in {"run", "yield"} /\ pc[u] \in {"run", "yield"} /\ cur[t] = cur[u]
                                => t = u

TaskInv == IOInv /\ OnThread

\* The threads that execute a fiber are the same and execute the same.
SameThreads ==
    \A t \in Threads : /\ pc'[t] \in {"run", "yield"} <=> pc[t] \in {"run", "yield"}
                       /\ pc[t] \in {"run", "yield"} => cur'[t] = cur[t]

\* Only a thread that takes a task or leaves one changes what it executes.
LEMMA ThreadsSame ==
  ASSUME TypeOK, Leaving, [Next]_vars
  PROVE  \/ SameThreads
         \/ \E t \in Threads : Take(t) \/ swapcontext(t)
<1>1. ASSUME NEW t \in Threads,
             \/ TakeNothing(t) \/ Enter(t) \/ RunAddEvent(t) \/ RunAddTimer(t) \/ RunReturn(t)
             \/ IdleStep(t)
      PROVE  SameThreads
  <2>1. UNCHANGED cur
    BY <1>1 DEF TakeNothing, Enter, RunAddEvent, RunAddTimer, RunReturn, IdleStep, ReadTimers, ReadPending,
       ReadScheduler, epoll_wait, listExpiredCb, ScheduleCb, triggerEvent, EventDone, IdleYield
  <2>2. \A u \in Threads : u # t => pc'[u] = pc[u]
    BY <1>1 DEF TypeOK, TakeNothing, Enter, RunAddEvent, RunAddTimer, RunReturn, IdleStep, ReadTimers,
       ReadPending, ReadScheduler, epoll_wait, listExpiredCb, ScheduleCb, triggerEvent, EventDone, IdleYield
  <2>3. pc'[t] \in {"run", "yield"} <=> pc[t] \in {"run", "yield"}
    BY <1>1 DEF TypeOK, TakeNothing, Enter, RunAddEvent, RunAddTimer, RunReturn, IdleStep, ReadTimers,
       ReadPending, ReadScheduler, epoll_wait, listExpiredCb, ScheduleCb, triggerEvent, EventDone, IdleYield
  <2>4. QED
    BY <2>1, <2>2, <2>3 DEF SameThreads
<1>2. ASSUME UNCHANGED <<pc, cur>>
      PROVE  SameThreads
  BY <1>2 DEF SameThreads
<1>3. ASSUME NEW a, UserStep(a) \/ tickle(a)
      PROVE  UNCHANGED <<pc, cur>>
  BY <1>3 DEF UserStep, tickle, Submit, AddEventCb, AddTimerCb
<1>4. CASE StopSet \/ StopJoin \/ UNCHANGED vars
  BY <1>2, <1>4 DEF StopSet, StopJoin, vars
<1>5. ASSUME NEW t \in Threads, Drop(t)
      PROVE  SameThreads
  <2>1. /\ pc[t] = "back" /\ pc'[t] = "pick"
        /\ \A u \in Threads : u # t => cur'[u] = cur[u] /\ pc'[u] = pc[u]
    BY <1>5 DEF Drop, TypeOK
  <2>2. QED
    BY <2>1 DEF SameThreads
<1>6. CASE StopRoot
  <2>1. UNCHANGED cur /\ \A t \in Threads : pc'[t] = pc[t] \/ (pc[t] = "off" /\ pc'[t] = "pick")
    BY <1>6 DEF StopRoot, Leaving, TypeOK
  <2>2. QED
    BY <2>1 DEF SameThreads
<1>7. QED
  BY <1>1, <1>2, <1>3, <1>4, <1>5, <1>6 DEF Next, ThreadStep, StopStep, Terminated

\* In that case run() takes only a fiber that no thread executes.
LEMMA TakeOnThread ==
  ASSUME SwitchInTime, TypeOK, NEW t \in Threads, Take(t)
  PROVE  \E f \in Fibers :
           /\ Queued(f) /\ ~Running(f) /\ f \notin SwitchedOut /\ pc[t] = "pick"
           /\ cur' = [cur EXCEPT ![t] = f] /\ pc' = [pc EXCEPT ![t] = "run"]
           /\ place' = [place EXCEPT ![f] = "run"] /\ UNCHANGED cpc
<1>1. PICK i \in First(Eligible(t, SwitchedOut)) :
        /\ pc[t] = "pick" /\ cur' = [cur EXCEPT ![t] = m_tasks[i].fiber]
        /\ place' = [place EXCEPT ![m_tasks[i].fiber] = "run"] /\ pc' = [pc EXCEPT ![t] = "run"]
        /\ UNCHANGED cpc
  BY DEF Take, Looks
<1>2. i \in 1..Len(m_tasks) /\ ~Running(m_tasks[i].fiber) /\ m_tasks[i].fiber \notin SwitchedOut
  BY DEF First, Eligible
<1>3. m_tasks[i] \in [fiber : Fibers, thread : Threads \cup {AnyThread}]
  BY <1>2, ElementOfSeq DEF TypeOK
<1>4. Queued(m_tasks[i].fiber) /\ m_tasks[i].fiber \in Fibers
  BY <1>2, <1>3 DEF Queued
<1>5. QED
  BY <1>1, <1>2, <1>4

\* So no fiber is on two threads.
LEMMA NextOnThread ==
  ASSUME SwitchInTime, TypeOK, Leaving, OnThread, [Next]_vars
  PROVE  OnThread'
<1>1. CASE SameThreads
  BY <1>1 DEF SameThreads, OnThread
<1>2. ASSUME NEW t \in Threads, Take(t)
      PROVE  OnThread'
  <2>1. PICK f \in Fibers : /\ ~Running(f) /\ f \notin SwitchedOut /\ cur' = [cur EXCEPT ![t] = f]
                            /\ pc' = [pc EXCEPT ![t] = "run"]
    BY <1>2, TakeOnThread
  <2>2. \A u \in Threads : /\ cur'[u] = IF u = t THEN f ELSE cur[u]
                           /\ pc'[u] = IF u = t THEN "run" ELSE pc[u]
    BY <2>1 DEF TypeOK
  <2>3. QED
    BY <2>1, <2>2 DEF OnThread, Running, SwitchedOut
<1>3. ASSUME NEW t \in Threads, swapcontext(t)
      PROVE  OnThread'
  <2>1. cur' = cur /\ \A u \in Threads : pc'[u] = IF u = t THEN "back" ELSE pc[u]
    BY <1>3 DEF swapcontext, TypeOK
  <2>2. QED
    BY <2>1 DEF OnThread
<1>4. QED
  BY <1>1, <1>2, <1>3, ThreadsSame

\* The threads execute the same tasks.
LEMMA RunningSame ==
  ASSUME SameThreads
  PROVE  running' = running
BY DEF SameThreads, running

\* Who takes part shows that stop() has not returned.
LEMMA NotReturned ==
  ASSUME Leaving, NEW t \in Threads, pc[t] # "exit"
  PROVE  cpc # "stopped"
BY DEF Leaving

\* A step on which no task becomes due, is begun or ends.
LEMMA QuietStep ==
  ASSUME TypeOK, SameThreads, UNCHANGED cpc,
         \A f \in Fibers :
           \/ place'[f] = place[f]
           \/ /\ place[f] \notin {"new", "queue"} /\ place'[f] \notin {"new", "queue"}
              /\ place[f] # "done" /\ (place'[f] = "done" => \E t \in Threads : running[t] = f)
  PROVE  UNCHANGED Pool!vars
<1>1. running' = running
  BY RunningSame
<1>2. dueTasks' = dueTasks
  BY DEF dueTasks
<1>3. \A f \in Fibers : status'[f] = status[f]
  BY <1>1 DEF status
<1>4. status' = status
  BY <1>3 DEF status
<1>5. QED
  BY <1>1, <1>2, <1>4 DEF Pool!vars

\* A fiber that waits, was collected or is new becomes due, or is registered.
LEMMA HandStep ==
  ASSUME TypeOK, SameThreads, UNCHANGED cpc, cpc # "stopped", NEW f \in Fibers,
         \E x \in {"queue", "event", "timer"} : place' = [place EXCEPT ![f] = x]
           /\ (place[f] = "new" \/ (x = "queue" /\ place[f] \in {"event", "held"}))
  PROVE  Pool!Submit(f) \/ Pool!Register(f) \/ Pool!Reschedule(f)
<1>1. running' = running
  BY RunningSame
<1>2. PICK x \in {"queue", "event", "timer"} :
        /\ place' = [place EXCEPT ![f] = x]
        /\ place[f] = "new" \/ (x = "queue" /\ place[f] \in {"event", "held"})
  OBVIOUS
<1>3. \A g \in Fibers : place'[g] = IF g = f THEN x ELSE place[g]
  BY <1>2 DEF TypeOK
<1>4. dueTasks' = IF x = "queue" THEN dueTasks \cup {f} ELSE dueTasks
  BY <1>2, <1>3 DEF dueTasks
<1>5. f \notin dueTasks
  BY <1>2 DEF dueTasks
<1>6. \A g \in Fibers : status'[g] = IF g = f THEN "open" ELSE status[g]
  BY <1>1, <1>3 DEF status
<1>7. status' = [status EXCEPT ![f] = "open"]
  BY <1>6 DEF status
<1>8. CASE place[f] = "new"
  <2>1. status[f] = "new"
    BY <1>8 DEF status
  <2>2. QED
    BY <1>1, <1>4, <1>7, <2>1 DEF Pool!Submit, Pool!Register
<1>9. CASE place[f] # "new"
  <2>1. status[f] = "open" /\ x = "queue"
    BY <1>2, <1>9 DEF status
  <2>2. status' = status
    BY <1>6, <2>1 DEF status
  <2>3. QED
    BY <1>1, <1>4, <1>5, <2>1, <2>2 DEF Pool!Reschedule
<1>10. QED
  BY <1>8, <1>9

\* Taking a task begins it.
LEMMA TakeStep ==
  ASSUME SwitchInTime, TaskInv, NEW t \in Threads, Take(t)
  PROVE  \E f \in Fibers : Pool!Begin(t, f)
<1>0. TypeOK /\ OnThread /\ Leaving /\ QueueExact
  BY DEF TaskInv, IOInv, PlaceInv
<1>1. PICK f \in Fibers :
        /\ Queued(f) /\ ~Running(f) /\ f \notin SwitchedOut /\ pc[t] = "pick"
        /\ cur' = [cur EXCEPT ![t] = f] /\ pc' = [pc EXCEPT ![t] = "run"]
        /\ place' = [place EXCEPT ![f] = "run"] /\ UNCHANGED cpc
  BY <1>0, TakeOnThread
<1>2. place[f] = "queue"
  BY <1>0, <1>1 DEF QueueExact
<1>3. running[t] = NoFiber /\ \A u \in Threads : running[u] # f
  BY <1>1, IOAssumption DEF running, Running, SwitchedOut
<1>4. running' = [running EXCEPT ![t] = f]
  BY <1>0, <1>1 DEF running, TypeOK
<1>5. \A g \in Fibers : place'[g] = IF g = f THEN "run" ELSE place[g]
  BY <1>0, <1>1 DEF TypeOK
<1>6. f \in dueTasks /\ dueTasks' = dueTasks \ {f}
  BY <1>2, <1>5 DEF dueTasks
<1>7. status[f] = "open"
  BY <1>2 DEF status
<1>8. status' = status
  <2>1. \A u \in Threads : running'[u] = IF u = t THEN f ELSE running[u]
    BY <1>4 DEF running
  <2>2. ASSUME NEW g \in Fibers, g # f PROVE status'[g] = status[g]
    <3>1. (\A u \in Threads : running'[u] # g) <=> (\A u \in Threads : running[u] # g)
      BY <1>3, <2>1, <2>2, IOAssumption
    <3>2. QED
      BY <1>5, <2>2, <3>1 DEF status
  <2>3. status'[f] = "open"
    BY <1>5 DEF status
  <2>4. QED
    BY <1>7, <2>2, <2>3 DEF status
<1>9. cpc # "stopped"
  BY <1>0, <1>1, NotReturned
<1>10. QED
  BY <1>1, <1>3, <1>4, <1>6, <1>7, <1>8, <1>9 DEF Pool!Begin, Pool!Free

\* Back in run(), the task has paused or has ended.
LEMMA SwitchStep ==
  ASSUME TaskInv, NEW t \in Threads, swapcontext(t)
  PROVE  Pool!Pause(t) \/ Pool!Finish(t)
<1>0. TypeOK /\ OnThread
  BY DEF TaskInv, IOInv
<1>1. pc[t] = "yield" /\ pc' = [pc EXCEPT ![t] = "back"] /\ UNCHANGED <<place, cur, cpc>>
  BY DEF swapcontext
<1>2. PICK f \in Fibers : f = cur[t]
  BY <1>0, <1>1 DEF OnThread
<1>3. running[t] = f /\ running' = [running EXCEPT ![t] = NoFiber]
  BY <1>0, <1>1, <1>2 DEF running, TypeOK
<1>4. \A u \in Threads : running'[u] = IF u = t THEN NoFiber ELSE running[u]
  BY <1>3 DEF running
<1>5. \A u \in Threads : u # t => running[u] # f
  BY <1>0, <1>1, <1>2, IOAssumption DEF OnThread, running
<1>6. dueTasks' = dueTasks
  BY <1>1 DEF dueTasks
<1>7. ASSUME NEW g \in Fibers, g # f PROVE status'[g] = status[g]
  <2>1. (\A u \in Threads : running'[u] # g) <=> (\A u \in Threads : running[u] # g)
    BY <1>3, <1>4, <1>7, IOAssumption
  <2>2. QED
    BY <1>1, <2>1 DEF status
<1>8. CASE place[f] = "done"
  <2>1. status'[f] = "done"
    <3>1. \A u \in Threads : running'[u] # f
      BY <1>4, <1>5, IOAssumption
    <3>2. QED
      BY <1>1, <1>8, <3>1 DEF status
  <2>2. \A g \in Fibers : status'[g] = IF g = f THEN "done" ELSE status[g]
    BY <1>7, <2>1
  <2>3. status' = [status EXCEPT ![f] = "done"]
    BY <2>2 DEF status
  <2>4. f \notin dueTasks
    BY <1>8 DEF dueTasks
  <2>5. QED
    BY <1>1, <1>3, <1>6, <2>3, <2>4, IOAssumption DEF Pool!Finish
<1>9. CASE place[f] # "done"
  <2>1. status'[f] = status[f]
    BY <1>1, <1>9 DEF status
  <2>2. status' = status
    BY <1>7, <2>1 DEF status
  <2>3. QED
    BY <1>1, <1>3, <1>6, <2>2, IOAssumption DEF Pool!Pause
<1>10. QED
  BY <1>8, <1>9

\* The last join finds nothing due and nobody executing.
LEMMA JoinStep ==
  ASSUME TaskInv, StopJoin
  PROVE  Pool!Return
<1>0. Leaving /\ QueueExact
  BY DEF TaskInv, IOInv, PlaceInv
<1>1. /\ cpc = "join" /\ cpc' = "stopped" /\ UNCHANGED <<place, pc, cur>>
      /\ \A t \in Threads : pc[t] = "exit"
  BY DEF StopJoin
<1>2. m_tasks = <<>>
  BY <1>0, <1>1 DEF Leaving, Settled
<1>3. dueTasks = {}
  <2>1. \A f \in Fibers : ~Queued(f)
    BY <1>2, EmptySeq DEF Queued
  <2>2. QED
    BY <1>0, <2>1 DEF QueueExact, dueTasks
<1>4. \A t \in Threads : running[t] = NoFiber
  BY <1>1 DEF running
<1>5. running' = running /\ dueTasks' = dueTasks
  BY <1>1 DEF running, dueTasks
<1>6. status' = status
  BY <1>1, <1>5 DEF status
<1>7. QED
  BY <1>1, <1>3, <1>4, <1>5, <1>6 DEF Pool!Return

\* Every step is a step of the pool of tasks, or none.
LEMMA PoolStep ==
  ASSUME SwitchInTime, TaskInv, [Next]_vars
  PROVE  [Pool!Next]_(Pool!vars)
<1>0. TypeOK /\ OnThread /\ Leaving /\ PlaceInv
  BY DEF TaskInv, IOInv
<1>1. ASSUME NEW t \in Threads, Take(t) \/ swapcontext(t)
      PROVE  Pool!Next
  BY <1>1, TakeStep, SwitchStep DEF Pool!Next
<1>2. ASSUME StopJoin
      PROVE  Pool!Next
  BY <1>2, JoinStep DEF Pool!Next
<1>3. ASSUME SameThreads, NEW t \in Threads, RunAddEvent(t) \/ RunAddTimer(t) \/ RunReturn(t)
      PROVE  UNCHANGED Pool!vars
  <2>1. cur[t] \in Fibers /\ place[cur[t]] = "run" /\ running[t] = cur[t]
    BY <1>0, <1>3 DEF PlaceInv, RunExact, RunAddEvent, RunAddTimer, RunReturn, running
  <2>2. UNCHANGED cpc /\ \E x \in {"event", "timer", "done"} : place' = [place EXCEPT ![cur[t]] = x]
    BY <1>3 DEF RunAddEvent, RunAddTimer, RunReturn
  <2>3. QED
    BY <1>0, <1>3, <2>1, <2>2, QuietStep DEF TypeOK
<1>4. ASSUME SameThreads, NEW t \in Threads, ScheduleCb(t) \/ triggerEvent(t)
      PROVE  Pool!Next
  <2>1. pc[t] = "due" /\ UNCHANGED cpc
    BY <1>4 DEF ScheduleCb, triggerEvent
  <2>2. \E f \in Fibers : place' = [place EXCEPT ![f] = "queue"] /\ place[f] \in {"event", "held"}
    BY <1>0, <1>4 DEF ScheduleCb, triggerEvent, PlaceInv, HeldExact, TypeOK
  <2>3. cpc # "stopped"
    BY <1>0, <2>1, NotReturned
  <2>4. QED
    BY <1>0, <1>4, <2>1, <2>2, <2>3, HandStep DEF Pool!Next
<1>5. ASSUME SameThreads, NEW t \in Threads, listExpiredCb(t)
      PROVE  UNCHANGED Pool!vars
  <2>1. UNCHANGED cpc /\ \A f \in Fibers : place'[f] = place[f] \/ (place[f] = "timer" /\ place'[f] = "held")
    BY <1>5 DEF listExpiredCb, m_timers
  <2>2. QED
    BY <1>0, <1>5, <2>1, QuietStep
<1>6. ASSUME SameThreads, NEW a, UserStep(a), a \in Threads \/ a = Caller
      PROVE  Pool!Next
  <2>1. PICK f \in Fibers : /\ place[f] = "new" /\ UNCHANGED cpc /\ CanCall(a)
                            /\ \E x \in {"queue", "event", "timer"} : place' = [place EXCEPT ![f] = x]
    BY <1>6 DEF UserStep, Submit, AddEventCb, AddTimerCb
  <2>2. cpc # "stopped"
    BY <1>0, <2>1, NotReturned DEF CanCall
  <2>3. QED
    BY <1>0, <1>6, <2>1, <2>2, HandStep DEF Pool!Next
<1>7. ASSUME SameThreads, UNCHANGED place, cpc' = cpc \/ (cpc # "stopped" /\ cpc' # "stopped")
      PROVE  UNCHANGED Pool!vars
  <2>1. running' = running
    BY <1>7, RunningSame
  <2>2. dueTasks' = dueTasks /\ status' = status
    BY <1>7, <2>1 DEF dueTasks, status
  <2>3. QED
    BY <1>7, <2>1, <2>2 DEF Pool!vars
<1>8. ASSUME NEW t \in Threads,
             \/ TakeNothing(t) \/ Enter(t) \/ ReadTimers(t) \/ ReadPending(t) \/ ReadScheduler(t)
             \/ epoll_wait(t) \/ EventDone(t) \/ IdleYield(t) \/ Drop(t)
      PROVE  UNCHANGED <<place, cpc>>
  BY <1>8 DEF TakeNothing, Enter, Drop, ReadTimers, ReadPending, ReadScheduler, epoll_wait, EventDone, IdleYield
<1>9. ASSUME \/ StopSet \/ StopRoot \/ UNCHANGED vars \/ \E a \in Actors : tickle(a)
      PROVE  UNCHANGED place /\ (cpc' = cpc \/ (cpc # "stopped" /\ cpc' # "stopped"))
  BY <1>9 DEF StopSet, StopRoot, tickle, vars
<1>10. SameThreads \/ \E t \in Threads : Take(t) \/ swapcontext(t)
  BY <1>0, ThreadsSame
<1>11. QED
  BY <1>1, <1>2, <1>3, <1>4, <1>5, <1>6, <1>7, <1>8, <1>9, <1>10
  DEF Next, ThreadStep, IdleStep, StopStep, Terminated, Actors

\* If no thread looks at a fiber between the READY of yield() (fiber.cc:169) and the end of its
\* swapcontext, which the code does not ensure for the unpinned fibers of the hooks, the manager
\* implements the pool of tasks of its interface, for every number of threads and fibers, with events
\* and timers: one beginning for each schedule(), by one thread at a time, and nothing due or executed
\* when stop() has returned, nor ever after.
THEOREM ManagerIsATaskPool ==
  ASSUME SwitchInTime
  PROVE  Spec => ImplementsTaskPool
<1>1. Init => OnThread
  BY DEF Init, OnThread
<1>2. IOInv /\ OnThread /\ [Next]_vars => OnThread'
  BY NextOnThread DEF IOInv
<1>3. IOInv /\ OnThread /\ [Next]_vars => [Pool!Next]_(Pool!vars)
  BY PoolStep DEF TaskInv
<1>4. Init => Pool!Init
  <2> SUFFICES ASSUME Init PROVE Pool!Init
    OBVIOUS
  <2>1. running = [t \in Threads |-> NoFiber] /\ dueTasks = {}
    BY DEF Init, running, dueTasks
  <2>2. status = [f \in Fibers |-> "new"]
    BY DEF Init, status
  <2>3. QED
    BY <2>1, <2>2 DEF Pool!Init, Init
<1>5. QED
  BY <1>1, <1>2, <1>3, <1>4, IOInvariant, PTL DEF Spec, ImplementsTaskPool, Pool!Spec
=============================================================================
