--------------------------- MODULE SchedulerProofs ---------------------------
(***************************************************************************)
(* Theorems about Scheduler, for every set of workers, clients and fibers. *)
(***************************************************************************)
EXTENDS Scheduler, TLAPS, FiniteSetTheorems, SequenceTheorems


(* Facts about the constants and about the list operation of run().        *)

\* The scheduler has finitely many threads.
LEMMA ThreadsFinite == IsFiniteSet(Threads)
<1>1. CASE UseCaller
  BY <1>1, ThreadsAssumption, FS_AddElement DEF Threads
<1>2. CASE ~UseCaller
  BY <1>2, ThreadsAssumption DEF Threads
<1>3. QED
  BY <1>1, <1>2

\* Erasing a position of a list: what is left, and where it was.
LEMMA RemoveAtProperties ==
  ASSUME NEW S, NEW s \in Seq(S), NEW i \in 1..Len(s)
  PROVE  /\ RemoveAt(s, i) \in Seq(S)
         /\ Len(RemoveAt(s, i)) = Len(s) - 1
         /\ \A j \in 1..(Len(s) - 1) :
              RemoveAt(s, i)[j] = IF j < i THEN s[j] ELSE s[j + 1]
<1> DEFINE a == SubSeq(s, 1, i - 1)
           b == SubSeq(s, i + 1, Len(s))
<1>1. a \in Seq(S) /\ Len(a) = i - 1 /\ \A j \in 1..(i - 1) : a[j] = s[j]
  BY SubSeqProperties
<1>2. b \in Seq(S) /\ Len(b) = Len(s) - i
      /\ \A j \in 1..(Len(s) - i) : b[j] = s[i + j]
  BY SubSeqProperties
<1>3. RemoveAt(s, i) = a \o b
  BY DEF RemoveAt
<1> HIDE DEF a, b
<1>4. a \o b \in Seq(S) /\ Len(a \o b) = Len(a) + Len(b)
  BY <1>1, <1>2, ConcatProperties
<1>5. ASSUME NEW j \in 1..(Len(s) - 1)
      PROVE  (a \o b)[j] = IF j < i THEN s[j] ELSE s[j + 1]
  <2>1. (a \o b)[j] = IF j <= Len(a) THEN a[j] ELSE b[j - Len(a)]
    BY <1>1, <1>2, ConcatProperties
  <2>2. CASE j < i
    BY <1>1, <2>1, <2>2
  <2>3. CASE ~(j < i)
    <3>1. j - Len(a) \in 1..(Len(s) - i) /\ i + (j - Len(a)) = j + 1
      BY <1>1, <2>3
    <3>2. QED
      BY <1>1, <1>2, <2>1, <2>3, <3>1
  <2>4. QED
    BY <2>2, <2>3
<1>6. QED
  BY <1>1, <1>2, <1>3, <1>4, <1>5


-----------------------------------------------------------------------------
(* The counters.  TypeOK is not inductive without CountersExact: Drop and  *)
(* idle decrement a counter that must not be 0.  CountersExact needs that  *)
(* start() and stop() launch run() only on threads that are not in it.     *)

Launch ==
    /\ ~started => \A t \in Workers : pc[t] = "off"
    /\ UseCaller /\ cpc[Caller] \in {"live", "stop"} => pc[Caller] = "off"
    /\ UseCaller => \A c \in Clients : cpc[c] # "live" => c = Caller

TypeCount == TypeOK /\ CountersExact /\ Launch

\* A thread that executes a task, or is idle, is counted.
LEMMA Counted ==
  ASSUME CountersExact, NEW t \in Threads
  PROVE  /\ Executing(t) => m_activeThreadCount > 0
         /\ pc[t] = "idle" => m_idleThreadCount > 0
         /\ m_activeThreadCount \in Nat
         /\ m_idleThreadCount \in Nat
<1> DEFINE A == {s \in Threads : Executing(s)}
           I == {s \in Threads : pc[s] = "idle"}
<1>1. IsFiniteSet(A) /\ IsFiniteSet(I)
  BY ThreadsFinite, FS_Subset
<1>2. Cardinality(A) \in Nat /\ Cardinality(I) \in Nat
  BY <1>1, FS_CardinalityType
<1>3. Executing(t) => A # {}
  OBVIOUS
<1>4. pc[t] = "idle" => I # {}
  OBVIOUS
<1>5. (Cardinality(A) = 0 => A = {}) /\ (Cardinality(I) = 0 => I = {})
  BY <1>1, FS_EmptySet
<1>6. m_activeThreadCount = Cardinality(A) /\ m_idleThreadCount = Cardinality(I)
  BY DEF CountersExact
<1> HIDE DEF A, I
<1>7. QED
  BY <1>2, <1>3, <1>4, <1>5, <1>6

\* Moving one element in or out of a finite set.
LEMMA CardMove ==
  ASSUME NEW S, IsFiniteSet(S), NEW x, NEW in \in BOOLEAN, NEW T,
         T = IF in THEN S \cup {x} ELSE S \ {x}
  PROVE  Cardinality(T) = Cardinality(S) + (IF in THEN 1 ELSE 0)
                                         - (IF x \in S THEN 1 ELSE 0)
<1>1. Cardinality(S) \in Nat
  BY FS_CardinalityType
<1>2. Cardinality(S \cup {x}) = IF x \in S THEN Cardinality(S) ELSE Cardinality(S) + 1
  BY FS_AddElement
<1>3. Cardinality(S \ {x}) = IF x \in S THEN Cardinality(S) - 1 ELSE Cardinality(S)
  BY FS_RemoveElement
<1>4. CASE in
  BY <1>1, <1>2, <1>4
<1>5. CASE ~in
  BY <1>1, <1>3, <1>5
<1>6. QED
  BY <1>4, <1>5

\* Thread t moves to q, and the counters follow it.
ActiveAt(q) == IF q \in {"got", "run", "yield", "back"} THEN 1 ELSE 0
IdleAt(q) == IF q = "idle" THEN 1 ELSE 0
Moves(t, q) ==
    /\ q \in ThreadPc
    /\ pc' = [pc EXCEPT ![t] = q]
    /\ m_activeThreadCount' = m_activeThreadCount + ActiveAt(q) - ActiveAt(pc[t])
    /\ m_idleThreadCount' = m_idleThreadCount + IdleAt(q) - IdleAt(pc[t])

\* A step of one thread that counts itself in or out keeps both counts exact.
LEMMA CountStep ==
  ASSUME TypeOK, CountersExact, NEW t \in Threads, NEW q, Moves(t, q)
  PROVE  CountersExact'
<1> DEFINE A == {s \in Threads : Executing(s)}
           I == {s \in Threads : pc[s] = "idle"}
           X == q \in {"got", "run", "yield", "back"}
           Y == q = "idle"
<1>1. IsFiniteSet(A) /\ IsFiniteSet(I)
  BY ThreadsFinite, FS_Subset
<1>2. m_activeThreadCount = Cardinality(A) /\ m_idleThreadCount = Cardinality(I)
  BY DEF CountersExact
<1>3. Cardinality(A) \in Nat /\ Cardinality(I) \in Nat
  BY <1>1, FS_CardinalityType
<1>4. A' = (IF X THEN A \cup {t} ELSE A \ {t})
  BY DEF TypeOK, Executing, Moves
<1>5. I' = (IF Y THEN I \cup {t} ELSE I \ {t})
  BY DEF TypeOK, Moves
<1>6. (IF t \in A THEN 1 ELSE 0) = ActiveAt(pc[t])
      /\ (IF t \in I THEN 1 ELSE 0) = IdleAt(pc[t])
  BY DEF Executing, ActiveAt, IdleAt
<1>7. (IF X THEN 1 ELSE 0) = ActiveAt(q) /\ (IF Y THEN 1 ELSE 0) = IdleAt(q)
      /\ X \in BOOLEAN /\ Y \in BOOLEAN
  BY DEF ActiveAt, IdleAt
<1> HIDE DEF A, I, X, Y
<1>8. Cardinality(A') = Cardinality(A) + (IF X THEN 1 ELSE 0)
                                       - (IF t \in A THEN 1 ELSE 0)
  BY <1>1, <1>4, <1>7, CardMove
<1>9. Cardinality(I') = Cardinality(I) + (IF Y THEN 1 ELSE 0)
                                       - (IF t \in I THEN 1 ELSE 0)
  BY <1>1, <1>5, <1>7, CardMove
<1>10. Cardinality(A') = m_activeThreadCount' /\ Cardinality(I') = m_idleThreadCount'
  BY <1>2, <1>6, <1>7, <1>8, <1>9 DEF Moves
<1>11. QED
  BY <1>10 DEF CountersExact, A, I

\* A step that moves no thread changes no count.
LEMMA CountStutter ==
  ASSUME CountersExact, UNCHANGED <<pc, m_activeThreadCount, m_idleThreadCount>>
  PROVE  CountersExact'
BY DEF CountersExact, Executing

\* The constructor: typed, nobody counted, nobody launched.
LEMMA InitTypeCount == Init => TypeCount
<1> SUFFICES ASSUME Init PROVE TypeCount
  OBVIOUS
<1>1. TypeOK
  BY EmptySeq DEF Init, TypeOK, ThreadPc, ClientPc, FiberState, Task
<1>2. {t \in Threads : Executing(t)} = {} /\ {t \in Threads : pc[t] = "idle"} = {}
  BY DEF Init, Executing
<1>3. CountersExact
  BY <1>2, FS_EmptySet DEF Init, CountersExact
<1>4. Launch
  BY ThreadsAssumption DEF Init, Launch, Threads
<1>5. QED
  BY <1>1, <1>3, <1>4 DEF TypeCount

\* Every action preserves the types, keeps the two counters exact, and
\* launches run() on a thread once.
LEMMA NextTypeCount == TypeCount /\ [Next]_vars => TypeCount'
<1> SUFFICES ASSUME TypeOK, CountersExact, Launch, [Next]_vars
             PROVE  TypeOK' /\ CountersExact' /\ Launch'
  BY DEF TypeCount
<1> USE ThreadsAssumption
    DEF fiberVars, threadVars, counters, clientVars, ThreadPc, ClientPc, Threads
<1>1. CASE UNCHANGED vars
  <2>1. TypeOK'
    BY <1>1 DEF TypeOK, vars
  <2>2. Launch'
    BY <1>1 DEF Launch, vars
  <2>3. QED
    BY <1>1, <2>1, <2>2, CountStutter DEF vars
<1>2. ASSUME NEW f \in Fibers, NEW p \in Pins, NEW st \in {"READY", "CB"},
             schedule(f, p, st)
      PROVE  TypeOK' /\ CountersExact' /\ Launch'
  <2>1. m_tasks' \in Seq(Task)
    BY <1>2, AppendProperties DEF TypeOK, schedule, scheduleNoLock, Task
  <2>2. TypeOK'
    BY <1>2, <2>1 DEF TypeOK, schedule, FiberState
  <2>3. Launch'
    BY <1>2 DEF Launch, schedule
  <2>4. QED
    BY <1>2, <2>2, <2>3, CountStutter DEF schedule
<1>3. ASSUME NEW f \in Fibers, NEW p \in Pins, Wake(f, p)
      PROVE  TypeOK' /\ CountersExact' /\ Launch'
  <2>1. m_tasks' \in Seq(Task)
    BY <1>3, AppendProperties DEF TypeOK, Wake, scheduleNoLock, Task
  <2>2. TypeOK'
    BY <1>3, <2>1 DEF TypeOK, Wake
  <2>3. Launch'
    BY <1>3 DEF Launch, Wake
  <2>4. QED
    BY <1>3, <2>2, <2>3, CountStutter DEF Wake
<1>4. ASSUME NEW t \in Threads, Take(t)
      PROVE  TypeOK' /\ CountersExact' /\ Launch'
  <2>1. PICK i \in 1..Len(m_tasks) :
           /\ cur' = [cur EXCEPT ![t] = m_tasks[i].fiber]
           /\ m_tasks' = RemoveAt(m_tasks, i)
    BY <1>4 DEF Take, First, Eligible
  <2>2. m_tasks' \in Seq(Task)
    BY <2>1, RemoveAtProperties DEF TypeOK
  <2>3. m_tasks[i] \in Task
    BY <2>1, ElementOfSeq DEF TypeOK
  <2>4. m_tasks[i].fiber \in Fibers
    BY <2>3 DEF Task
  <2>5. TypeOK'
    BY <1>4, <2>1, <2>2, <2>4 DEF TypeOK, Take
  <2>6. Moves(t, "got")
    BY <1>4 DEF Take, Moves, ActiveAt, IdleAt, TypeOK
  <2>7. Launch'
    BY <1>4 DEF Launch, Take, TypeOK
  <2>8. QED
    BY <2>5, <2>6, <2>7, CountStep
<1>5. ASSUME NEW t \in Threads, TakeNothing(t)
      PROVE  TypeOK' /\ CountersExact' /\ Launch'
  <2>1. TypeOK'
    BY <1>5 DEF TypeOK, TakeNothing
  <2>2. Moves(t, "exit") \/ Moves(t, "idle")
    BY <1>5 DEF TakeNothing, Moves, ActiveAt, IdleAt, TypeOK
  <2>3. Launch'
    BY <1>5 DEF Launch, TakeNothing, TypeOK
  <2>4. QED
    BY <2>1, <2>2, <2>3, CountStep
<1>6. ASSUME NEW t \in Threads, idle(t)
      PROVE  TypeOK' /\ CountersExact' /\ Launch'
  <2>1. m_idleThreadCount - 1 \in Nat
    BY <1>6, Counted DEF idle
  <2>2. Stopping \in BOOLEAN
    BY DEF Stopping, TypeOK
  <2>3. TypeOK'
    BY <1>6, <2>1, <2>2 DEF TypeOK, idle
  <2>4. Moves(t, "pick")
    BY <1>6 DEF idle, Moves, ActiveAt, IdleAt, TypeOK
  <2>5. Launch'
    BY <1>6 DEF Launch, idle, TypeOK
  <2>6. QED
    BY <2>3, <2>4, <2>5, CountStep
<1>7. ASSUME NEW t \in Threads, resume(t)
      PROVE  TypeOK' /\ CountersExact' /\ Launch'
  <2>1. TypeOK'
    <3>1. CASE UNCHANGED <<pc, m_state, saved>> /\ fault' \in {"assert", "unsaved"}
      BY <1>7, <3>1 DEF TypeOK, resume
    <3>2. CASE /\ m_state' = [m_state EXCEPT ![cur[t]] = "RUNNING"]
               /\ saved' = [saved EXCEPT ![cur[t]] = FALSE]
               /\ pc' = [pc EXCEPT ![t] = "run"]
               /\ UNCHANGED fault
      <4>1. /\ m_state' \in [Fibers -> FiberState]
            /\ saved' \in [Fibers -> BOOLEAN]
            /\ pc' \in [Threads -> ThreadPc]
        BY <3>2 DEF TypeOK, FiberState
      <4>2. QED
        BY <1>7, <3>2, <4>1 DEF TypeOK, resume
    <3>3. QED
      BY <1>7, <3>1, <3>2 DEF resume
  <2>2. Moves(t, "run") \/ UNCHANGED pc
    BY <1>7 DEF resume, Moves, ActiveAt, IdleAt, TypeOK
  <2>3. Launch'
    BY <1>7 DEF Launch, resume, TypeOK
  <2>4. UNCHANGED <<m_activeThreadCount, m_idleThreadCount>>
    BY <1>7 DEF resume
  <2>5. QED
    BY <2>1, <2>2, <2>3, <2>4, CountStep, CountStutter
<1>8. ASSUME NEW t \in Threads, HandOver(t)
      PROVE  TypeOK' /\ CountersExact' /\ Launch'
  <2>1. PICK p \in Pins : wake' = [wake EXCEPT ![cur[t]] = {p}]
    BY <1>8 DEF HandOver, Pins
  <2>2. wake' \in [Fibers -> SUBSET Pins]
    BY <2>1 DEF TypeOK
  <2>3. TypeOK'
    BY <1>8, <2>2 DEF TypeOK, HandOver
  <2>4. Launch'
    BY <1>8 DEF Launch, HandOver
  <2>5. QED
    BY <1>8, <2>3, <2>4, CountStutter DEF HandOver
<1>9. ASSUME NEW t \in Threads, yield(t)
      PROVE  TypeOK' /\ CountersExact' /\ Launch'
  <2>1. TypeOK'
    BY <1>9 DEF TypeOK, yield, FiberState
  <2>2. Moves(t, "yield")
    BY <1>9 DEF yield, Moves, ActiveAt, IdleAt, TypeOK
  <2>3. Launch'
    BY <1>9 DEF Launch, yield, TypeOK
  <2>4. QED
    BY <2>1, <2>2, <2>3, CountStep
<1>10. ASSUME NEW t \in Threads, Return(t)
       PROVE  TypeOK' /\ CountersExact' /\ Launch'
  <2>1. TypeOK'
    BY <1>10 DEF TypeOK, Return, FiberState
  <2>2. Moves(t, "yield")
    BY <1>10 DEF Return, Moves, ActiveAt, IdleAt, TypeOK
  <2>3. Launch'
    BY <1>10 DEF Launch, Return, TypeOK
  <2>4. QED
    BY <2>1, <2>2, <2>3, CountStep
<1>11. ASSUME NEW t \in Threads, swapcontext(t)
       PROVE  TypeOK' /\ CountersExact' /\ Launch'
  <2>1. TypeOK'
    BY <1>11 DEF TypeOK, swapcontext
  <2>2. Moves(t, "back")
    BY <1>11 DEF swapcontext, Moves, ActiveAt, IdleAt, TypeOK
  <2>3. Launch'
    BY <1>11 DEF Launch, swapcontext, TypeOK
  <2>4. QED
    BY <2>1, <2>2, <2>3, CountStep
<1>12. ASSUME NEW t \in Threads, Drop(t)
       PROVE  TypeOK' /\ CountersExact' /\ Launch'
  <2>1. m_activeThreadCount - 1 \in Nat
    BY <1>12, Counted DEF Drop, Executing
  <2>2. TypeOK'
    BY <1>12, <2>1 DEF TypeOK, Drop
  <2>3. Moves(t, "pick")
    BY <1>12 DEF Drop, Moves, ActiveAt, IdleAt, TypeOK
  <2>4. Launch'
    BY <1>12 DEF Launch, Drop, TypeOK
  <2>5. QED
    BY <2>2, <2>3, <2>4, CountStep
<1>13. ASSUME NEW c \in Clients, start(c)
       PROVE  TypeOK' /\ CountersExact' /\ Launch'
  <2>1. TypeOK'
    BY <1>13 DEF TypeOK, start
  <2>2. \A t \in Threads : (Executing(t)' <=> Executing(t))
                           /\ (pc'[t] = "idle" <=> pc[t] = "idle")
    BY <1>13 DEF start, Launch, Executing
  <2>3. CountersExact'
    BY <1>13, <2>2 DEF start, CountersExact
  <2>4. Launch'
    BY <1>13 DEF Launch, start
  <2>5. QED
    BY <2>1, <2>3, <2>4
<1>14. ASSUME NEW c \in Clients, StopCheck(c)
       PROVE  TypeOK' /\ CountersExact' /\ Launch'
  <2>1. TypeOK'
    BY <1>14 DEF TypeOK, StopCheck
  <2>2. Launch'
    BY <1>14 DEF Launch, StopCheck, TypeOK
  <2>3. QED
    BY <1>14, <2>1, <2>2, CountStutter DEF StopCheck
<1>15. ASSUME NEW c \in Clients, StopSet(c)
       PROVE  TypeOK' /\ CountersExact' /\ Launch'
  <2>1. TypeOK'
    BY <1>15 DEF TypeOK, StopSet
  <2>2. Launch'
    BY <1>15 DEF Launch, StopSet, TypeOK
  <2>3. CASE ~UseCaller
    BY <1>15, <2>1, <2>2, <2>3, CountStutter DEF StopSet
  <2>4. CASE UseCaller
    <3>1. c = Caller /\ c \in Threads /\ pc[c] = "off"
      BY <1>15, <2>4 DEF StopSet, Launch
    <3>2. Moves(c, "pick")
      BY <1>15, <2>4, <3>1 DEF StopSet, Moves, ActiveAt, IdleAt, TypeOK
    <3>3. QED
      BY <2>1, <2>2, <3>1, <3>2, CountStep
  <2>5. QED
    BY <2>3, <2>4
<1>16. ASSUME NEW c \in Clients, StopRoot(c)
       PROVE  TypeOK' /\ CountersExact' /\ Launch'
  <2>1. TypeOK'
    BY <1>16 DEF TypeOK, StopRoot
  <2>2. Launch'
    BY <1>16 DEF Launch, StopRoot, TypeOK
  <2>3. QED
    BY <1>16, <2>1, <2>2, CountStutter DEF StopRoot
<1>17. ASSUME NEW c \in Clients, StopSwap(c)
       PROVE  TypeOK' /\ CountersExact' /\ Launch'
  <2>1. TypeOK'
    BY <1>17 DEF TypeOK, StopSwap
  <2>2. Launch'
    BY <1>17 DEF Launch, StopSwap, TypeOK
  <2>3. QED
    BY <1>17, <2>1, <2>2, CountStutter DEF StopSwap
<1>18. ASSUME NEW c \in Clients, StopJoin(c)
       PROVE  TypeOK' /\ CountersExact' /\ Launch'
  <2>1. TypeOK'
    BY <1>18 DEF TypeOK, StopJoin
  <2>2. Launch'
    BY <1>18 DEF Launch, StopJoin, TypeOK
  <2>3. QED
    BY <1>18, <2>1, <2>2, CountStutter DEF StopJoin
<1>19. QED
  BY <1>1, <1>2, <1>3, <1>4, <1>5, <1>6, <1>7, <1>8, <1>9, <1>10, <1>11, <1>12,
     <1>13, <1>14, <1>15, <1>16, <1>17, <1>18
     DEF Next, Submit, Terminated, ThreadStep, ClientStep, StopStep

(* The types of all fields of Scheduler and Fiber, for any number of       *)
(* threads, clients and fibers, pinned or not, with or without use_caller. *)
THEOREM TypeCorrect == Spec => []TypeOK
<1>1. Spec => []TypeCount
  BY InitTypeCount, NextTypeCount, PTL DEF Spec
<1>2. TypeCount => TypeOK
  BY DEF TypeCount
<1>3. QED
  BY <1>1, <1>2, PTL

(* m_activeThreadCount and m_idleThreadCount are exact at every step.      *)
THEOREM CountersCorrect == Spec => []CountersExact
<1>1. Spec => []TypeCount
  BY InitTypeCount, NextTypeCount, PTL DEF Spec
<1>2. TypeCount => CountersExact
  BY DEF TypeCount
<1>3. QED
  BY <1>1, <1>2, PTL

-----------------------------------------------------------------------------
(* Stopping.  One client calls stop(), and it is the one that schedules    *)
(* from outside; StopInv is inductive under that hypothesis.  What stop()  *)
(* leaves behind needs a thread that has run run(): the caller itself, or  *)
(* the workers, which start() creates.                                     *)

OneClient == \A c, d \in Clients : c = d

SomebodyRuns == UseCaller \/ StartFirst

StopInv ==
    /\ m_stopping => \A c \in Clients : cpc[c] # "live"
    /\ \A c \in Clients :
        /\ cpc[c] \in {"root", "swap", "join", "stopped"} => m_stopping
        /\ cpc[c] # "live" /\ StartFirst => started
        /\ cpc[c] \in {"live", "stop", "root", "swap"} /\ started => m_threads = Workers
        /\ cpc[c] \in {"swap", "join", "stopped"} /\ UseCaller => pc[Caller] = "exit"
        /\ cpc[c] = "join" /\ started => thrs[c] = Workers
        /\ cpc[c] = "stopped" /\ started => \A t \in Workers : pc[t] = "exit"
    /\ \A t \in Threads : pc[t] = "exit" => idleTerm[t]
    /\ ExitMeansStopped

\* When stop() has returned, a thread has left run(), and none is in it.
LEMMA AllGone ==
  ASSUME SomebodyRuns, TypeOK, Launch, StopInv, NEW c \in Clients, cpc[c] = "stopped"
  PROVE  /\ \E t \in Threads : pc[t] = "exit"
         /\ \A t \in Threads : pc[t] \in {"off", "exit"}
<1>1. \A t \in Threads : pc[t] \in {"off", "exit"}
  BY DEF StopInv, Launch, Threads
<1>2. CASE UseCaller
  BY <1>1, <1>2 DEF StopInv, Threads
<1>3. CASE ~UseCaller
  BY <1>1, <1>3, ThreadsAssumption DEF StopInv, Threads, SomebodyRuns
<1>4. QED
  BY <1>1, <1>2, <1>3

\* A RUNNING fiber is the one some thread runs.
RunningOnThread ==
    \A f \in Fibers : m_state[f] = "RUNNING" =>
        \E t \in Threads : cur[t] = f /\ pc[t] = "run"

\* While stopping() holds, no step makes it false: nobody is left to call
\* schedule(), because an executing thread would be counted active.
LEMMA StableStep ==
  ASSUME TypeCount, m_stopping => \A c \in Clients : cpc[c] # "live",
         Stopping, [Next]_vars
  PROVE  Stopping'
<1> USE DEF TypeCount, Stopping, fiberVars, threadVars, counters, clientVars
<1>1. \A t \in Threads : ~Executing(t)
  BY Counted
<1>2. ~CanSchedule
  BY <1>1 DEF CanSchedule, Executing
<1>3. ~Submit
  BY <1>2 DEF Submit, schedule, Wake
<1>4. ASSUME NEW t \in Threads, ThreadStep(t)
      PROVE  Stopping'
  <2>1. Eligible(t) = {}
    BY DEF Eligible
  <2>2. ~Take(t)
    BY <2>1 DEF Take, First
  <2>3. TakeNothing(t) \/ idle(t)
    BY <1>1, <1>4, <2>2 DEF ThreadStep, Executing, resume, HandOver, yield,
       Return, swapcontext, Drop
  <2>4. QED
    BY <2>3 DEF TakeNothing, idle
<1>5. ASSUME NEW c \in Clients, ClientStep(c)
      PROVE  Stopping'
  BY <1>5 DEF ClientStep, StopStep, start, StopCheck, StopSet, StopRoot,
     StopSwap, StopJoin
<1>6. CASE UNCHANGED vars
  BY <1>6 DEF vars
<1>7. QED
  BY <1>3, <1>4, <1>5, <1>6 DEF Next, Terminated

\* The constructor: nobody has called stop().
LEMMA InitStopInv == Init => StopInv /\ RunningOnThread
BY DEF Init, StopInv, RunningOnThread, ExitMeansStopped

\* Only resume makes a fiber RUNNING, on the thread that then runs it.
LEMMA NextRunningOnThread ==
  ASSUME TypeOK, Launch, RunningOnThread, [Next]_vars
  PROVE  RunningOnThread'
<1> USE DEF RunningOnThread, TypeOK, fiberVars, threadVars, counters, clientVars
<1>1. CASE UNCHANGED <<m_state, pc, cur>>
  BY <1>1
<1>2. CASE Submit
  BY <1>2 DEF Submit, schedule, Wake
<1>3. ASSUME NEW t \in Threads, ThreadStep(t)
      PROVE  RunningOnThread'
  <2>1. CASE Take(t)
    BY <2>1 DEF Take
  <2>2. CASE TakeNothing(t)
    BY <2>2 DEF TakeNothing
  <2>3. CASE idle(t)
    BY <2>3 DEF idle
  <2>4. CASE resume(t)
    BY <2>4 DEF resume
  <2>5. CASE HandOver(t)
    BY <2>5 DEF HandOver
  <2>6. CASE yield(t)
    BY <2>6 DEF yield
  <2>7. CASE Return(t)
    BY <2>7 DEF Return
  <2>8. CASE swapcontext(t)
    BY <2>8 DEF swapcontext
  <2>9. CASE Drop(t)
    BY <2>9 DEF Drop
  <2>10. QED
    BY <1>3, <2>1, <2>2, <2>3, <2>4, <2>5, <2>6, <2>7, <2>8, <2>9 DEF ThreadStep
<1>4. ASSUME NEW c \in Clients, start(c)
      PROVE  RunningOnThread'
  BY <1>4 DEF start, Launch
<1>5. ASSUME NEW c \in Clients, StopSet(c)
      PROVE  RunningOnThread'
  <2>1. UNCHANGED <<m_state, cur>> /\ (UseCaller => pc[c] = "off")
    BY <1>5 DEF StopSet, Launch
  <2>2. \A t \in Threads : pc[t] = "run" => pc'[t] = "run"
    BY <1>5, <2>1 DEF StopSet
  <2>3. QED
    BY <2>1, <2>2
<1>6. ASSUME NEW c \in Clients, StopCheck(c) \/ StopRoot(c) \/ StopSwap(c) \/ StopJoin(c)
      PROVE  UNCHANGED <<m_state, pc, cur>>
  BY <1>6 DEF StopCheck, StopRoot, StopSwap, StopJoin
<1>7. QED
  BY <1>1, <1>2, <1>3, <1>4, <1>5, <1>6
     DEF Next, Terminated, ClientStep, StopStep, vars

\* Every action keeps the stages of stop() and the exits of run() in step.
LEMMA NextStopInv ==
  ASSUME OneClient, TypeCount, StopInv, [Next]_vars
  PROVE  StopInv'
<1> USE DEF fiberVars, threadVars, counters, clientVars
<1>1. Stopping => Stopping'
  BY StableStep DEF StopInv
<1>2. TypeOK /\ TypeOK' /\ Launch
  BY NextTypeCount DEF TypeCount
<1> USE DEF StopInv, ExitMeansStopped
<1>3. CASE UNCHANGED <<clientVars, pc, idleTerm>>
  BY <1>1, <1>3
<1>4. CASE Submit
  BY <1>1, <1>3, <1>4 DEF Submit, schedule, Wake
<1>5. ASSUME NEW t \in Threads, ThreadStep(t)
      PROVE  StopInv'
  <2>1. UNCHANGED clientVars
    BY <1>5 DEF ThreadStep, Take, TakeNothing, idle, resume, HandOver, yield,
       Return, swapcontext, Drop
  <2>2. pc[t] # "exit" /\ \A s \in Threads : s # t => pc'[s] = pc[s]
    BY <1>2, <1>5 DEF TypeOK, ThreadStep, Take, TakeNothing, idle, resume,
       HandOver, yield, Return, swapcontext, Drop
  <2>3. \A s \in Threads : idleTerm'[s] => idleTerm[s] \/ Stopping
    BY <1>2, <1>5 DEF TypeOK, ThreadStep, Take, TakeNothing, idle, resume,
       HandOver, yield, Return, swapcontext, Drop
  <2>4. pc'[t] = "exit" => idleTerm'[t]
    BY <1>2, <1>5 DEF TypeOK, ThreadStep, Take, TakeNothing, idle, resume,
       HandOver, yield, Return, swapcontext, Drop
  <2>5. \A s \in Threads : s # t => idleTerm'[s] = idleTerm[s]
    BY <1>2, <1>5 DEF TypeOK, ThreadStep, Take, TakeNothing, idle, resume,
       HandOver, yield, Return, swapcontext, Drop
  <2>6. (UseCaller => Caller \in Threads) /\ Workers \subseteq Threads
    BY DEF Threads
  <2>7. QED
    BY <1>1, <2>1, <2>2, <2>3, <2>4, <2>5, <2>6
<1>6. ASSUME NEW c \in Clients, start(c)
      PROVE  StopInv'
  BY <1>1, <1>2, <1>6, ThreadsAssumption DEF start, Launch, OneClient, TypeOK
<1>7. ASSUME NEW c \in Clients, StopCheck(c)
      PROVE  StopInv'
  BY <1>1, <1>2, <1>7 DEF StopCheck, OneClient, TypeOK, Stopping
<1>8. ASSUME NEW c \in Clients, StopSet(c)
      PROVE  StopInv'
  BY <1>1, <1>2, <1>8, ThreadsAssumption DEF StopSet, OneClient, TypeOK, Launch
<1>9. ASSUME NEW c \in Clients, StopRoot(c)
      PROVE  StopInv'
  BY <1>1, <1>2, <1>9 DEF StopRoot, OneClient, TypeOK, Launch
<1>10. ASSUME NEW c \in Clients, StopSwap(c)
       PROVE  StopInv'
  BY <1>1, <1>2, <1>10 DEF StopSwap, OneClient, TypeOK
<1>11. ASSUME NEW c \in Clients, StopJoin(c)
       PROVE  StopInv'
  BY <1>1, <1>2, <1>11 DEF StopJoin, OneClient, TypeOK
<1>12. QED
  BY <1>3, <1>4, <1>5, <1>6, <1>7, <1>8, <1>9, <1>10, <1>11
     DEF Next, Terminated, ClientStep, StopStep, vars

\* All the invariants above hold together when one client uses the scheduler.
LEMMA StopInvariant ==
  ASSUME OneClient
  PROVE  Spec => [](TypeCount /\ StopInv /\ RunningOnThread)
<1> DEFINE I == TypeCount /\ StopInv /\ RunningOnThread
<1>1. Init => I
  BY InitTypeCount, InitStopInv
<1>2. I /\ [Next]_vars => I'
  BY NextTypeCount, NextStopInv, NextRunningOnThread DEF TypeCount
<1> HIDE DEF I
<1>3. Spec => []I
  BY <1>1, <1>2, PTL DEF Spec
<1>4. QED
  BY <1>3 DEF I

(* Once stopping() is TRUE it stays TRUE: no task is scheduled after the   *)
(* first idle fiber has let its thread go.                                 *)
THEOREM StoppingIsStable ==
  ASSUME OneClient
  PROVE  Spec => StoppingStable
<1>1. TypeCount /\ StopInv /\ RunningOnThread /\ [Next]_vars
        => [Stopping => Stopping']_vars
  BY StableStep DEF StopInv
<1>2. QED
  BY <1>1, StopInvariant, PTL DEF StoppingStable, Spec

(* A thread leaves run() only in a scheduler that has stopped.             *)
THEOREM ExitIsSafe ==
  ASSUME OneClient
  PROVE  Spec => []ExitMeansStopped
<1>1. StopInv => ExitMeansStopped
  BY DEF StopInv
<1>2. QED
  BY <1>1, StopInvariant, PTL

(* stop() returns only when the queue is empty, no fiber executes, and no  *)
(* thread is in run(), for every number of workers and fibers, if the      *)
(* caller or a worker has been there.                                      *)
THEOREM StopIsComplete ==
  ASSUME OneClient, SomebodyRuns
  PROVE  Spec => []StopDrains
<1>1. ASSUME TypeCount, StopInv, RunningOnThread
      PROVE  StopDrains
  <2>1. SUFFICES ASSUME NEW c \in Clients, cpc[c] = "stopped"
                 PROVE  /\ m_tasks = <<>>
                        /\ \A f \in Fibers : m_state[f] # "RUNNING"
                        /\ \A t \in Threads : pc[t] \in {"off", "exit"}
    BY DEF StopDrains
  <2>2. /\ \E t \in Threads : pc[t] = "exit"
        /\ \A t \in Threads : pc[t] \in {"off", "exit"}
    BY <1>1, <2>1, AllGone DEF TypeCount
  <2>4. Stopping
    BY <1>1, <2>2 DEF StopInv, ExitMeansStopped
  <2>5. \A f \in Fibers : m_state[f] # "RUNNING"
    BY <1>1, <2>2 DEF RunningOnThread
  <2>6. QED
    BY <2>2, <2>4, <2>5 DEF Stopping
<1>2. QED
  BY <1>1, StopInvariant, PTL

-----------------------------------------------------------------------------
(* Fibers.  When a fiber is rescheduled only on the thread it ran on       *)
(* (Pinned), no thread can take it before that thread has saved its        *)
(* context: the thread is still executing it, and everybody else skips it. *)

QueuedOn(f, p) ==
    \E i \in 1..Len(m_tasks) : m_tasks[i].fiber = f /\ m_tasks[i].thread = p

\* What a thread holds, by its place in run().
ThreadHolds(t) ==
    /\ cur[t] # NoFiber <=> Executing(t)
    /\ pc[t] = "got" => \/ m_state[cur[t]] = "CB"
                        \/ m_state[cur[t]] = "READY" /\ saved[cur[t]]
    /\ pc[t] = "run" => m_state[cur[t]] = "RUNNING"
    /\ pc[t] \in {"yield", "back"} => m_state[cur[t]] \in {"READY", "TERM"}

\* A fiber that a thread still holds comes back to that thread.
ComesBack(t) ==
    \A p \in Pins :
        cur[t] # NoFiber /\ (QueuedOn(cur[t], p) \/ p \in wake[cur[t]]) => p = t

\* The context of a READY fiber is missing only inside swapcontext.
Unsaved(f) ==
    m_state[f] = "READY" /\ ~saved[f] =>
        \E t \in Threads : cur[t] = f /\ pc[t] = "yield"

PlaceInv ==
    /\ OnePlace
    /\ \A t \in Threads : ThreadHolds(t) /\ ComesBack(t)
    /\ \A f \in Fibers : Unsaved(f)
    /\ fault = "none"

\* Pushing a fiber that is not in the queue.
LEMMA PushQueue ==
  ASSUME TypeOK, QueuedOnce, NEW f \in Fibers, NEW p \in Pins, ~Queued(f),
         scheduleNoLock(f, p)
  PROVE  /\ QueuedOnce'
         /\ \A g \in Fibers : Queued(g)' <=> Queued(g) \/ g = f
         /\ \A g \in Fibers, q \in Pins :
              QueuedOn(g, q)' => QueuedOn(g, q) \/ (g = f /\ q = p)
<1> DEFINE new == [fiber |-> f, thread |-> p]
<1>1. /\ Len(m_tasks') = Len(m_tasks) + 1
      /\ \A i \in 1..Len(m_tasks) : m_tasks'[i] = m_tasks[i]
      /\ m_tasks'[Len(m_tasks) + 1] = new
      /\ Len(m_tasks) \in Nat
  BY AppendProperties, LenProperties DEF TypeOK, Task, scheduleNoLock
<1>2. new.fiber = f /\ new.thread = p
  OBVIOUS
<1> HIDE DEF new
<1>3. \A i \in 1..Len(m_tasks') : i \in 1..Len(m_tasks) \/ i = Len(m_tasks) + 1
  BY <1>1
<1>4. 1..Len(m_tasks) \subseteq 1..Len(m_tasks') /\ Len(m_tasks) + 1 \in 1..Len(m_tasks')
  BY <1>1
<1>5. QueuedOnce'
  BY <1>1, <1>2, <1>3 DEF QueuedOnce, Queued
<1>6. \A g \in Fibers : Queued(g)' <=> Queued(g) \/ g = f
  BY <1>1, <1>2, <1>3, <1>4 DEF Queued
<1>7. QED
  BY <1>1, <1>2, <1>3, <1>5, <1>6 DEF QueuedOn

\* Erasing the task of a fiber that is queued once.
LEMMA EraseQueue ==
  ASSUME TypeOK, QueuedOnce, NEW i \in 1..Len(m_tasks),
         m_tasks' = RemoveAt(m_tasks, i)
  PROVE  /\ QueuedOnce'
         /\ \A g \in Fibers : Queued(g)' <=> Queued(g) /\ g # m_tasks[i].fiber
         /\ \A g \in Fibers, q \in Pins : QueuedOn(g, q)' => QueuedOn(g, q)
<1> DEFINE n == Len(m_tasks)
           at(j) == IF j < i THEN j ELSE j + 1
<1>1. n \in Nat /\ i \in 1..n
  BY LenProperties DEF TypeOK
<1>2. Len(m_tasks') = n - 1 /\ \A j \in 1..(n - 1) : m_tasks'[j] = m_tasks[at(j)]
  BY RemoveAtProperties DEF TypeOK
<1>3. \A j \in 1..(n - 1) : at(j) \in 1..n /\ at(j) # i
  BY <1>1
<1>4. \A j, k \in 1..(n - 1) : at(j) = at(k) => j = k
  BY <1>1
<1>5. \A k \in 1..n : k # i => \E j \in 1..(n - 1) : at(j) = k
  <2>1. SUFFICES ASSUME NEW k \in 1..n, k # i
                 PROVE  \E j \in 1..(n - 1) : at(j) = k
    OBVIOUS
  <2>2. CASE k < i
    BY <1>1, <2>1, <2>2
  <2>3. CASE k > i
    <3>1. k - 1 \in 1..(n - 1) /\ at(k - 1) = k
      BY <1>1, <2>1, <2>3
    <3>2. QED
      BY <3>1
  <2>4. QED
    BY <1>1, <2>1, <2>2, <2>3
<1> HIDE DEF at
<1>6. QueuedOnce'
  BY SMTT(40), <1>2, <1>3, <1>4 DEF QueuedOnce
<1>7. ASSUME NEW g \in Fibers
      PROVE  Queued(g)' <=> Queued(g) /\ g # m_tasks[i].fiber
  <2>1. ASSUME Queued(g)' PROVE Queued(g) /\ g # m_tasks[i].fiber
    BY <1>1, <1>2, <1>3, <2>1 DEF Queued, QueuedOnce
  <2>2. ASSUME Queued(g), g # m_tasks[i].fiber PROVE Queued(g)'
    BY ZenonT(40), <1>2, <1>5, <2>2 DEF Queued
  <2>3. QED
    BY <2>1, <2>2
<1>8. \A g \in Fibers, q \in Pins : QueuedOn(g, q)' => QueuedOn(g, q)
  BY <1>2, <1>3 DEF QueuedOn
<1>9. QED
  BY <1>6, <1>7, <1>8

\* A step that leaves the queue alone.
LEMMA SameQueue ==
  ASSUME m_tasks' = m_tasks
  PROVE  /\ QueuedOnce' <=> QueuedOnce
         /\ \A g \in Fibers : Queued(g)' <=> Queued(g)
         /\ \A g \in Fibers, q \in Pins : QueuedOn(g, q)' <=> QueuedOn(g, q)
BY DEF QueuedOnce, Queued, QueuedOn

\* The constructor: no fiber exists.
LEMMA InitPlaceInv == Init => PlaceInv
<1> SUFFICES ASSUME Init PROVE PlaceInv
  OBVIOUS
<1>1. Len(m_tasks) = 0
  BY EmptySeq DEF Init
<1>2. QueuedOnce /\ \A f \in Fibers : ~Queued(f)
  BY <1>1 DEF QueuedOnce, Queued
<1>3. QED
  BY <1>2 DEF Init, PlaceInv, OnePlace, Held, ThreadHolds, ComesBack, Unsaved,
     Executing

\* Every action moves a fiber from the one place that holds it to another.
LEMMA NextPlaceInv ==
  ASSUME Pinned, TypeCount, PlaceInv, [Next]_vars
  PROVE  PlaceInv'
<1>1. TypeOK /\ Launch
  BY DEF TypeCount
<1> USE FibersAssumption
    DEF fiberVars, threadVars, counters, clientVars, PlaceInv, OnePlace, Held,
        ThreadHolds, ComesBack, Unsaved, Executing
<1>2. CASE UNCHANGED <<m_tasks, threadVars, fiberVars, fault>>
  <2>1. OnePlace'
    BY <1>2, SameQueue
  <2>2. \A s \in Threads : ThreadHolds(s)'
    BY <1>2
  <2>3. \A s \in Threads : ComesBack(s)'
    BY <1>1, <1>2, SameQueue DEF TypeOK
  <2>4. \A f \in Fibers : Unsaved(f)'
    BY <1>2
  <2>5. QED
    BY <1>2, <2>1, <2>2, <2>3, <2>4
<1>3. ASSUME NEW f \in Fibers, NEW p \in Pins, NEW st \in {"READY", "CB"},
             schedule(f, p, st)
      PROVE  PlaceInv'
  <2>1. ~Queued(f) /\ wake[f] = {} /\ \A t \in Threads : cur[t] # f
    BY <1>1, <1>3 DEF schedule, TypeOK
  <2>2. /\ QueuedOnce'
        /\ \A g \in Fibers : Queued(g)' <=> Queued(g) \/ g = f
        /\ \A g \in Fibers, q \in Pins :
             QueuedOn(g, q)' => QueuedOn(g, q) \/ (g = f /\ q = p)
    BY <1>1, <1>3, <2>1, PushQueue DEF schedule
  <2>3. OnePlace'
    BY <1>1, <1>3, <2>1, <2>2 DEF schedule, TypeOK
  <2>4. \A s \in Threads : ThreadHolds(s)'
    BY <1>1, <1>3, <2>1 DEF schedule, TypeOK
  <2>5. \A s \in Threads : ComesBack(s)'
    BY <1>1, <1>3, <2>1, <2>2 DEF schedule, TypeOK
  <2>6. \A g \in Fibers : Unsaved(g)'
    <3>1. CASE st = "READY"
      <4>1. saved' = [saved EXCEPT ![f] = TRUE]
        BY <1>3, <3>1 DEF schedule
      <4>2. QED
        BY <1>1, <1>3, <4>1 DEF schedule, TypeOK
    <3>2. CASE st = "CB"
      BY <1>1, <1>3, <3>2 DEF schedule, TypeOK
    <3>3. QED
      BY <3>1, <3>2
  <2>7. QED
    BY <1>3, <2>3, <2>4, <2>5, <2>6 DEF schedule
<1>4. ASSUME NEW f \in Fibers, NEW p \in Pins, Wake(f, p)
      PROVE  PlaceInv'
  <2>1. ~Queued(f) /\ p \in wake[f]
    BY <1>4 DEF Wake
  <2>2. /\ QueuedOnce'
        /\ \A g \in Fibers : Queued(g)' <=> Queued(g) \/ g = f
        /\ \A g \in Fibers, q \in Pins :
             QueuedOn(g, q)' => QueuedOn(g, q) \/ (g = f /\ q = p)
    BY <1>1, <1>4, <2>1, PushQueue DEF Wake
  <2>3. OnePlace'
    BY <1>1, <1>4, <2>1, <2>2 DEF Wake, TypeOK
  <2>4. \A s \in Threads : ThreadHolds(s)'
    BY <1>1, <1>4, <2>1 DEF Wake, TypeOK
  <2>5. \A s \in Threads : ComesBack(s)'
    BY <1>1, <1>4, <2>1, <2>2 DEF Wake, TypeOK
  <2>6. \A g \in Fibers : Unsaved(g)'
    BY <1>1, <1>4 DEF Wake, TypeOK
  <2>7. QED
    BY <1>4, <2>3, <2>4, <2>5, <2>6 DEF Wake
<1>5. ASSUME NEW t \in Threads, Take(t)
      PROVE  PlaceInv'
  <2>1. PICK i \in 1..Len(m_tasks) :
           /\ m_tasks[i].thread \in {t, AnyThread}
           /\ m_state[m_tasks[i].fiber] # "RUNNING"
           /\ cur' = [cur EXCEPT ![t] = m_tasks[i].fiber]
           /\ m_tasks' = RemoveAt(m_tasks, i)
    BY <1>5 DEF Take, First, Eligible
  <2>2. PICK f \in Fibers : f = m_tasks[i].fiber /\ m_tasks[i].thread \in Pins
    <3>1. m_tasks[i] \in Task
      BY <1>1, <2>1, ElementOfSeq DEF TypeOK
    <3>2. QED
      BY <3>1 DEF Task
  <2>3. Queued(f) /\ QueuedOn(f, m_tasks[i].thread)
    BY <2>1, <2>2 DEF Queued, QueuedOn
  <2>4. /\ QueuedOnce'
        /\ \A g \in Fibers : Queued(g)' <=> Queued(g) /\ g # f
        /\ \A g \in Fibers, q \in Pins : QueuedOn(g, q)' => QueuedOn(g, q)
    BY <1>1, <2>1, <2>2, EraseQueue
  <2>5. pc[t] = "pick" /\ pc' = [pc EXCEPT ![t] = "got"]
        /\ UNCHANGED <<fiberVars, fault>>
    BY <1>5 DEF Take
  <2>6. \A s \in Threads : cur[s] # f
    BY <2>1, <2>2, <2>3, <2>5, ThreadsAssumption DEF Threads
  <2>7. m_state[f] = "CB" \/ (m_state[f] = "READY" /\ saved[f])
    BY <1>1, <2>1, <2>2, <2>3, <2>6 DEF TypeOK, FiberState
  <2>8. cur' = [cur EXCEPT ![t] = f]
    BY <2>1, <2>2
  <2>9. \A q \in Pins : ~QueuedOn(f, q)'
    <3>1. ~Queued(f)'
      BY <2>2, <2>4
    <3>2. QED
      BY <3>1 DEF Queued, QueuedOn
  <2>10. wake[f] = {}
    BY <2>2, <2>3
  <2>11. OnePlace'
    BY <1>1, <2>2, <2>3, <2>4, <2>5, <2>6, <2>7, <2>8, <2>10 DEF TypeOK
  <2>12. \A s \in Threads : ThreadHolds(s)'
    BY <1>1, <2>2, <2>5, <2>6, <2>7, <2>8 DEF TypeOK
  <2>13. \A s \in Threads : ComesBack(s)'
    <3>1. ComesBack(t)'
      <4>1. cur'[t] = f /\ wake' = wake
        BY <1>1, <2>5, <2>8 DEF TypeOK
      <4>2. QED
        BY <2>9, <2>10, <4>1 DEF QueuedOn
    <3>2. ASSUME NEW s \in Threads, s # t PROVE ComesBack(s)'
      <4>1. cur'[s] = cur[s] /\ cur[s] \in Fibers \cup {NoFiber} /\ wake' = wake
        BY <1>1, <2>5, <2>8, <3>2 DEF TypeOK
      <4>2. \A q \in Pins : cur[s] # NoFiber /\ QueuedOn(cur[s], q)' => QueuedOn(cur[s], q)
        BY <2>4, <4>1 DEF QueuedOn
      <4>3. QED
        BY <4>1, <4>2
    <3>3. QED
      BY <3>1, <3>2
  <2>14. \A g \in Fibers : Unsaved(g)'
    BY <1>1, <2>2, <2>5, <2>6, <2>8 DEF TypeOK
  <2>15. QED
    BY <2>5, <2>11, <2>12, <2>13, <2>14
<1>6. ASSUME NEW t \in Threads, TakeNothing(t)
      PROVE  PlaceInv'
  BY <1>1, <1>6, SameQueue DEF TakeNothing, TypeOK
<1>7. ASSUME NEW t \in Threads, idle(t)
      PROVE  PlaceInv'
  BY <1>1, <1>7, SameQueue DEF idle, TypeOK
<1>8. ASSUME NEW t \in Threads, resume(t)
      PROVE  PlaceInv'
  <2>1. OnePlace'
    BY <1>1, <1>8, SameQueue DEF resume, TypeOK
  <2>2. \A s \in Threads : ThreadHolds(s)'
    BY <1>1, <1>8 DEF resume, TypeOK
  <2>3. \A s \in Threads : ComesBack(s)'
    BY <1>1, <1>8, SameQueue DEF resume, TypeOK
  <2>4. \A f \in Fibers : Unsaved(f)'
    BY <1>1, <1>8 DEF resume, TypeOK
  <2>5. QED
    BY <1>8, <2>1, <2>2, <2>3, <2>4 DEF resume
<1>9. ASSUME NEW t \in Threads, yield(t)
      PROVE  PlaceInv'
  <2>1. OnePlace'
    BY <1>1, <1>9, SameQueue DEF yield, TypeOK
  <2>2. \A s \in Threads : ThreadHolds(s)'
    BY <1>1, <1>9 DEF yield, TypeOK
  <2>3. \A s \in Threads : ComesBack(s)'
    BY <1>1, <1>9, SameQueue DEF yield, TypeOK
  <2>4. \A f \in Fibers : Unsaved(f)'
    BY <1>1, <1>9 DEF yield, TypeOK
  <2>5. QED
    BY <1>9, <2>1, <2>2, <2>3, <2>4 DEF yield
<1>10. ASSUME NEW t \in Threads, Return(t)
      PROVE  PlaceInv'
  <2>1. OnePlace'
    BY <1>1, <1>10, SameQueue DEF Return, TypeOK
  <2>2. \A s \in Threads : ThreadHolds(s)'
    BY <1>1, <1>10 DEF Return, TypeOK
  <2>3. \A s \in Threads : ComesBack(s)'
    BY <1>1, <1>10, SameQueue DEF Return, TypeOK
  <2>4. \A f \in Fibers : Unsaved(f)'
    BY <1>1, <1>10 DEF Return, TypeOK
  <2>5. QED
    BY <1>10, <2>1, <2>2, <2>3, <2>4 DEF Return
<1>11. ASSUME NEW t \in Threads, swapcontext(t)
      PROVE  PlaceInv'
  <2>1. OnePlace'
    BY <1>1, <1>11, SameQueue DEF swapcontext, TypeOK
  <2>2. \A s \in Threads : ThreadHolds(s)'
    BY <1>1, <1>11 DEF swapcontext, TypeOK
  <2>3. \A s \in Threads : ComesBack(s)'
    BY <1>1, <1>11, SameQueue DEF swapcontext, TypeOK
  <2>4. \A f \in Fibers : Unsaved(f)'
    BY <1>1, <1>11 DEF swapcontext, TypeOK
  <2>5. QED
    BY <1>11, <2>1, <2>2, <2>3, <2>4 DEF swapcontext
<1>12. ASSUME NEW t \in Threads, Drop(t)
      PROVE  PlaceInv'
  <2>1. OnePlace'
    BY <1>1, <1>12, SameQueue DEF Drop, TypeOK
  <2>2. \A s \in Threads : ThreadHolds(s)'
    BY <1>1, <1>12 DEF Drop, TypeOK
  <2>3. \A s \in Threads : ComesBack(s)'
    BY <1>1, <1>12, SameQueue DEF Drop, TypeOK
  <2>4. \A f \in Fibers : Unsaved(f)'
    BY <1>1, <1>12 DEF Drop, TypeOK
  <2>5. QED
    BY <1>12, <2>1, <2>2, <2>3, <2>4 DEF Drop
<1>13. ASSUME NEW t \in Threads, HandOver(t)
      PROVE  PlaceInv'
  <2>1. wake' = [wake EXCEPT ![cur[t]] = {t}]
    BY <1>13 DEF HandOver
  <2>2. /\ pc[t] = "run" /\ m_state[cur[t]] = "RUNNING" /\ ~Queued(cur[t])
        /\ UNCHANGED <<m_tasks, threadVars, m_state, saved, fault>>
    BY <1>13 DEF HandOver
  <2>3. OnePlace'
    BY <1>1, <2>1, <2>2, SameQueue DEF TypeOK
  <2>4. \A s \in Threads : ThreadHolds(s)'
    BY <2>2
  <2>5. \A s \in Threads : ComesBack(s)'
    BY <1>1, <2>1, <2>2, SameQueue DEF TypeOK
  <2>6. \A f \in Fibers : Unsaved(f)'
    BY <2>2
  <2>7. QED
    BY <2>2, <2>3, <2>4, <2>5, <2>6
<1>14. ASSUME NEW c \in Clients, start(c)
      PROVE  PlaceInv'
  BY <1>1, <1>14, SameQueue, ThreadsAssumption DEF start, TypeOK, Launch
<1>15. ASSUME NEW c \in Clients, StopSet(c)
      PROVE  PlaceInv'
  <2>0. UNCHANGED <<m_tasks, cur, fiberVars, fault>>
    BY <1>15 DEF StopSet
  <2>1. \A s \in Threads : pc'[s] = pc[s] \/ (pc[s] = "off" /\ pc'[s] = "pick")
    <3>1. UseCaller => pc[c] = "off"
      BY <1>1, <1>15 DEF StopSet, Launch
    <3>2. pc \in [Threads -> ThreadPc]
      BY <1>1 DEF TypeOK
    <3>3. pc' = IF UseCaller THEN [pc EXCEPT ![c] = "pick"] ELSE pc
      BY <1>15 DEF StopSet
    <3>4. QED
      BY <3>1, <3>2, <3>3
  <2>2. OnePlace'
    BY <2>0, <2>1, SameQueue
  <2>3. \A s \in Threads : ThreadHolds(s)'
    BY <2>0, <2>1
  <2>4. \A s \in Threads : ComesBack(s)'
    BY <1>1, <2>0, SameQueue DEF TypeOK
  <2>5. \A f \in Fibers : Unsaved(f)'
    BY <2>0, <2>1
  <2>6. QED
    BY <2>0, <2>2, <2>3, <2>4, <2>5
<1>16. ASSUME NEW c \in Clients, StopCheck(c) \/ StopRoot(c) \/ StopSwap(c) \/ StopJoin(c)
       PROVE  PlaceInv'
  BY <1>2, <1>16 DEF StopCheck, StopRoot, StopSwap, StopJoin
<1>17. QED
  BY <1>2, <1>3, <1>4, <1>5, <1>6, <1>7, <1>8, <1>9, <1>10, <1>11, <1>12, <1>13, <1>14, <1>15, <1>16
     DEF Next, Submit, Terminated, ThreadStep, ClientStep, StopStep, vars

\* The fiber invariant, for the discipline Pinned.
LEMMA PlaceInvariant ==
  ASSUME Pinned
  PROVE  Spec => [](TypeCount /\ PlaceInv)
<1> DEFINE I == TypeCount /\ PlaceInv
<1>1. Init => I
  BY InitTypeCount, InitPlaceInv
<1>2. I /\ [Next]_vars => I'
  BY NextTypeCount, NextPlaceInv
<1> HIDE DEF I
<1>3. Spec => []I
  BY <1>1, <1>2, PTL DEF Spec
<1>4. QED
  BY <1>3 DEF I

(* With fibers rescheduled only on the thread they ran on, no thread ever  *)
(* resumes a fiber that is RUNNING, TERM, or not yet saved.                *)
THEOREM PinnedIsSafe ==
  ASSUME Pinned
  PROVE  Spec => []NoFault
<1>1. PlaceInv => NoFault
  BY DEF PlaceInv, NoFault
<1>2. QED
  BY <1>1, PlaceInvariant, PTL

(* Under the same discipline every fiber is in one place: no task is lost, *)
(* duplicated or executed by two threads.                                  *)
THEOREM NoFiberLost ==
  ASSUME Pinned
  PROVE  Spec => []OnePlace
<1>1. PlaceInv => OnePlace
  BY DEF PlaceInv
<1>2. QED
  BY <1>1, PlaceInvariant, PTL

-----------------------------------------------------------------------------
(* The pool of tasks.  Each step of the scheduler is a step of TaskPool or *)
(* leaves what TaskPool speaks of as it is.                                *)

TaskInv == TypeCount /\ StopInv /\ RunningOnThread /\ PlaceInv

\* A thread inside run() shows that stop() has not returned.
LEMMA NotReturned ==
  ASSUME SomebodyRuns, TypeOK, Launch, StopInv, NEW t \in Threads, pc[t] \notin {"off", "exit"}
  PROVE  ~returned
BY AllGone DEF returned

\* So does whoever may call schedule().
LEMMA NotReturnedYet ==
  ASSUME OneClient, SomebodyRuns, TypeOK, Launch, StopInv, CanSchedule
  PROVE  ~returned
<1>1. CASE \E t \in Threads : pc[t] = "run"
  BY <1>1, NotReturned
<1>2. CASE \E c \in Clients : cpc[c] = "live"
  BY <1>2 DEF returned, OneClient
<1>3. QED
  BY <1>1, <1>2 DEF CanSchedule

\* What a task shows depends on its state and on who executes it.
LEMMA StatusKept ==
  ASSUME running' = running, NEW f, m_state' = [m_state EXCEPT ![f] = m_state'[f]], TypeOK,
         f \in Fibers => (\/ m_state'[f] = m_state[f]
                          \/ /\ m_state[f] # "UNUSED" /\ m_state'[f] # "UNUSED"
                             /\ \E t \in Threads : running[t] = f)
  PROVE  status' = status
<1>1. \A g \in Fibers : status'[g] = status[g]
  BY DEF status, TypeOK
<1>2. QED
  BY <1>1 DEF status

\* Steps of a thread that neither take, begin nor let go of a task.
LEMMA QuietStep ==
  ASSUME TypeOK, NEW t \in Threads, UNCHANGED <<m_tasks, m_state, cpc>>,
         pc' = [pc EXCEPT ![t] = pc'[t]], cur' = [cur EXCEPT ![t] = cur'[t]],
         pc[t] \notin {"got", "run", "yield"}, pc'[t] \notin {"got", "run", "yield"}
  PROVE  UNCHANGED Pool!vars
<1>1. running' = running
  BY DEF running, TypeOK
<1>2. due' = due
  BY SameQueue DEF due, TypeOK
<1>3. status' = status
  BY <1>1 DEF status
<1>4. returned' = returned
  BY DEF returned
<1>5. QED
  BY <1>1, <1>2, <1>3, <1>4 DEF Pool!vars

\* Nothing that is mapped changes.
LEMMA QuietSame ==
  ASSUME UNCHANGED <<m_tasks, m_state, pc, cur>>, returned' = returned
  PROVE  UNCHANGED Pool!vars
<1>1. running' = running
  BY DEF running
<1>2. due' = due
  BY SameQueue DEF due
<1>3. status' = status
  BY <1>1 DEF status
<1>4. QED
  BY <1>1, <1>2, <1>3 DEF Pool!vars

\* schedule() of a new fiber is Submit.
LEMMA SubmitStep ==
  ASSUME OneClient, SomebodyRuns, TaskInv, NEW f \in Fibers, NEW p \in Pins, NEW st \in {"READY", "CB"},
         schedule(f, p, st)
  PROVE  Pool!Submit(f)
<1>0. TypeOK /\ Launch /\ StopInv /\ OnePlace
  BY DEF TaskInv, TypeCount, PlaceInv
<1>1. ~Queued(f) /\ m_state[f] = "UNUSED" /\ m_state' = [m_state EXCEPT ![f] = st]
      /\ UNCHANGED <<pc, cur, cpc>>
  BY <1>0 DEF schedule, OnePlace, Held, threadVars, clientVars
<1>2. \A g \in Fibers : Queued(g)' <=> Queued(g) \/ g = f
  BY <1>0, <1>1, PushQueue DEF schedule, OnePlace
<1>3. due' = due \cup {f}
  BY <1>1, <1>2 DEF due
<1>4. running' = running /\ returned' = returned
  BY <1>1 DEF running, returned
<1>5. ~returned
  BY <1>0, NotReturnedYet DEF schedule
<1>6. status[f] = "new"
  BY <1>1 DEF status
<1>7. status' = [status EXCEPT ![f] = "open"]
  <2>1. \A g \in Fibers : status'[g] = IF g = f THEN "open" ELSE status[g]
    BY <1>0, <1>1, <1>4 DEF status, TypeOK
  <2>2. QED
    BY <2>1 DEF status
<1>8. QED
  BY <1>3, <1>4, <1>5, <1>6, <1>7 DEF Pool!Submit

\* schedule() of a fiber that was handed over is Reschedule.
LEMMA WakeStep ==
  ASSUME OneClient, SomebodyRuns, TaskInv, NEW f \in Fibers, NEW p \in Pins, Wake(f, p)
  PROVE  Pool!Reschedule(f)
<1>0. TypeOK /\ Launch /\ StopInv /\ OnePlace /\ \A t \in Threads : ThreadHolds(t)
  BY DEF TaskInv, TypeCount, PlaceInv
<1>1. ~Queued(f) /\ wake[f] # {} /\ UNCHANGED <<m_state, pc, cur, cpc>>
  BY <1>0 DEF Wake, OnePlace, threadVars, clientVars
<1>2. \A g \in Fibers : Queued(g)' <=> Queued(g) \/ g = f
  BY <1>0, <1>1, PushQueue DEF Wake, OnePlace
<1>3. due' = due \cup {f}
  BY <1>1, <1>2 DEF due
<1>4. running' = running /\ returned' = returned
  BY <1>1 DEF running, returned
<1>5. ~returned
  BY <1>0, NotReturnedYet DEF Wake
<1>6. m_state[f] \notin {"UNUSED", "TERM"}
  BY <1>0, <1>1 DEF OnePlace, Held
<1>7. status[f] = "open" /\ status' = status
  BY <1>1, <1>4, <1>6 DEF status
<1>8. \A t \in Threads : ~(pc[t] = "got" /\ cur[t] = f)
  BY <1>0, <1>1 DEF OnePlace, Held, ThreadHolds
<1>9. f \notin due
  BY <1>1, <1>8 DEF due
<1>10. QED
  BY <1>3, <1>4, <1>5, <1>7, <1>9 DEF Pool!Reschedule

\* Taking a task from the queue changes nothing: it stays due until it is resumed.
LEMMA TakeStep ==
  ASSUME TaskInv, NEW t \in Threads, Take(t)
  PROVE  UNCHANGED Pool!vars
<1>0. TypeOK /\ OnePlace /\ \A s \in Threads : ThreadHolds(s)
  BY DEF TaskInv, TypeCount, PlaceInv
<1>1. PICK i \in 1..Len(m_tasks) :
         cur' = [cur EXCEPT ![t] = m_tasks[i].fiber] /\ m_tasks' = RemoveAt(m_tasks, i)
  BY DEF Take, First, Eligible
<1>2. PICK f \in Fibers : f = m_tasks[i].fiber
  <2>1. m_tasks[i] \in Task
    BY <1>0, <1>1, ElementOfSeq DEF TypeOK
  <2>2. QED
    BY <2>1 DEF Task
<1>3. \A g \in Fibers : Queued(g)' <=> Queued(g) /\ g # f
  BY <1>0, <1>1, <1>2, EraseQueue DEF OnePlace
<1>4. Queued(f)
  BY <1>1, <1>2 DEF Queued
<1>5. pc[t] = "pick" /\ pc' = [pc EXCEPT ![t] = "got"] /\ cur' = [cur EXCEPT ![t] = f]
      /\ UNCHANGED <<m_state, cpc>>
  BY <1>1, <1>2 DEF Take, fiberVars, clientVars
<1>6. running' = running
  BY <1>0, <1>5 DEF running, TypeOK
<1>7. ASSUME NEW g \in Fibers PROVE g \in due' <=> g \in due
  BY <1>0, <1>3, <1>4, <1>5 DEF due, TypeOK
<1>8. due' = due
  BY <1>7 DEF due
<1>9. status' = status /\ returned' = returned
  BY <1>5, <1>6 DEF status, returned
<1>10. QED
  BY <1>6, <1>8, <1>9 DEF Pool!vars

\* resume() is Begin: nobody else executes the fiber, and its context is whole.
LEMMA ResumeStep ==
  ASSUME SomebodyRuns, TaskInv, NEW t \in Threads, resume(t)
  PROVE  \E f \in Fibers : Pool!Begin(t, f)
<1>0. TypeOK /\ Launch /\ StopInv /\ OnePlace /\ \A s \in Threads : ThreadHolds(s)
  BY DEF TaskInv, TypeCount, PlaceInv
<1>1. PICK f \in Fibers : f = cur[t]
  BY <1>0 DEF TypeOK, ThreadHolds, resume, Executing
<1>2. /\ pc[t] = "got" /\ m_state[f] \in {"CB", "READY"}
      /\ m_state' = [m_state EXCEPT ![f] = "RUNNING"] /\ pc' = [pc EXCEPT ![t] = "run"]
      /\ UNCHANGED <<m_tasks, cur, cpc>>
  BY <1>0, <1>1 DEF resume, ThreadHolds, clientVars
<1>3. \A s \in Threads : s # t => cur[s] # f
  BY <1>0, <1>1, FibersAssumption DEF OnePlace
<1>4. running[t] = NoFiber /\ \A s \in Threads : running[s] # f
  BY <1>2, <1>3, FibersAssumption DEF running
<1>5. running' = [running EXCEPT ![t] = f]
  BY <1>0, <1>1, <1>2 DEF running, TypeOK
<1>6. ~Queued(f)
  BY <1>0, <1>1, <1>2 DEF OnePlace, Held
<1>7. ASSUME NEW g \in Fibers PROVE g \in due' <=> g \in due /\ g # f
  BY <1>0, <1>1, <1>2, <1>3, <1>6, SameQueue DEF due, TypeOK
<1>8. f \in due /\ due' = due \ {f}
  BY <1>1, <1>2, <1>7 DEF due
<1>9. status[f] = "open"
  BY <1>2 DEF status
<1>10. status' = status
  <2>1. ASSUME NEW g \in Fibers PROVE status'[g] = status[g]
    <3>1. CASE g = f
      BY <1>0, <1>2, <1>9, <3>1 DEF status, TypeOK
    <3>2. CASE g # f
      <4>1. m_state'[g] = m_state[g]
        BY <1>0, <1>2, <3>2 DEF TypeOK
      <4>2. \A s \in Threads : running'[s] = IF s = t THEN f ELSE running[s]
        BY <1>5 DEF running
      <4>3. (\A s \in Threads : running'[s] # g) <=> (\A s \in Threads : running[s] # g)
        BY <1>4, <3>2, <4>2, FibersAssumption
      <4>4. QED
        BY <4>1, <4>3 DEF status
    <3>3. QED
      BY <3>1, <3>2
  <2>2. QED
    BY <2>1 DEF status
<1>11. ~returned /\ returned' = returned
  BY <1>0, <1>2, NotReturned DEF returned
<1>12. QED
  BY <1>4, <1>5, <1>8, <1>9, <1>10, <1>11 DEF Pool!Begin, Pool!Free

\* yield() and the end of MainFunc change the state of a fiber that its thread still executes.
LEMMA YieldStep ==
  ASSUME TaskInv, NEW t \in Threads, yield(t) \/ Return(t)
  PROVE  UNCHANGED Pool!vars
<1>0. TypeOK /\ \A s \in Threads : ThreadHolds(s)
  BY DEF TaskInv, TypeCount, PlaceInv
<1>1. PICK f \in Fibers : f = cur[t]
  BY <1>0 DEF TypeOK, ThreadHolds, yield, Return, Executing
<1>2. /\ pc[t] = "run" /\ pc' = [pc EXCEPT ![t] = "yield"] /\ m_state[f] = "RUNNING"
      /\ \E st \in {"READY", "TERM"} : m_state' = [m_state EXCEPT ![f] = st]
      /\ UNCHANGED <<m_tasks, cur, cpc>>
  BY <1>0, <1>1 DEF yield, Return, ThreadHolds, clientVars
<1>3. running' = running /\ running[t] = f
  BY <1>0, <1>1, <1>2 DEF running, TypeOK
<1>4. due' = due
  BY <1>0, <1>2, SameQueue DEF due, TypeOK
<1>5. status' = status
  BY <1>0, <1>2, <1>3, StatusKept DEF TypeOK
<1>6. returned' = returned
  BY <1>2 DEF returned
<1>7. QED
  BY <1>3, <1>4, <1>5, <1>6 DEF Pool!vars

\* Once its context is saved, a task has paused, or is finished and scheduled by nobody.
LEMMA SwapStep ==
  ASSUME TaskInv, NEW t \in Threads, swapcontext(t)
  PROVE  Pool!Pause(t) \/ Pool!Finish(t)
<1>0. TypeOK /\ OnePlace /\ \A s \in Threads : ThreadHolds(s)
  BY DEF TaskInv, TypeCount, PlaceInv
<1>1. PICK f \in Fibers : f = cur[t]
  BY <1>0 DEF TypeOK, ThreadHolds, swapcontext, Executing
<1>2. /\ pc[t] = "yield" /\ pc' = [pc EXCEPT ![t] = "back"] /\ m_state[f] \in {"READY", "TERM"}
      /\ UNCHANGED <<m_tasks, m_state, cur, cpc>>
  BY <1>0, <1>1 DEF swapcontext, ThreadHolds, clientVars
<1>3. \A s \in Threads : s # t => cur[s] # f
  BY <1>0, <1>1, FibersAssumption DEF OnePlace
<1>4. running[t] = f /\ running' = [running EXCEPT ![t] = NoFiber]
  BY <1>0, <1>1, <1>2 DEF running, TypeOK
<1>5. \A s \in Threads : running'[s] # f
  BY <1>2, <1>3, <1>4, FibersAssumption DEF running
<1>6. due' = due /\ returned' = returned
  BY <1>0, <1>2, SameQueue DEF due, returned, TypeOK
<1>7. ASSUME NEW g \in Fibers, g # f PROVE status'[g] = status[g]
  <2>1. (\A s \in Threads : running'[s] # g) <=> (\A s \in Threads : running[s] # g)
    BY <1>4, <1>7, FibersAssumption DEF running
  <2>2. QED
    BY <1>2, <2>1 DEF status
<1>8. CASE m_state[f] = "READY"
  <2>1. status'[f] = status[f]
    BY <1>2, <1>8 DEF status
  <2>2. status' = status
    BY <1>7, <2>1 DEF status
  <2>3. QED
    BY <1>4, <1>6, <2>2, FibersAssumption DEF Pool!Pause
<1>9. CASE m_state[f] = "TERM"
  <2>1. status'[f] = "done"
    BY <1>2, <1>5, <1>9 DEF status
  <2>2. status' = [status EXCEPT ![f] = "done"]
    <3>1. \A g \in Fibers : status'[g] = IF g = f THEN "done" ELSE status[g]
      BY <1>7, <2>1
    <3>2. QED
      BY <3>1 DEF status
  <2>3. f \notin due
    BY <1>0, <1>1, <1>2, <1>3, <1>9 DEF due, OnePlace, Held
  <2>4. QED
    BY <1>4, <1>6, <2>2, <2>3, FibersAssumption DEF Pool!Finish
<1>10. QED
  BY <1>2, <1>8, <1>9

\* start() and the call of run() by stop() put threads at the beginning of run().
LEMMA LaunchStep ==
  ASSUME TaskInv, NEW c \in Clients, start(c) \/ StopSet(c)
  PROVE  UNCHANGED Pool!vars
<1>0. TypeOK /\ Launch
  BY DEF TaskInv, TypeCount
<1>1. \A t \in Threads : pc'[t] = pc[t] \/ (pc[t] = "off" /\ pc'[t] = "pick")
  BY <1>0, ThreadsAssumption DEF start, StopSet, Launch, TypeOK
<1>2. UNCHANGED <<m_tasks, m_state, cur>>
  BY DEF start, StopSet, fiberVars
<1>3. running' = running
  BY <1>1, <1>2 DEF running
<1>4. due' = due
  BY <1>1, <1>2, SameQueue DEF due
<1>5. status' = status
  BY <1>2, <1>3 DEF status
<1>6. \A d \in Clients : cpc'[d] = "stopped" <=> cpc[d] = "stopped"
  BY <1>0 DEF start, StopSet, TypeOK
<1>7. returned' = returned
  BY <1>6 DEF returned
<1>8. QED
  BY <1>3, <1>4, <1>5, <1>7 DEF Pool!vars

\* The last join is Return; the other stages of stop() change nothing.
LEMMA StopPoolStep ==
  ASSUME OneClient, SomebodyRuns, TaskInv, TaskInv', NEW c \in Clients,
         StopCheck(c) \/ StopRoot(c) \/ StopSwap(c) \/ StopJoin(c)
  PROVE  Pool!Return \/ UNCHANGED Pool!vars
<1>0. TypeOK /\ StopInv /\ StopInv' /\ TypeOK' /\ Launch'
  BY DEF TaskInv, TypeCount
<1>1. UNCHANGED <<m_tasks, m_state, pc, cur>>
  BY DEF StopCheck, StopRoot, StopSwap, StopJoin, fiberVars, threadVars
<1>2. CASE returned' = returned
  BY <1>1, <1>2, QuietSame
<1>3. CASE returned' # returned
  <2>1. returned' /\ ~returned
    <3>1. \A d \in Clients : cpc[d] = "stopped" => cpc'[d] = "stopped"
      BY <1>0 DEF StopCheck, StopRoot, StopSwap, StopJoin, TypeOK
    <3>2. QED
      BY <1>3, <3>1 DEF returned
  <2>2. /\ \E t \in Threads : pc[t] = "exit"
        /\ \A t \in Threads : pc[t] \in {"off", "exit"}
    <3>1. PICK d \in Clients : cpc'[d] = "stopped"
      BY <2>1 DEF returned
    <3>2. \A t \in Threads : pc'[t] \in {"off", "exit"}
      BY <1>0, <3>1 DEF StopInv, Launch, Threads
    <3>3. CASE UseCaller
      BY <1>0, <1>1, <3>1, <3>2, <3>3 DEF StopInv, Threads
    <3>4. CASE ~UseCaller
      BY <1>0, <1>1, <3>1, <3>2, <3>4, ThreadsAssumption DEF StopInv, Threads, SomebodyRuns
    <3>5. QED
      BY <3>3, <3>4
  <2>3. m_tasks = <<>>
    BY <1>0, <2>2 DEF StopInv, ExitMeansStopped, Stopping
  <2>4. due = {} /\ \A t \in Threads : running[t] = NoFiber
    <3>1. \A f \in Fibers : ~Queued(f)
      BY <2>3, EmptySeq DEF Queued
    <3>2. QED
      BY <2>2, <3>1 DEF due, running
  <2>5. running' = running /\ due' = due
    BY <1>1, SameQueue DEF running, due
  <2>6. status' = status
    BY <1>1, <2>5 DEF status
  <2>7. QED
    BY <2>1, <2>4, <2>5, <2>6 DEF Pool!Return, returned
<1>4. QED
  BY <1>2, <1>3

\* Every step is a step of the pool of tasks, or none.
LEMMA PoolStep ==
  ASSUME OneClient, SomebodyRuns, TaskInv, TaskInv', [Next]_vars
  PROVE  [Pool!Next]_(Pool!vars)
<1>0. TypeOK
  BY DEF TaskInv, TypeCount
<1>1. CASE UNCHANGED vars
  <2>1. UNCHANGED <<m_tasks, m_state, pc, cur, cpc>>
    BY <1>1 DEF vars, fiberVars, threadVars, clientVars
  <2>2. QED
    BY <2>1, QuietSame DEF returned
<1>2. CASE Submit
  BY <1>2, SubmitStep, WakeStep DEF Submit, Pool!Next
<1>3. ASSUME NEW t \in Threads, ThreadStep(t)
      PROVE  [Pool!Next]_(Pool!vars)
  <2>1. CASE TakeNothing(t) \/ idle(t) \/ Drop(t)
    <3>1. /\ UNCHANGED <<m_tasks, m_state, cpc>>
          /\ pc[t] \notin {"got", "run", "yield"} /\ pc'[t] \notin {"got", "run", "yield"}
          /\ pc' = [pc EXCEPT ![t] = pc'[t]] /\ cur' = [cur EXCEPT ![t] = cur'[t]]
      BY <1>0, <2>1 DEF TakeNothing, idle, Drop, TypeOK, fiberVars, clientVars
    <3>2. QED
      BY <1>0, <3>1, QuietStep
  <2>2. CASE Take(t)
    BY <2>2, TakeStep
  <2>3. CASE resume(t)
    BY <2>3, ResumeStep DEF Pool!Next
  <2>4. CASE HandOver(t)
    <3>1. UNCHANGED <<m_tasks, m_state, pc, cur, cpc>>
      BY <2>4 DEF HandOver, threadVars, clientVars
    <3>2. QED
      BY <3>1, QuietSame DEF returned
  <2>5. CASE yield(t) \/ Return(t)
    BY <2>5, YieldStep
  <2>6. CASE swapcontext(t)
    BY <2>6, SwapStep DEF Pool!Next
  <2>7. QED
    BY <1>3, <2>1, <2>2, <2>3, <2>4, <2>5, <2>6 DEF ThreadStep
<1>4. ASSUME NEW c \in Clients, ClientStep(c)
      PROVE  [Pool!Next]_(Pool!vars)
  <2>1. CASE start(c) \/ StopSet(c)
    BY <2>1, LaunchStep
  <2>2. CASE StopCheck(c) \/ StopRoot(c) \/ StopSwap(c) \/ StopJoin(c)
    BY <2>2, StopPoolStep DEF Pool!Next
  <2>3. QED
    BY <1>4, <2>1, <2>2 DEF ClientStep, StopStep
<1>5. QED
  BY <1>1, <1>2, <1>3, <1>4 DEF Next, Terminated

\* The constructor makes an empty pool.
LEMMA InitPool == Init => Pool!Init
<1> SUFFICES ASSUME Init PROVE Pool!Init
  OBVIOUS
<1>1. \A f \in Fibers : ~Queued(f)
  BY EmptySeq DEF Init, Queued
<1>2. due = {} /\ running = [t \in Threads |-> NoFiber]
  BY <1>1 DEF Init, due, running
<1>3. status = [f \in Fibers |-> "new"]
  BY DEF Init, status
<1>4. returned = FALSE
  BY DEF Init, returned
<1>5. QED
  BY <1>2, <1>3, <1>4 DEF Pool!Init

(* The scheduler implements the pool of tasks of its interface, for every  *)
(* number of workers and fibers, when one client uses it, fibers are       *)
(* rescheduled on the thread they ran on, and the caller or a started      *)
(* worker is there to run them: one beginning for each schedule(), by one  *)
(* thread at a time and from a whole context, and nothing due or executed  *)
(* when stop() has returned, nor ever after.                               *)
THEOREM SchedulerIsATaskPool ==
  ASSUME OneClient, SomebodyRuns, Pinned
  PROVE  Spec => ImplementsTaskPool
<1>1. Spec => []TaskInv
  <2>1. TypeCount /\ StopInv /\ RunningOnThread /\ PlaceInv => TaskInv
    BY DEF TaskInv
  <2>2. QED
    BY <2>1, StopInvariant, PlaceInvariant, PTL
<1>2. TaskInv /\ TaskInv' /\ [Next]_vars => [Pool!Next]_(Pool!vars)
  BY PoolStep
<1>3. QED
  BY <1>1, <1>2, InitPool, PTL DEF Spec, ImplementsTaskPool, Pool!Spec
=============================================================================
