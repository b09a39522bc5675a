------------------------------ MODULE WebProofs ------------------------------
(***************************************************************************)
(* Theorems about the pool of database connections, for any number of      *)
(* threads, callers and connections, and about the web application that    *)
(* uses it, for any requests and any number of clients.                    *)
(***************************************************************************)
EXTENDS TinyWebserver, TLAPS, FiniteSetTheorems, SequenceTheorems

-----------------------------------------------------------------------------
(* Lists without repetition.                                               *)

\* The front comes off.
LEMMA HeadOff ==
  ASSUME NEW S, NEW s \in Seq(S), s # <<>>, IsInjective(s)
  PROVE  /\ Head(s) \in S /\ Head(s) \in ToSet(s) /\ Tail(s) \in Seq(S) /\ Len(Tail(s)) = Len(s) - 1
         /\ Len(s) \in Nat /\ Len(s) > 0
         /\ ToSet(Tail(s)) = ToSet(s) \ {Head(s)} /\ IsInjective(Tail(s))
<1> DEFINE t == Tail(s)
<1>1. /\ Head(s) \in S /\ t \in Seq(S) /\ Len(t) = Len(s) - 1 /\ Len(s) \in Nat /\ Len(s) > 0
      /\ Head(s) = s[1] /\ \A i \in 1..Len(t) : t[i] = s[i + 1]
  BY HeadTailProperties, LenProperties, EmptySeq
<1>2. DOMAIN s = 1..Len(s) /\ DOMAIN t = 1..Len(t)
  BY <1>1, LenProperties
<1> HIDE DEF t
<1>3. \A i \in 1..Len(t) : i + 1 \in 1..Len(s) /\ i + 1 # 1
  BY <1>1
<1>4. \A i \in 1..Len(s) : i = 1 \/ (i - 1 \in 1..Len(t) /\ (i - 1) + 1 = i)
  BY <1>1
<1>5. 1 \in 1..Len(s)
  BY <1>1
<1>6. ToSet(t) = ToSet(s) \ {Head(s)}
  <2>1. ASSUME NEW x \in ToSet(t)
        PROVE  x \in ToSet(s) /\ x # Head(s)
    <3>1. PICK i \in 1..Len(t) : t[i] = x
      BY <1>2, <2>1 DEF ToSet
    <3>2. QED
      BY <1>1, <1>2, <1>3, <1>5, <3>1 DEF ToSet, IsInjective
  <2>2. ASSUME NEW x \in ToSet(s), x # Head(s)
        PROVE  x \in ToSet(t)
    <3>1. PICK i \in 1..Len(s) : s[i] = x
      BY <1>2, <2>2 DEF ToSet
    <3>2. i - 1 \in 1..Len(t) /\ t[i - 1] = x
      BY <1>1, <1>4, <2>2, <3>1
    <3>3. QED
      BY <1>2, <3>2 DEF ToSet
  <2>3. QED
    BY <2>1, <2>2
<1>7. IsInjective(t)
  <2> SUFFICES ASSUME NEW i \in 1..Len(t), NEW j \in 1..Len(t), t[i] = t[j]
               PROVE  i = j
    BY <1>2 DEF IsInjective
  <2>1. i + 1 = j + 1
    BY <1>1, <1>2, <1>3 DEF IsInjective
  <2>2. QED
    BY <2>1
<1>8. Head(s) \in ToSet(s)
  BY <1>1, <1>2, <1>5 DEF ToSet
<1>9. QED
  BY <1>1, <1>6, <1>7, <1>8 DEF t

\* One more at the end.
LEMMA PutBack ==
  ASSUME NEW S, NEW s \in Seq(S), NEW x \in S, x \notin ToSet(s), IsInjective(s)
  PROVE  /\ Append(s, x) \in Seq(S) /\ Len(Append(s, x)) = Len(s) + 1 /\ Len(s) \in Nat
         /\ ToSet(Append(s, x)) = ToSet(s) \cup {x} /\ IsInjective(Append(s, x))
<1> DEFINE t == Append(s, x)
<1>1. /\ t \in Seq(S) /\ Len(t) = Len(s) + 1 /\ Len(s) \in Nat
      /\ t[Len(s) + 1] = x /\ \A i \in 1..Len(s) : t[i] = s[i]
  BY AppendProperties, LenProperties
<1>2. DOMAIN s = 1..Len(s) /\ DOMAIN t = 1..Len(t)
  BY <1>1, LenProperties
<1> HIDE DEF t
<1>3. \A i \in 1..Len(t) : i = Len(s) + 1 \/ i \in 1..Len(s)
  BY <1>1
<1>4. Len(s) + 1 \in 1..Len(t) /\ \A i \in 1..Len(s) : i \in 1..Len(t) /\ s[i] # x
  BY <1>1, <1>2 DEF ToSet
<1>5. ToSet(t) = ToSet(s) \cup {x}
  BY <1>1, <1>2, <1>3, <1>4 DEF ToSet
<1>6. IsInjective(t)
  BY <1>1, <1>2, <1>3, <1>4 DEF IsInjective
<1>7. QED
  BY <1>1, <1>5, <1>6 DEF t

\* The members of a list over S are in S, and a list over S is one over a larger set.
LEMMA ListMembers ==
  ASSUME NEW S, NEW s \in Seq(S)
  PROVE  ToSet(s) \subseteq S /\ \A T : S \subseteq T => s \in Seq(T)
<1>1. /\ DOMAIN s = 1..Len(s) /\ Len(s) \in Nat /\ s \in [1..Len(s) -> S]
  BY LenProperties
<1>2. ToSet(s) \subseteq S
  BY <1>1 DEF ToSet
<1>3. ASSUME NEW T, S \subseteq T
      PROVE  s \in Seq(T)
  <2>1. s \in [1..Len(s) -> T]
    BY <1>1, <1>3
  <2>2. QED
    BY <1>1, <2>1, IsASeq
<1>4. QED
  BY <1>2, <1>3

-----------------------------------------------------------------------------
(* The invariant of the pool.                                              *)

\* A caller has a connection exactly between TakeFront and the end of its statement.
Borrowed ==
  /\ \A f \in Fibers : con[f] # Nil <=> pc[f] \in {"query", "answer", "ReleaseConnection"}
  /\ sql \in [Fibers -> Statements \cup {Nil}]
  /\ \A f \in Fibers : pc[f] # "out" => sql[f] \in Statements

\* Until the semaphore is made no caller is inside.
NotUp == init # "up" => /\ \A f \in Fibers : pc[f] = "out"
                        /\ lost = {} /\ m_CurConn = 0

Free == m_FreeConn = Len(connList)

Counters ==
  init = "up" =>
    /\ Len(connList) = reserve + Cardinality(Busy("pop")) + Cardinality(Busy("sem_post"))
    /\ m_CurConn = Cardinality(Lent) + Cardinality(lost)
    /\ m_FreeConn + m_CurConn = maxconn

PoolInv == PoolTypeOK /\ Borrowed /\ NotUp /\ Free /\ LentOnce /\ Counters

\* One caller moves at a time.
Alone(f) == \A g \in Fibers : g # f => pc'[g] = pc[g]

\* A caller moves: how many are at x.
LEMMA BusyMoves ==
  ASSUME NEW f \in Fibers, Alone(f), NEW x
  PROVE  /\ Cardinality(Busy(x)) \in Nat /\ Cardinality(Busy(x)') \in Nat
         /\ (pc'[f] = x /\ pc[f] # x => Cardinality(Busy(x)') = Cardinality(Busy(x)) + 1)
         /\ (pc'[f] # x /\ pc[f] = x => Cardinality(Busy(x)') = Cardinality(Busy(x)) - 1)
         /\ ((pc'[f] = x <=> pc[f] = x) => Cardinality(Busy(x)') = Cardinality(Busy(x)))
<1>2. IsFiniteSet(Busy(x)) /\ IsFiniteSet(Busy(x)')
  <2>1. IsFiniteSet(Fibers) /\ Busy(x) \subseteq Fibers /\ Busy(x)' \subseteq Fibers
    BY PoolAssumption DEF Busy
  <2>2. QED
    BY <2>1, FS_Subset
<1>3. Cardinality(Busy(x)) \in Nat /\ Cardinality(Busy(x)') \in Nat
  BY <1>2, FS_CardinalityType
<1>4. ASSUME pc'[f] = x, pc[f] # x
      PROVE  Cardinality(Busy(x)') = Cardinality(Busy(x)) + 1
  <2>1. Busy(x)' = Busy(x) \cup {f} /\ f \notin Busy(x)
    BY <1>4 DEF Busy, Alone
  <2>2. QED
    BY <1>2, <2>1, FS_AddElement
<1>5. ASSUME pc'[f] # x, pc[f] = x
      PROVE  Cardinality(Busy(x)') = Cardinality(Busy(x)) - 1
  <2>1. Busy(x)' = Busy(x) \ {f} /\ f \in Busy(x)
    BY <1>5 DEF Busy, Alone
  <2>2. QED
    BY <1>2, <2>1, FS_RemoveElement
<1>6. ASSUME pc'[f] = x <=> pc[f] = x
      PROVE  Cardinality(Busy(x)') = Cardinality(Busy(x))
  <2>1. Busy(x)' = Busy(x)
    BY <1>6 DEF Busy, Alone
  <2>2. QED
    BY <2>1
<1>7. QED
  BY <1>3, <1>4, <1>5, <1>6

\* The connections are finitely many.
LEMMA FiniteConns ==
  ASSUME PoolTypeOK
  PROVE  /\ IsFiniteSet(Lent) /\ IsFiniteSet(lost) /\ Lent \subseteq 1..opened
         /\ Cardinality(Lent) \in Nat /\ Cardinality(lost) \in Nat
<1>1. IsFiniteSet(1..opened) /\ Lent \subseteq 1..opened /\ lost \subseteq 1..opened
  BY FS_Interval DEF PoolTypeOK, Lent
<1>2. IsFiniteSet(Lent) /\ IsFiniteSet(lost)
  BY <1>1, FS_Subset
<1>3. QED
  BY <1>1, <1>2, FS_CardinalityType

-----------------------------------------------------------------------------
(* The callers.                                                            *)

\* A step of a caller that moves no connection: what it keeps, and what is left to show.
LEMMA MovesNone ==
  ASSUME PoolInv, NEW f \in Fibers, NEW w, pc' = [pc EXCEPT ![f] = w],
         w \in {"out", "GetConnection", "sem_wait", "pop", "query", "answer", "ReleaseConnection", "sem_post"},
         w \in {"query", "answer", "ReleaseConnection"} <=> pc[f] \in {"query", "answer", "ReleaseConnection"},
         init = "up" \/ w = "out", w # "out" => sql'[f] \in Statements, sql' \in [Fibers -> Statements \cup {Nil}],
         \A g \in Fibers : g # f => sql'[g] = sql[g],
         UNCHANGED <<connList, m_FreeConn, m_CurConn, con, lost, initVars>>,
         reserve' \in Nat, rows' \subseteq Names \X Passwords, runs' \in [Threads -> Fibers \cup {Nil}],
         init = "up" => reserve' + Cardinality(Busy("pop")') + Cardinality(Busy("sem_post")')
                          = reserve + Cardinality(Busy("pop")) + Cardinality(Busy("sem_post"))
  PROVE  PoolInv'
<1>1. UNCHANGED <<init, inits, opened, closed>> /\ Lent' = Lent
  BY DEF initVars, Lent
<1>2. \A g \in Fibers : pc'[g] = (IF g = f THEN w ELSE pc[g])
  BY DEF PoolInv, PoolTypeOK
<1>3. PoolTypeOK'
  BY <1>1 DEF PoolInv, PoolTypeOK
<1>4. Borrowed'
  BY <1>2 DEF PoolInv, Borrowed
<1>5. NotUp'
  BY <1>1, <1>2 DEF PoolInv, NotUp
<1>6. Free' /\ LentOnce'
  BY <1>1 DEF PoolInv, Free, LentOnce
<1>7. Counters'
  BY <1>1 DEF PoolInv, Counters
<1>8. QED
  BY <1>3, <1>4, <1>5, <1>6, <1>7 DEF PoolInv

\* A caller inside a call is there because the pool is up.
LEMMA InsideIsUp ==
  ASSUME PoolInv, NEW f \in Fibers, pc[f] # "out"
  PROVE  init = "up"
BY DEF PoolInv, NotUp

\* The look at the list, and the end of a call that found it empty.
LEMMA GetConnectionKeeps ==
  ASSUME PoolInv, NEW f \in Fibers, GetConnection(f)
  PROVE  PoolInv'
<1> DEFINE w == IF connList = <<>> THEN "out" ELSE "sem_wait"
<1>1. /\ pc[f] = "GetConnection" /\ pc' = [pc EXCEPT ![f] = w] /\ w \in {"out", "sem_wait"}
      /\ UNCHANGED <<connList, reserve, m_FreeConn, m_CurConn, con, lost, initVars, sql, rows, runs>>
  BY DEF GetConnection, poolVars
<1>2. init = "up" /\ PoolTypeOK /\ sql \in [Fibers -> Statements \cup {Nil}] /\ sql[f] \in Statements
  BY <1>1, InsideIsUp DEF PoolInv, Borrowed
<1> HIDE DEF w
<1>3. /\ Cardinality(Busy("pop")') = Cardinality(Busy("pop"))
      /\ Cardinality(Busy("sem_post")') = Cardinality(Busy("sem_post"))
  <2>1. Alone(f) /\ pc'[f] = w
    BY <1>1, <1>2 DEF Alone, PoolTypeOK
  <2>2. QED
    BY <1>1, <2>1, BusyMoves
<1>4. /\ reserve' \in Nat /\ rows' \subseteq Names \X Passwords /\ runs' \in [Threads -> Fibers \cup {Nil}]
      /\ sql' = sql /\ UNCHANGED <<connList, m_FreeConn, m_CurConn, con, lost, initVars>>
  BY <1>1, <1>2 DEF PoolTypeOK
<1>5. QED
  BY <1>1, <1>2, <1>3, <1>4, MovesNone

\* One unit of the semaphore becomes one caller before pop_front.
LEMMA SemWaitKeeps ==
  ASSUME PoolInv, NEW f \in Fibers, sem_wait(f)
  PROVE  PoolInv'
<1>1. /\ pc[f] = "sem_wait" /\ pc' = [pc EXCEPT ![f] = "pop"] /\ reserve > 0 /\ reserve' = reserve - 1
      /\ UNCHANGED <<connList, m_FreeConn, m_CurConn, con, lost, initVars, sql, rows, runs>>
  BY DEF sem_wait
<1>2. init = "up" /\ PoolTypeOK /\ sql \in [Fibers -> Statements \cup {Nil}] /\ sql[f] \in Statements
  BY <1>1, InsideIsUp DEF PoolInv, Borrowed
<1>3. /\ Cardinality(Busy("pop")') = Cardinality(Busy("pop")) + 1 /\ Cardinality(Busy("pop")) \in Nat
      /\ Cardinality(Busy("sem_post")') = Cardinality(Busy("sem_post")) /\ Cardinality(Busy("sem_post")) \in Nat
  <2>1. Alone(f) /\ pc'[f] = "pop"
    BY <1>1, <1>2 DEF Alone, PoolTypeOK
  <2>2. QED
    BY <1>1, <2>1, BusyMoves
<1>4. /\ reserve \in Nat /\ reserve' \in Nat /\ rows' \subseteq Names \X Passwords
      /\ runs' \in [Threads -> Fibers \cup {Nil}]
      /\ sql' = sql /\ UNCHANGED <<connList, m_FreeConn, m_CurConn, con, lost, initVars>>
  BY <1>1, <1>2 DEF PoolTypeOK
<1>5. reserve' + Cardinality(Busy("pop")') + Cardinality(Busy("sem_post")')
        = reserve + Cardinality(Busy("pop")) + Cardinality(Busy("sem_post"))
  BY <1>1, <1>3, <1>4
<1>6. QED
  BY <1>1, <1>2, <1>4, <1>5, MovesNone

\* A caller that has put its connection back becomes one unit of the semaphore.
LEMMA SemPostKeeps ==
  ASSUME PoolInv, NEW f \in Fibers, sem_post(f)
  PROVE  PoolInv'
<1>1. /\ pc[f] = "sem_post" /\ pc' = [pc EXCEPT ![f] = "out"] /\ reserve' = reserve + 1
      /\ UNCHANGED <<connList, m_FreeConn, m_CurConn, con, lost, initVars, sql, rows, runs>>
  BY DEF sem_post
<1>2. init = "up" /\ PoolTypeOK /\ sql \in [Fibers -> Statements \cup {Nil}]
  BY <1>1, InsideIsUp DEF PoolInv, Borrowed
<1>3. /\ Cardinality(Busy("pop")') = Cardinality(Busy("pop")) /\ Cardinality(Busy("pop")) \in Nat
      /\ Cardinality(Busy("sem_post")') = Cardinality(Busy("sem_post")) - 1 /\ Cardinality(Busy("sem_post")) \in Nat
  <2>1. Alone(f) /\ pc'[f] = "out"
    BY <1>1, <1>2 DEF Alone, PoolTypeOK
  <2>2. QED
    BY <1>1, <2>1, BusyMoves
<1>4. /\ reserve \in Nat /\ reserve' \in Nat /\ rows' \subseteq Names \X Passwords
      /\ runs' \in [Threads -> Fibers \cup {Nil}]
      /\ sql' = sql /\ UNCHANGED <<connList, m_FreeConn, m_CurConn, con, lost, initVars>>
  BY <1>1, <1>2 DEF PoolTypeOK
<1>5. reserve' + Cardinality(Busy("pop")') + Cardinality(Busy("sem_post")')
        = reserve + Cardinality(Busy("pop")) + Cardinality(Busy("sem_post"))
  BY <1>1, <1>3, <1>4
<1>6. QED
  BY <1>1, <1>2, <1>4, <1>5, MovesNone

\* A statement keeps the rows names and passwords.
LEMMA TableTypes ==
  ASSUME rows \subseteq Names \X Passwords, NEW s \in Statements
  PROVE  Table(s) \subseteq Names \X Passwords
<1>1. CASE s \in [op : {"select", "delete"}, name : Names]
  BY <1>1 DEF Table, Of
<1>2. CASE s \in [op : {"insert", "update"}, name : Names, passwd : Passwords]
  BY <1>2 DEF Table, Of
<1>3. CASE s \in [op : {"values", "add"}, rows : SUBSET (Names \X Passwords)]
  BY <1>3 DEF Table
<1>4. QED
  BY <1>1, <1>2, <1>3 DEF Statements

\* A statement that succeeds.
LEMMA QuerySucceedsKeeps ==
  ASSUME PoolInv, NEW f \in Fibers, QuerySucceeds(f)
  PROVE  PoolInv'
<1>1. /\ pc[f] \in {"query", "answer"} /\ pc' = [pc EXCEPT ![f] = "ReleaseConnection"] /\ rows' = Table(sql[f])
      /\ UNCHANGED <<connList, reserve, m_FreeConn, m_CurConn, con, lost, initVars, sql, runs>>
  BY DEF QuerySucceeds, poolVars
<1>2. init = "up" /\ PoolTypeOK /\ sql \in [Fibers -> Statements \cup {Nil}] /\ sql[f] \in Statements
  BY <1>1, InsideIsUp DEF PoolInv, Borrowed
<1>3. /\ Cardinality(Busy("pop")') = Cardinality(Busy("pop"))
      /\ Cardinality(Busy("sem_post")') = Cardinality(Busy("sem_post"))
  <2>1. Alone(f) /\ pc'[f] = "ReleaseConnection"
    BY <1>1, <1>2 DEF Alone, PoolTypeOK
  <2>2. QED
    BY <1>1, <2>1, BusyMoves
<1>4. /\ reserve' \in Nat /\ rows' \subseteq Names \X Passwords /\ runs' \in [Threads -> Fibers \cup {Nil}]
      /\ sql' = sql /\ UNCHANGED <<connList, m_FreeConn, m_CurConn, con, lost, initVars>>
  BY <1>1, <1>2, TableTypes DEF PoolTypeOK
<1>5. QED
  BY <1>1, <1>2, <1>3, <1>4, MovesNone

\* The fiber is suspended in its statement.
LEMMA SuspendKeeps ==
  ASSUME PoolInv, NEW f \in Fibers, Suspend(f)
  PROVE  PoolInv'
<1>1. /\ pc[f] = "query" /\ pc' = [pc EXCEPT ![f] = "answer"]
      /\ runs' = [t \in Threads |-> IF runs[t] = f THEN Nil ELSE runs[t]]
      /\ UNCHANGED <<connList, reserve, m_FreeConn, m_CurConn, con, lost, initVars, sql, rows>>
  BY DEF Suspend, poolVars
<1>2. init = "up" /\ PoolTypeOK /\ sql \in [Fibers -> Statements \cup {Nil}] /\ sql[f] \in Statements
  BY <1>1, InsideIsUp DEF PoolInv, Borrowed
<1>3. /\ Cardinality(Busy("pop")') = Cardinality(Busy("pop"))
      /\ Cardinality(Busy("sem_post")') = Cardinality(Busy("sem_post"))
  <2>1. Alone(f) /\ pc'[f] = "answer"
    BY <1>1, <1>2 DEF Alone, PoolTypeOK
  <2>2. QED
    BY <1>1, <2>1, BusyMoves
<1>4. /\ reserve' \in Nat /\ rows' \subseteq Names \X Passwords /\ runs' \in [Threads -> Fibers \cup {Nil}]
      /\ sql' = sql /\ UNCHANGED <<connList, m_FreeConn, m_CurConn, con, lost, initVars>>
  BY <1>1, <1>2 DEF PoolTypeOK
<1>5. QED
  BY <1>1, <1>2, <1>3, <1>4, MovesNone

\* A call begins.
LEMMA CallKeeps ==
  ASSUME PoolInv, NEW f \in Fibers, NEW s \in Statements, Call(f, s)
  PROVE  PoolInv'
<1>1. /\ init = "up" /\ pc[f] = "out" /\ pc' = [pc EXCEPT ![f] = "GetConnection"] /\ sql' = [sql EXCEPT ![f] = s]
      /\ UNCHANGED <<connList, reserve, m_FreeConn, m_CurConn, con, lost, initVars, rows, runs>>
  BY DEF Call, poolVars
<1>2. PoolTypeOK /\ sql \in [Fibers -> Statements \cup {Nil}]
  BY DEF PoolInv, Borrowed
<1>3. /\ Cardinality(Busy("pop")') = Cardinality(Busy("pop"))
      /\ Cardinality(Busy("sem_post")') = Cardinality(Busy("sem_post"))
  <2>1. Alone(f) /\ pc'[f] = "GetConnection"
    BY <1>1, <1>2 DEF Alone, PoolTypeOK
  <2>2. QED
    BY <1>1, <2>1, BusyMoves
<1>4. /\ reserve' \in Nat /\ rows' \subseteq Names \X Passwords /\ runs' \in [Threads -> Fibers \cup {Nil}]
      /\ UNCHANGED <<connList, m_FreeConn, m_CurConn, con, lost, initVars>>
  BY <1>1, <1>2 DEF PoolTypeOK
<1>5. /\ sql' \in [Fibers -> Statements \cup {Nil}] /\ sql'[f] = s
      /\ \A g \in Fibers : g # f => sql'[g] = sql[g]
  BY <1>1, <1>2
<1>6. QED
  BY <1>1, <1>2, <1>3, <1>4, <1>5, MovesNone

\* The threads take fibers and lose them.
LEMMA ThreadKeeps ==
  ASSUME PoolInv, NEW f \in Fibers, Yield(f) \/ \E t \in Threads : Resume(t, f)
  PROVE  PoolInv'
<1>1. UNCHANGED <<connList, reserve, m_FreeConn, m_CurConn, con, lost, init, inits, opened, closed, pc, sql, rows>>
  BY DEF Yield, Resume, poolVars, initVars
<1>2. runs' \in [Threads -> Fibers \cup {Nil}]
  BY DEF Yield, Resume, PoolInv, PoolTypeOK
<1>3. PoolTypeOK'
  BY <1>1, <1>2 DEF PoolInv, PoolTypeOK
<1>4. QED
  BY <1>1, <1>3 DEF PoolInv, Borrowed, NotUp, Free, LentOnce, Counters, Lent, Busy

\* Whoever is past sem_wait finds a connection.
LEMMA ListNotEmpty ==
  ASSUME PoolInv, NEW f \in Fibers, pc[f] = "pop"
  PROVE  connList # <<>>
<1>1. init = "up"
  BY InsideIsUp
<1>2. IsFiniteSet(Busy("pop")) /\ IsFiniteSet(Busy("sem_post")) /\ f \in Busy("pop")
  <2>1. IsFiniteSet(Fibers) /\ Busy("pop") \subseteq Fibers /\ Busy("sem_post") \subseteq Fibers /\ f \in Busy("pop")
    BY PoolAssumption DEF Busy
  <2>2. QED
    BY <2>1, FS_Subset
<1>3. Cardinality(Busy("pop")) \in Nat /\ Cardinality(Busy("sem_post")) \in Nat /\ Cardinality(Busy("pop")) # 0
  BY <1>2, FS_CardinalityType, FS_EmptySet
<1>4. Len(connList) = reserve + Cardinality(Busy("pop")) + Cardinality(Busy("sem_post")) /\ reserve \in Nat
  BY <1>1 DEF PoolInv, PoolTypeOK, Counters
<1>5. Len(<<>>) = 0
  OBVIOUS
<1>6. QED
  BY <1>3, <1>4, <1>5

\* Under the lock a connection goes from the list to the caller.
LEMMA TakeFrontKeeps ==
  ASSUME PoolInv, NEW f \in Fibers, TakeFront(f)
  PROVE  PoolInv'
<1> DEFINE c == Head(connList)
<1>1. /\ pc[f] = "pop" /\ pc' = [pc EXCEPT ![f] = "query"] /\ connList # <<>>
      /\ con' = [con EXCEPT ![f] = c] /\ connList' = Tail(connList)
      /\ m_FreeConn' = m_FreeConn - 1 /\ m_CurConn' = m_CurConn + 1
      /\ UNCHANGED <<reserve, lost, init, inits, opened, closed, sql, rows, runs>>
  BY DEF TakeFront, initVars
<1>2. init = "up" /\ PoolTypeOK /\ con[f] = Nil
  BY <1>1, InsideIsUp DEF PoolInv, Borrowed
<1>3. /\ c \in 1..opened /\ c \in ToSet(connList) /\ connList' \in Seq(1..opened)
      /\ Len(connList') = Len(connList) - 1 /\ Len(connList) \in Nat /\ Len(connList) > 0
      /\ ToSet(connList)' = ToSet(connList) \ {c} /\ IsInjective(connList)'
  <2>1. connList \in Seq(1..opened) /\ IsInjective(connList)
    BY DEF PoolInv, PoolTypeOK, LentOnce
  <2>2. /\ c \in 1..opened /\ c \in ToSet(connList) /\ connList' \in Seq(1..opened)
        /\ Len(connList') = Len(connList) - 1 /\ Len(connList) \in Nat /\ Len(connList) > 0
        /\ ToSet(Tail(connList)) = ToSet(connList) \ {c} /\ IsInjective(Tail(connList))
    BY <1>1, <2>1, HeadOff
  <2>3. QED
    BY <1>1, <2>2
<1>4. c # Nil /\ c \notin Lent /\ c \notin lost /\ c \notin closed
  BY <1>3, PoolAssumption DEF PoolInv, PoolTypeOK, LentOnce
<1> HIDE DEF c
<1>5. \A g \in Fibers : con'[g] = (IF g = f THEN c ELSE con[g]) /\ pc'[g] = (IF g = f THEN "query" ELSE pc[g])
  BY <1>1, <1>2 DEF PoolTypeOK
<1>6. Lent' = Lent \cup {c}
  BY <1>2, <1>4, <1>5 DEF Lent
<1>7. PoolTypeOK'
  <2>1. con' \in [Fibers -> (1..opened) \cup {Nil}]
    BY <1>1, <1>2, <1>3 DEF PoolTypeOK
  <2>2. pc' \in [Fibers -> {"out", "GetConnection", "sem_wait", "pop", "query", "answer",
                     "ReleaseConnection", "sem_post"}]
    BY <1>1, <1>2 DEF PoolTypeOK
  <2>3. m_FreeConn' \in Nat /\ m_CurConn' \in Nat
    BY <1>1, <1>3 DEF PoolInv, Free, PoolTypeOK
  <2>4. QED
    BY <1>1, <1>2, <1>3, <2>1, <2>2, <2>3 DEF PoolTypeOK
<1>8. Borrowed'
  BY <1>1, <1>4, <1>5 DEF PoolInv, Borrowed
<1>9. NotUp' /\ Free'
  BY <1>1, <1>2, <1>3 DEF PoolInv, NotUp, Free
<1>10. LentOnce'
  <2>1. \A g, h \in Fibers : con'[g] = con'[h] /\ con'[g] # Nil => g = h
    BY <1>4, <1>5 DEF PoolInv, LentOnce, Lent
  <2>2. QED
    BY <1>1, <1>3, <1>4, <1>6, <2>1 DEF PoolInv, LentOnce
<1>11. Counters'
  <2>1. /\ Cardinality(Busy("pop")') = Cardinality(Busy("pop")) - 1 /\ Cardinality(Busy("pop")) \in Nat
        /\ Cardinality(Busy("sem_post")') = Cardinality(Busy("sem_post")) /\ Cardinality(Busy("sem_post")) \in Nat
    <3>1. Alone(f) /\ pc'[f] = "query"
      BY <1>5 DEF Alone
    <3>2. QED
      BY <1>1, <3>1, BusyMoves
  <2>2. /\ Cardinality(Lent') = Cardinality(Lent) + 1
        /\ Cardinality(Lent) \in Nat /\ Cardinality(lost) \in Nat
    BY <1>2, <1>4, <1>6, FiniteConns, FS_AddElement
  <2>3. reserve \in Nat /\ m_FreeConn \in Nat /\ m_CurConn \in Nat
    BY <1>2 DEF PoolTypeOK
  <2>4. /\ Len(connList) = reserve + Cardinality(Busy("pop")) + Cardinality(Busy("sem_post"))
        /\ m_CurConn = Cardinality(Lent) + Cardinality(lost) /\ m_FreeConn + m_CurConn = maxconn
    BY <1>2 DEF PoolInv, Counters
  <2>5. UNCHANGED <<reserve, lost>> /\ m_FreeConn' = m_FreeConn - 1 /\ m_CurConn' = m_CurConn + 1
    BY <1>1
  <2>6. Len(connList') = reserve' + Cardinality(Busy("pop")') + Cardinality(Busy("sem_post")')
    BY <1>3, <2>1, <2>3, <2>4, <2>5
  <2>7. m_CurConn' = Cardinality(Lent') + Cardinality(lost')
    <3>1. Cardinality(lost') = Cardinality(lost)
      BY <2>5
    <3>2. QED
      BY <2>2, <2>4, <2>5, <3>1
  <2>8. m_FreeConn' + m_CurConn' = maxconn
    BY <2>3, <2>4, <2>5
  <2>9. QED
    BY <2>6, <2>7, <2>8 DEF Counters
<1>12. QED
  BY <1>7, <1>8, <1>9, <1>10, <1>11 DEF PoolInv

\* What the caller's giving up of its connection does to the set of the lent ones.
LEMMA GivesUp ==
  ASSUME PoolInv, NEW f \in Fibers, con[f] # Nil, con' = [con EXCEPT ![f] = Nil], UNCHANGED opened
  PROVE  /\ Lent' = Lent \ {con[f]} /\ con[f] \in Lent /\ con[f] \in 1..opened
         /\ Cardinality(Lent') = Cardinality(Lent) - 1 /\ Cardinality(Lent) \in Nat /\ Cardinality(Lent) > 0
         /\ Cardinality(lost) \in Nat
         /\ con' \in [Fibers -> (1..opened) \cup {Nil}]
         /\ \A g \in Fibers : con'[g] = (IF g = f THEN Nil ELSE con[g])
         /\ con[f] \notin ToSet(connList) /\ con[f] \notin lost /\ con[f] \notin closed
<1>1. con \in [Fibers -> (1..opened) \cup {Nil}] /\ PoolTypeOK
  BY DEF PoolInv, PoolTypeOK
<1>2. \A g \in Fibers : con'[g] = (IF g = f THEN Nil ELSE con[g])
  BY <1>1
<1>3. con[f] \in Lent /\ con[f] \in 1..opened
  BY <1>1 DEF Lent
<1>4. \A g \in Fibers : g # f => con[g] # con[f]
  BY DEF PoolInv, LentOnce
<1>5. Lent' = Lent \ {con[f]}
  BY <1>2, <1>4 DEF Lent
<1>6. /\ Cardinality(Lent') = Cardinality(Lent) - 1 /\ Cardinality(Lent) \in Nat /\ Cardinality(Lent) > 0
      /\ Cardinality(lost) \in Nat
  <2>1. IsFiniteSet(Lent) /\ Cardinality(Lent) \in Nat /\ Cardinality(lost) \in Nat
    BY <1>1, FiniteConns
  <2>2. Cardinality(Lent \ {con[f]}) = Cardinality(Lent) - 1 /\ Cardinality(Lent) # 0
    BY <1>3, <2>1, FS_RemoveElement, FS_EmptySet
  <2>3. QED
    BY <1>5, <2>1, <2>2
<1>7. con' \in [Fibers -> (1..opened) \cup {Nil}]
  BY <1>1
<1>8. QED
  BY <1>2, <1>3, <1>5, <1>6, <1>7 DEF PoolInv, LentOnce

\* A failed statement: the connection is lost, and stays counted as lent.
LEMMA QueryFailsKeeps ==
  ASSUME PoolInv, NEW f \in Fibers, QueryFails(f)
  PROVE  PoolInv'
<1> DEFINE c == con[f]
<1>1. /\ pc[f] \in {"query", "answer"} /\ pc' = [pc EXCEPT ![f] = "out"]
      /\ con' = [con EXCEPT ![f] = Nil] /\ lost' = lost \cup {c}
      /\ UNCHANGED <<connList, reserve, m_FreeConn, m_CurConn, init, inits, opened, closed, sql, rows, runs>>
  BY DEF QueryFails, initVars
<1>2. init = "up" /\ PoolTypeOK /\ c # Nil
  BY <1>1, InsideIsUp DEF PoolInv, Borrowed
<1>3. /\ Lent' = Lent \ {c} /\ c \in Lent /\ c \in 1..opened
      /\ Cardinality(Lent') = Cardinality(Lent) - 1 /\ Cardinality(Lent) \in Nat /\ Cardinality(Lent) > 0
      /\ Cardinality(lost) \in Nat
      /\ con' \in [Fibers -> (1..opened) \cup {Nil}]
      /\ \A g \in Fibers : con'[g] = (IF g = f THEN Nil ELSE con[g])
      /\ c \notin ToSet(connList) /\ c \notin lost /\ c \notin closed
  BY <1>1, <1>2, GivesUp
<1>4. \A g \in Fibers : pc'[g] = (IF g = f THEN "out" ELSE pc[g])
  BY <1>1, <1>2 DEF PoolTypeOK
<1>5. PoolTypeOK'
  <2>1. pc' \in [Fibers -> {"out", "GetConnection", "sem_wait", "pop", "query", "answer",
                     "ReleaseConnection", "sem_post"}]
    BY <1>1, <1>2 DEF PoolTypeOK
  <2>2. lost' \subseteq 1..opened
    BY <1>1, <1>2, <1>3 DEF PoolTypeOK
  <2>3. QED
    BY <1>1, <1>2, <1>3, <2>1, <2>2 DEF PoolTypeOK
<1>6. Borrowed'
  BY <1>1, <1>3, <1>4 DEF PoolInv, Borrowed
<1>7. NotUp' /\ Free'
  BY <1>1, <1>2 DEF PoolInv, NotUp, Free
<1>8. LentOnce'
  <2>1. \A g, h \in Fibers : con'[g] = con'[h] /\ con'[g] # Nil => g = h
    BY <1>3 DEF PoolInv, LentOnce
  <2> HIDE DEF c
  <2>2. QED
    BY <1>1, <1>3, <2>1 DEF PoolInv, LentOnce
<1>9. Counters'
  <2>1. /\ Cardinality(Busy("pop")') = Cardinality(Busy("pop"))
        /\ Cardinality(Busy("sem_post")') = Cardinality(Busy("sem_post"))
    <3>1. Alone(f) /\ pc'[f] = "out"
      BY <1>4 DEF Alone
    <3>2. QED
      BY <1>1, <3>1, BusyMoves
  <2> HIDE DEF c
  <2>2. Cardinality(lost') = Cardinality(lost) + 1
    BY <1>1, <1>2, <1>3, FiniteConns, FS_AddElement
  <2>3. QED
    BY <1>1, <1>2, <1>3, <2>1, <2>2 DEF PoolInv, Counters
<1>10. QED
  BY <1>5, <1>6, <1>7, <1>8, <1>9 DEF PoolInv

\* Under the lock a connection goes back to the end of the list.
LEMMA ReleaseConnectionKeeps ==
  ASSUME PoolInv, NEW f \in Fibers, ReleaseConnection(f)
  PROVE  PoolInv'
<1> DEFINE c == con[f]
<1>1. /\ pc[f] = "ReleaseConnection" /\ pc' = [pc EXCEPT ![f] = "sem_post"]
      /\ con' = [con EXCEPT ![f] = Nil] /\ connList' = Append(connList, c)
      /\ m_FreeConn' = m_FreeConn + 1 /\ m_CurConn' = m_CurConn - 1
      /\ UNCHANGED <<reserve, lost, init, inits, opened, closed, sql, rows, runs>>
  BY DEF ReleaseConnection, initVars
<1>2. init = "up" /\ PoolTypeOK /\ c # Nil
  BY <1>1, InsideIsUp DEF PoolInv, Borrowed
<1>3. /\ Lent' = Lent \ {c} /\ c \in Lent /\ c \in 1..opened
      /\ Cardinality(Lent') = Cardinality(Lent) - 1 /\ Cardinality(Lent) \in Nat /\ Cardinality(Lent) > 0
      /\ Cardinality(lost) \in Nat
      /\ con' \in [Fibers -> (1..opened) \cup {Nil}]
      /\ \A g \in Fibers : con'[g] = (IF g = f THEN Nil ELSE con[g])
      /\ c \notin ToSet(connList) /\ c \notin lost /\ c \notin closed
  BY <1>1, <1>2, GivesUp
<1>4. \A g \in Fibers : pc'[g] = (IF g = f THEN "sem_post" ELSE pc[g])
  BY <1>1, <1>2 DEF PoolTypeOK
<1> HIDE DEF c
<1>5. /\ connList' \in Seq(1..opened) /\ Len(connList') = Len(connList) + 1 /\ Len(connList) \in Nat
      /\ ToSet(connList)' = ToSet(connList) \cup {c} /\ IsInjective(connList)'
  <2>1. connList \in Seq(1..opened) /\ IsInjective(connList)
    BY DEF PoolInv, PoolTypeOK, LentOnce
  <2>2. /\ Append(connList, c) \in Seq(1..opened) /\ Len(Append(connList, c)) = Len(connList) + 1
        /\ Len(connList) \in Nat
        /\ ToSet(Append(connList, c)) = ToSet(connList) \cup {c} /\ IsInjective(Append(connList, c))
    <3>1. c \in 1..opened /\ c \notin ToSet(connList)
      BY <1>3
    <3>2. QED
      BY ZenonT(40), <2>1, <3>1, PutBack
  <2>3. QED
    BY <1>1, <2>2
<1>6. m_CurConn = Cardinality(Lent) + Cardinality(lost) /\ m_CurConn > 0
  BY <1>2, <1>3 DEF PoolInv, Counters
<1>7. PoolTypeOK'
  <2>1. pc' \in [Fibers -> {"out", "GetConnection", "sem_wait", "pop", "query", "answer",
                     "ReleaseConnection", "sem_post"}]
    BY <1>1, <1>2 DEF PoolTypeOK
  <2>2. m_FreeConn' \in Nat /\ m_CurConn' \in Nat
    BY <1>1, <1>2, <1>6 DEF PoolTypeOK
  <2>3. QED
    BY <1>1, <1>2, <1>3, <1>5, <2>1, <2>2 DEF PoolTypeOK
<1>8. Borrowed'
  BY <1>1, <1>3, <1>4 DEF PoolInv, Borrowed
<1>9. NotUp' /\ Free'
  BY <1>1, <1>2, <1>5 DEF PoolInv, NotUp, Free
<1>10. LentOnce'
  <2>1. \A g, h \in Fibers : con'[g] = con'[h] /\ con'[g] # Nil => g = h
    BY <1>3 DEF PoolInv, LentOnce
  <2>2. QED
    BY <1>1, <1>3, <1>5, <2>1 DEF PoolInv, LentOnce
<1>11. Counters'
  <2>1. /\ Cardinality(Busy("pop")') = Cardinality(Busy("pop")) /\ Cardinality(Busy("pop")) \in Nat
        /\ Cardinality(Busy("sem_post")') = Cardinality(Busy("sem_post")) + 1 /\ Cardinality(Busy("sem_post")) \in Nat
    <3>1. Alone(f) /\ pc'[f] = "sem_post"
      BY <1>4 DEF Alone
    <3>2. QED
      BY <1>1, <3>1, BusyMoves
  <2>2. reserve \in Nat /\ m_FreeConn \in Nat /\ m_CurConn \in Nat
    BY <1>2 DEF PoolTypeOK
  <2>3. /\ Len(connList) = reserve + Cardinality(Busy("pop")) + Cardinality(Busy("sem_post"))
        /\ m_CurConn = Cardinality(Lent) + Cardinality(lost) /\ m_FreeConn + m_CurConn = maxconn
    BY <1>2 DEF PoolInv, Counters
  <2>4. UNCHANGED <<reserve, lost>> /\ m_FreeConn' = m_FreeConn + 1 /\ m_CurConn' = m_CurConn - 1
    BY <1>1
  <2>5. Len(connList') = reserve' + Cardinality(Busy("pop")') + Cardinality(Busy("sem_post")')
    BY <1>5, <2>1, <2>2, <2>3, <2>4
  <2>6. m_CurConn' = Cardinality(Lent') + Cardinality(lost')
    <3>1. Cardinality(lost') = Cardinality(lost)
      BY <2>4
    <3>2. QED
      BY <1>3, <2>3, <2>4, <3>1
  <2>7. m_FreeConn' + m_CurConn' = maxconn
    BY <2>2, <2>3, <2>4
  <2>8. QED
    BY <2>5, <2>6, <2>7 DEF Counters
<1>12. QED
  BY <1>7, <1>8, <1>9, <1>10, <1>11 DEF PoolInv

-----------------------------------------------------------------------------
(* init.                                                                   *)

\* Without callers nothing is lent and nobody is anywhere.
LEMMA Nobody ==
  ASSUME PoolInv, \A f \in Fibers : pc[f] = "out"
  PROVE  /\ Lent = {} /\ Busy("pop") = {} /\ Busy("sem_post") = {} /\ Cardinality({}) = 0
         /\ \A f \in Fibers : con[f] = Nil
BY FS_EmptySet DEF PoolInv, Borrowed, Lent, Busy

\* The steps of init: the list is closed and emptied, filled one by one, and counted.
LEMMA SetupKeeps ==
  ASSUME PoolInv, Setup
  PROVE  PoolInv'
<1>0. PoolTypeOK /\ connList \in Seq(1..opened) /\ Len(connList) \in Nat
  BY DEF PoolInv, PoolTypeOK
<1>1. CASE InitBegin
  <2>1. /\ \A f \in Fibers : pc[f] = "out" /\ con[f] = Nil
        /\ closed' = closed \cup ToSet(connList) /\ m_FreeConn' = 0 /\ m_CurConn' = 0 /\ connList' = <<>>
        /\ inits < MaxInits /\ init' = "connect" /\ inits' = inits + 1 /\ lost' = {}
        /\ UNCHANGED <<reserve, opened, pc, con, sql, rows, runs>>
    BY <1>1 DEF InitBegin, DestroyPool
  <2>2. Lent' = {} /\ ToSet(connList)' = {} /\ IsInjective(connList)' /\ Len(connList') = 0
    BY <2>1 DEF Lent, ToSet, IsInjective
  <2>3. ToSet(connList) \subseteq 1..opened
    BY <1>0, ListMembers
  <2>4. inits' \in 0..MaxInits
    BY <1>0, <2>1, PoolAssumption DEF PoolTypeOK
  <2>5. PoolTypeOK'
    BY <1>0, <2>1, <2>3, <2>4, EmptySeq DEF PoolTypeOK
  <2>6. Borrowed'
    BY <2>1 DEF PoolInv, Borrowed
  <2>7. NotUp' /\ Free' /\ Counters'
    BY <2>1, <2>2 DEF NotUp, Free, Counters
  <2>8. LentOnce'
    BY <2>1, <2>2 DEF LentOnce
  <2>9. QED
    BY <2>5, <2>6, <2>7, <2>8 DEF PoolInv
<1>2. CASE InitConnect
  <2> DEFINE c == opened + 1
  <2>1. /\ init = "connect" /\ opened' = c /\ connList' = Append(connList, c) /\ m_FreeConn' = m_FreeConn + 1
        /\ UNCHANGED <<reserve, m_CurConn, init, inits, lost, closed, pc, con, sql, rows, runs>>
    BY <1>2 DEF InitConnect
  <2>2. \A f \in Fibers : pc[f] = "out"
    BY <2>1 DEF PoolInv, NotUp
  <2>3. Lent = {} /\ Lent' = {} /\ \A f \in Fibers : con[f] = Nil
    BY <2>1, <2>2, Nobody DEF Lent
  <2>4. opened \in Nat /\ c \in Nat /\ c \in 1..c /\ c \notin 1..opened /\ 1..opened \subseteq 1..c
    BY <1>0 DEF PoolTypeOK
  <2>5. ToSet(connList) \subseteq 1..opened
    BY <1>0, ListMembers
  <2>6. c \notin ToSet(connList) /\ c \notin lost /\ c \notin closed
    BY <1>0, <2>4, <2>5 DEF PoolTypeOK
  <2> HIDE DEF c
  <2>7. connList \in Seq(1..c)
    BY <1>0, <2>4, ListMembers
  <2>8. /\ connList' \in Seq(1..c) /\ Len(connList') = Len(connList) + 1
        /\ ToSet(connList)' = ToSet(connList) \cup {c} /\ IsInjective(connList)'
    <3>1. IsInjective(connList)
      BY DEF PoolInv, LentOnce
    <3>2. /\ Append(connList, c) \in Seq(1..c) /\ Len(Append(connList, c)) = Len(connList) + 1
          /\ ToSet(Append(connList, c)) = ToSet(connList) \cup {c} /\ IsInjective(Append(connList, c))
      BY <2>4, <2>6, <2>7, <3>1, PutBack
    <3>3. QED
      BY <2>1, <3>2
  <2>9. PoolTypeOK'
    <3>1. con' \in [Fibers -> (1..c) \cup {Nil}] /\ lost' \subseteq 1..c /\ closed' \subseteq 1..c
      BY <1>0, <2>1, <2>4 DEF PoolTypeOK
    <3>2. QED
      BY <1>0, <2>1, <2>4, <2>8, <3>1 DEF PoolTypeOK
  <2>10. Borrowed' /\ NotUp'
    BY <2>1 DEF PoolInv, Borrowed, NotUp
  <2>11. Free' /\ Counters'
    BY <2>1, <2>8 DEF PoolInv, Free, Counters
  <2>12. LentOnce'
    BY <2>1, <2>3, <2>6, <2>8 DEF PoolInv, LentOnce
  <2>13. QED
    BY <2>9, <2>10, <2>11, <2>12 DEF PoolInv
<1>3. CASE InitFails
  <2>1. /\ init = "connect" /\ init' = "exit"
        /\ UNCHANGED <<connList, reserve, m_FreeConn, m_CurConn, con, lost, inits, opened, closed, pc, sql, rows, runs>>
    BY <1>3 DEF InitFails, poolVars
  <2>2. PoolTypeOK' /\ Lent' = Lent
    BY <1>0, <2>1 DEF PoolTypeOK, Lent
  <2>3. QED
    BY <2>1, <2>2 DEF PoolInv, Borrowed, NotUp, Free, Counters, LentOnce
<1>4. CASE InitReserve
  <2>1. /\ init = "connect" /\ m_FreeConn = maxconn /\ reserve' = m_FreeConn /\ init' = "up"
        /\ UNCHANGED <<connList, m_FreeConn, m_CurConn, con, lost, inits, opened, closed, pc, sql, rows, runs>>
    BY <1>4 DEF InitReserve
  <2>2. \A f \in Fibers : pc[f] = "out"
    BY <2>1 DEF PoolInv, NotUp
  <2>3. /\ Lent = {} /\ Busy("pop") = {} /\ Busy("sem_post") = {} /\ Cardinality({}) = 0
        /\ Lent' = {} /\ Busy("pop")' = {} /\ Busy("sem_post")' = {}
    BY <2>1, <2>2, Nobody DEF Lent, Busy
  <2>4. PoolTypeOK'
    BY <1>0, <2>1, PoolAssumption DEF PoolTypeOK
  <2>5. Borrowed' /\ NotUp' /\ Free' /\ LentOnce'
    BY <2>1, <2>3 DEF PoolInv, Borrowed, NotUp, Free, LentOnce
  <2>6. Counters'
    <3>1. lost' = {} /\ m_CurConn' = 0 /\ m_FreeConn' \in Nat /\ reserve' = Len(connList') /\ m_FreeConn' = maxconn
      BY <1>0, <2>1, PoolAssumption DEF PoolInv, NotUp, Free
    <3>2. Len(connList') \in Nat
      BY <1>0, <2>1
    <3>3. Cardinality(Lent') = 0 /\ Cardinality(lost') = 0 /\ Cardinality(Busy("pop")') = 0 /\ Cardinality(Busy("sem_post")') = 0
      BY <2>3, <3>1
    <3>4. QED
      BY <3>1, <3>2, <3>3, PoolAssumption DEF Counters
  <2>7. QED
    BY <2>4, <2>5, <2>6 DEF PoolInv
<1>5. QED
  BY <1>1, <1>2, <1>3, <1>4 DEF Setup

-----------------------------------------------------------------------------
(* The pool under any callers.                                             *)

\* The pool starts in its invariant: everything free, nothing lent.
LEMMA PoolInitHolds == PoolInit => PoolInv
<1> SUFFICES ASSUME PoolInit PROVE PoolInv
  OBVIOUS
<1>1. Lent = {} /\ ToSet(connList) = {} /\ IsInjective(connList) /\ Len(connList) = 0
  BY DEF PoolInit, Lent, ToSet, IsInjective
<1>2. PoolTypeOK
  BY PoolAssumption, EmptySeq DEF PoolInit, PoolTypeOK
<1>3. QED
  BY <1>1, <1>2 DEF PoolInit, PoolInv, Borrowed, NotUp, Free, LentOnce, Counters

\* The invariant of the pool depends on the variables of the pool only.
LEMMA PoolStutters ==
  ASSUME PoolInv, UNCHANGED allPoolVars
  PROVE  PoolInv'
<1>1. UNCHANGED <<connList, reserve, m_FreeConn, m_CurConn, con, lost, init, inits, opened, closed, pc, sql, rows, runs>>
  BY DEF allPoolVars, poolVars, initVars
<1>2. PoolTypeOK' /\ Lent' = Lent /\ Busy("pop")' = Busy("pop") /\ Busy("sem_post")' = Busy("sem_post")
  BY <1>1 DEF PoolInv, PoolTypeOK, Lent, Busy
<1>3. QED
  BY <1>1, <1>2 DEF PoolInv, Borrowed, NotUp, Free, Counters, LentOnce

\* Every operation of the pool keeps its invariant.
LEMMA PoolStepKeeps ==
  ASSUME PoolInv, [PoolNext]_allPoolVars
  PROVE  PoolInv'
<1>1. CASE UNCHANGED allPoolVars
  BY <1>1, PoolStutters
<1>2. CASE Setup
  BY <1>2, SetupKeeps
<1>3. ASSUME NEW f \in Fibers, PoolStep(f)
      PROVE  PoolInv'
  BY <1>3, GetConnectionKeeps, SemWaitKeeps, TakeFrontKeeps, QuerySucceedsKeeps, QueryFailsKeeps,
     ReleaseConnectionKeeps, SemPostKeeps DEF PoolStep
<1>4. ASSUME NEW f \in Fibers, Suspend(f)
      PROVE  PoolInv'
  BY <1>4, SuspendKeeps
<1>5. ASSUME NEW f \in Fibers, NEW s \in Statements, Call(f, s)
      PROVE  PoolInv'
  BY <1>5, CallKeeps
<1>6. ASSUME NEW f \in Fibers, Yield(f) \/ \E t \in Threads : Resume(t, f)
      PROVE  PoolInv'
  BY <1>6, ThreadKeeps
<1>7. QED
  BY <1>1, <1>2, <1>3, <1>4, <1>5, <1>6 DEF PoolNext

\* The invariant of the pool holds always.
LEMMA PoolInvariant == PoolSpec => []PoolInv
<1>1. PoolInv /\ [PoolNext]_allPoolVars => PoolInv'
  BY PoolStepKeeps
<1>2. QED
  BY <1>1, PoolInitHolds, PTL DEF PoolSpec

\* The invariant says what the two properties say.
LEMMA PoolSays == PoolInv => CountersExact /\ LentOnce
BY DEF PoolInv, CountersExact, Counters, Free

\* Whatever the callers do: the semaphore, the list and the two counters of Mysql_pool tell the same
\* number, so that pop_front never meets an empty list (mysql_pool.cc:43-47, 60-68, 122).
THEOREM CountersAreExact == PoolSpec => []CountersExact
BY PoolInvariant, PoolSays, PTL

\* Whatever the callers do: no connection is with two of them, or lent and in the list, or closed
\* and still used (mysql_pool.cc:46, 61, 81).
THEOREM ConnectionsAreLentOnce == PoolSpec => []LentOnce
BY PoolInvariant, PoolSays, PTL

-----------------------------------------------------------------------------
(* The routes.                                                             *)

\* A dispatcher is a record of its three fields.
IsDispatch(d) == d = [datas |-> d.datas, globs |-> d.globs, default |-> d.default]

\* A path that is added gets its servlet, and every other one what it had.
LEMMA AddedRoute ==
  ASSUME NEW d, IsDispatch(d), NEW uri, NEW slt
  PROVE  /\ IsDispatch(addServlet(d, uri, slt))
         /\ \A path, F : getMatchedServlet(addServlet(d, uri, slt), path, F) =
                           IF path = uri THEN slt ELSE getMatchedServlet(d, path, F)
<1> DEFINE D == [u \in DOMAIN d.datas \cup {uri} |-> IF u = uri THEN slt ELSE d.datas[u]]
           e == addServlet(d, uri, slt)
<1>1. e = [datas |-> D, globs |-> d.globs, default |-> d.default]
  <2>1. e = [d EXCEPT !.datas = D]
    BY DEF addServlet
  <2> HIDE DEF D, e
  <2>2. ASSUME NEW a, NEW g, NEW z, d = [datas |-> a, globs |-> g, default |-> z]
        PROVE  [d EXCEPT !.datas = D] = [datas |-> D, globs |-> g, default |-> z]
    BY <2>2
  <2>3. QED
    BY <2>1, <2>2 DEF IsDispatch
<1>2. e.datas = D /\ e.globs = d.globs /\ e.default = d.default
  BY <1>1
<1>3. IsDispatch(e)
  BY <1>1, <1>2 DEF IsDispatch
<1>4. \A path : /\ path \in DOMAIN D <=> path = uri \/ path \in DOMAIN d.datas
                /\ path \in DOMAIN D => D[path] = IF path = uri THEN slt ELSE d.datas[path]
  OBVIOUS
<1> HIDE DEF D, e
<1>5. ASSUME NEW path, NEW F
      PROVE  getMatchedServlet(e, path, F) = IF path = uri THEN slt ELSE getMatchedServlet(d, path, F)
  BY <1>2, <1>4 DEF getMatchedServlet
<1>6. QED
  BY <1>3, <1>5 DEF e

\* The dispatcher with the glob alone.
LEMMA GlobRoute ==
  LET d == addGlobServlet(ServletDispatch, "/*", "main_page")
  IN  /\ IsDispatch(d)
      /\ \A path, F : getMatchedServlet(d, path, F) = IF <<"/*", path>> \in F THEN "main_page" ELSE "NotFoundServlet"
<1> DEFINE d == addGlobServlet(ServletDispatch, "/*", "main_page")
           g == << <<"/*", "main_page">> >>
<1>1. delGlobServlet(ServletDispatch, "/*") = ServletDispatch
  BY DEF delGlobServlet, ServletDispatch
<1>2. d = [datas |-> <<>>, globs |-> g, default |-> "NotFoundServlet"]
  BY <1>1 DEF addGlobServlet, ServletDispatch
<1>3. d.datas = <<>> /\ d.globs = g /\ d.default = "NotFoundServlet" /\ IsDispatch(d)
  BY <1>2 DEF IsDispatch
<1>4. DOMAIN <<>> = {} /\ 1..Len(g) = {1} /\ g[1][1] = "/*" /\ g[1][2] = "main_page"
  OBVIOUS
<1> HIDE DEF d, g
<1>5. ASSUME NEW path, NEW F
      PROVE  getMatchedServlet(d, path, F) = IF <<"/*", path>> \in F THEN "main_page" ELSE "NotFoundServlet"
  <2> DEFINE hits == {i \in 1..Len(g) : <<g[i][1], path>> \in F}
  <2>1. getMatchedServlet(d, path, F) = IF hits # {} THEN g[Min(hits)][2] ELSE "NotFoundServlet"
    BY <1>3, <1>4 DEF getMatchedServlet
  <2>2. hits = IF <<"/*", path>> \in F THEN {1} ELSE {}
    BY <1>4
  <2>3. Min({1}) = 1
    BY DEF Min
  <2>4. QED
    BY <1>4, <2>1, <2>2, <2>3
<1>6. QED
  BY <1>3, <1>5 DEF d

\* The servlets of the pages that are only a file.
FileServlets == {"main_page", "register_page", "log_page", "picture_1_page", "video_1_page",
                 "picture_1_resource", "video_1_resource", "favicon_1_resource"}

\* What the dispatcher of the application finds.
LEMMA Routed ==
  ASSUME NEW q \in Requests
  PROVE  LET slt == getMatchedServlet(m_dispatch, q.path, Fnmatch)
         IN  /\ slt \in FileServlets \cup {"NotFoundServlet", "echo", "check_register_page", "check_log_page"}
             /\ slt = "check_register_page" <=> q.path = "/check_register"
             /\ slt = "check_log_page" <=> q.path = "/check_log"
             /\ slt = "NotFoundServlet" <=> q.path = "*"
             /\ slt = "picture_1_resource" <=> q.path = "/picture/xxx.jpg"
<1> DEFINE d0 == addGlobServlet(ServletDispatch, "/*", "main_page")
           d1 == addServlet(d0, "/gxh/xx", "echo")
           d2 == addServlet(d1, "/", "main_page")
           d3 == addServlet(d2, "/register", "register_page")
           d4 == addServlet(d3, "/log", "log_page")
           d5 == addServlet(d4, "/check_register", "check_register_page")
           d6 == addServlet(d5, "/check_log", "check_log_page")
           d7 == addServlet(d6, "/picture/1", "picture_1_page")
           d8 == addServlet(d7, "/video/1", "video_1_page")
           d9 == addServlet(d8, "/video/xxx.mp4", "video_1_resource")
           d10 == addServlet(d9, "/picture/xxx.jpg", "picture_1_resource")
           d11 == addServlet(d10, "/favicon.ico", "favicon_1_resource")
           M(d) == getMatchedServlet(d, q.path, Fnmatch)
<1>0. m_dispatch = d11
  BY DEF m_dispatch
<1>1. <<"/*", q.path>> \in Fnmatch <=> q.path # "*"
  BY DEF Fnmatch
<1>2. IsDispatch(d0) /\ M(d0) = IF q.path # "*" THEN "main_page" ELSE "NotFoundServlet"
  BY <1>1, GlobRoute
<1> HIDE DEF d0
<1>3. IsDispatch(d1) /\ M(d1) = IF q.path = "/gxh/xx" THEN "echo" ELSE M(d0)
  BY <1>2, AddedRoute
<1> HIDE DEF d1
<1>4. IsDispatch(d2) /\ M(d2) = IF q.path = "/" THEN "main_page" ELSE M(d1)
  BY <1>3, AddedRoute
<1> HIDE DEF d2
<1>5. IsDispatch(d3) /\ M(d3) = IF q.path = "/register" THEN "register_page" ELSE M(d2)
  BY <1>4, AddedRoute
<1> HIDE DEF d3
<1>6. IsDispatch(d4) /\ M(d4) = IF q.path = "/log" THEN "log_page" ELSE M(d3)
  BY <1>5, AddedRoute
<1> HIDE DEF d4
<1>7. IsDispatch(d5) /\ M(d5) = IF q.path = "/check_register" THEN "check_register_page" ELSE M(d4)
  BY <1>6, AddedRoute
<1> HIDE DEF d5
<1>8. IsDispatch(d6) /\ M(d6) = IF q.path = "/check_log" THEN "check_log_page" ELSE M(d5)
  BY <1>7, AddedRoute
<1> HIDE DEF d6
<1>9. IsDispatch(d7) /\ M(d7) = IF q.path = "/picture/1" THEN "picture_1_page" ELSE M(d6)
  BY <1>8, AddedRoute
<1> HIDE DEF d7
<1>10. IsDispatch(d8) /\ M(d8) = IF q.path = "/video/1" THEN "video_1_page" ELSE M(d7)
  BY <1>9, AddedRoute
<1> HIDE DEF d8
<1>11. IsDispatch(d9) /\ M(d9) = IF q.path = "/video/xxx.mp4" THEN "video_1_resource" ELSE M(d8)
  BY <1>10, AddedRoute
<1> HIDE DEF d9
<1>12. IsDispatch(d10) /\ M(d10) = IF q.path = "/picture/xxx.jpg" THEN "picture_1_resource" ELSE M(d9)
  BY <1>11, AddedRoute
<1> HIDE DEF d10
<1>13. M(d11) = IF q.path = "/favicon.ico" THEN "favicon_1_resource" ELSE M(d10)
  BY <1>12, AddedRoute
<1> HIDE DEF d11, M
<1>14. M(m_dispatch) = M(d11)
  BY <1>0
<1>15. QED
  BY <1>2, <1>3, <1>4, <1>5, <1>6, <1>7, <1>8, <1>9, <1>10, <1>11, <1>12, <1>13, <1>14 DEF M, FileServlets

-----------------------------------------------------------------------------
(* The invariant of the application.                                       *)

\* The statement is over: what the call returned is in res.
Finished(f) == pc[f] \in {"ReleaseConnection", "sem_post", "out"}

Pair(q) == <<q.user, q.password>>

\* Neither the name nor the password changes the statement it is put into.
Plain(q) == {q.user, q.password} \cap Quoting = {}

\* The table has the row, or the name has a quote.
Known(q) == Pair(q) \in rows \/ q.user \in Quoting

Asks(f, path) == req[f] \in [asks : Requests, known : BOOLEAN] /\ req[f].asks.path = path

\* Waiting for the names: if there is none, there was none when the request came.
RegSelect(f) ==
  page[f] = "reg_select" =>
    /\ Asks(f, "/check_register") /\ (pc[f] # "out" => sql[f] \in Select(req[f].asks.user))
    /\ req[f].known => Of(req[f].asks.user) # {}
    /\ Finished(f) /\ res[f].ok /\ res[f].rows = {} => ~req[f].known \/ ~Plain(req[f].asks)

\* Waiting for the new row: it is there when the statement has succeeded.
RegInsert(f) ==
  page[f] = "reg_insert" =>
    /\ Asks(f, "/check_register") /\ (pc[f] # "out" => sql[f] \in InsertUser(req[f].asks))
    /\ ~req[f].known \/ ~Plain(req[f].asks)
    /\ Finished(f) /\ res[f].ok => Pair(req[f].asks) \in rows \/ ~Plain(req[f].asks)

\* Waiting for the password: the rows found are the user's, and still in the table.
LogSelect(f) ==
  page[f] = "log_select" =>
    /\ Asks(f, "/check_log") /\ (pc[f] # "out" => sql[f] \in Select(req[f].asks.user))
    /\ Finished(f) /\ res[f].ok => res[f].rows \subseteq Of(req[f].asks.user) \/ req[f].asks.user \in Quoting

\* AnswersAreEarned, of one fiber.
Earned(f) ==
  /\ Shown(f, "welcome") => Known(req[f].asks)
  /\ Shown(f, "log") /\ req[f].asks.path = "/check_register" =>
       (Pair(req[f].asks) \in rows /\ ~req[f].known) \/ ~Plain(req[f].asks)
  /\ page[f] = "send" =>
       /\ Shown(f, "welcome") => req[f].asks.path = "/check_log"
       /\ Shown(f, "registerError") => req[f].asks.path = "/check_register"
       /\ rsp[f].status = 404 <=> req[f].asks.path = "*"
       /\ Shown(f, "jpg") <=> req[f].asks.path = "/picture/xxx.jpg" /\ "jpg" \in Files

SessionOK(f) == RegSelect(f) /\ RegInsert(f) /\ LogSelect(f) /\ Earned(f)

\* Who is logged in has a row of the table, and a timer.
Logged == \A u \in Names : m_userpass[u] # Nil => (<<u, m_userpass[u]>> \in rows \/ u \in Quoting) /\ timers[u] > 0

\* The statements of the application never take a row from the table.
Growing == \A f \in Fibers : pc[f] # "out" => sql[f].op \in {"select", "insert", "values", "add"}

WebTypes ==
  /\ page \in [Fibers -> {"recv", "reg_select", "reg_insert", "log_select", "send", "closed"}]
  /\ m_userpass \in [Names -> Passwords \cup {Nil}] /\ timers \in [Names -> Nat]
  /\ res \in [Fibers -> [ok : BOOLEAN, rows : SUBSET (Names \X Passwords)]]
  /\ req \in [Fibers -> [asks : Requests, known : BOOLEAN] \cup {Nil}]
  /\ rsp = [f \in Fibers |-> rsp[f]]

WebInv == PoolInv /\ WebTypes /\ Growing /\ Logged /\ \A f \in Fibers : SessionOK(f)

-----------------------------------------------------------------------------
(* The application is a user of the pool.                                  *)

\* The forms of a request are statements of the database.
LEMMA Forms ==
  ASSUME NEW q \in Requests
  PROVE  /\ q.user \in Names /\ q.password \in Passwords /\ Pair(q) \in Names \X Passwords
         /\ \A s \in Select(q.user) : s \in Statements /\ s.op \in {"select", "values"}
         /\ \A s \in InsertUser(q) : s \in Statements /\ s.op \in {"insert", "add"}
<1>1. q.user \in Names /\ q.password \in Passwords /\ Pair(q) \in Names \X Passwords
  BY WebAssumption DEF Pair
<1>2. \A s \in Select(q.user) : s \in Statements /\ s.op \in {"select", "values"}
  BY <1>1, WebAssumption DEF Select, Statements
<1>3. \A s \in InsertUser(q) : s \in Statements /\ s.op \in {"insert", "add"}
  BY <1>1, WebAssumption DEF InsertUser, Statements
<1>4. QED
  BY <1>1, <1>2, <1>3

\* Every step of the web server is, for the pool, an operation of the pool or no step.
LEMMA UsesThePool ==
  ASSUME WebInv, [Next]_vars
  PROVE  [PoolNext]_allPoolVars
<1>1. CASE UNCHANGED vars
  BY <1>1 DEF vars
<1>2. CASE Setup /\ UNCHANGED webVars
  BY <1>2 DEF PoolNext
<1>3. ASSUME NEW f \in Fibers, NEW q \in Requests, HandleRequest(f, q)
      PROVE  [PoolNext]_allPoolVars
  BY <1>3, Forms DEF HandleRequest, check_register_page, check_log_page, StaticPage, Ask, PoolNext
<1>4. ASSUME NEW f \in Fibers, RegisterSelected(f)
      PROVE  [PoolNext]_allPoolVars
  <2>1. page[f] = "reg_select" /\ req[f].asks \in Requests
    BY <1>4 DEF RegisterSelected, Back, WebInv, SessionOK, RegSelect, Asks
  <2>2. \A s \in InsertUser(req[f].asks) : s \in Statements
    BY <2>1, Forms
  <2>3. QED
    BY <1>4, <2>2 DEF RegisterSelected, Ask, PoolNext
<1>5. ASSUME NEW f \in Fibers, \/ RecvFails(f) \/ RegisterInserted(f) \/ LogSelected(f) \/ SendResponse(f)
      PROVE  [PoolNext]_allPoolVars
  BY <1>5 DEF RecvFails, RegisterInserted, LogSelected, SendResponse
<1>6. ASSUME NEW f \in Fibers, LeaveThread(f) \/ Suspend(f) \/ PoolStep(f) \/ \E t \in Threads : Wake(t, f)
      PROVE  [PoolNext]_allPoolVars
  BY <1>6 DEF LeaveThread, Wake, PoolNext
<1>7. ASSUME NEW u \in Names, Expire(u)
      PROVE  [PoolNext]_allPoolVars
  BY <1>7 DEF Expire
<1>8. CASE Done
  BY <1>8 DEF Done, vars
<1>9. QED
  BY <1>1, <1>2, <1>3, <1>4, <1>5, <1>6, <1>7, <1>8 DEF Next, Handler

-----------------------------------------------------------------------------
(* A handler that another fiber's step leaves alone.                       *)

\* What holds of a handler depends on its own state and on rows that stay.
LEMMA Untouched ==
  ASSUME NEW f \in Fibers, SessionOK(f), rows \subseteq rows',
         page'[f] = page[f], req'[f] = req[f], rsp'[f] = rsp[f],
         sql'[f] = sql[f], pc'[f] = pc[f], res'[f] = res[f]
  PROVE  SessionOK(f)'
<1>1. Shown(f, "welcome")' = Shown(f, "welcome") /\ Shown(f, "log")' = Shown(f, "log")
      /\ Shown(f, "registerError")' = Shown(f, "registerError") /\ Shown(f, "jpg")' = Shown(f, "jpg")
  BY DEF Shown
<1>2. Earned(f)'
  BY <1>1 DEF SessionOK, Earned, Known
<1>3. \A n : Of(n) \subseteq Of(n)'
  BY DEF Of
<1>4. RegSelect(f)'
  BY <1>3 DEF SessionOK, RegSelect, Asks, Finished
<1>5. RegInsert(f)'
  BY DEF SessionOK, RegInsert, Asks, Finished
<1>6. LogSelect(f)'
  BY <1>3 DEF SessionOK, LogSelect, Asks, Finished
<1>7. QED
  BY <1>2, <1>4, <1>5, <1>6 DEF SessionOK

\* Who is logged in stays in a table that only grows.
LEMMA StillLogged ==
  ASSUME Logged, rows \subseteq rows', UNCHANGED <<m_userpass, timers>>
  PROVE  Logged'
BY DEF Logged

\* A handler that answers nothing and waits for nothing.
LEMMA AtRest ==
  ASSUME NEW f \in Fibers, page'[f] \in {"recv", "closed"}
  PROVE  SessionOK(f)'
BY DEF SessionOK, RegSelect, RegInsert, LogSelect, Earned, Shown

-----------------------------------------------------------------------------
(* A step of the pool under a handler.                                     *)

\* The statements of the application only add rows.
LEMMA RowsGrow ==
  ASSUME WebInv, NEW f \in Fibers, QuerySucceeds(f)
  PROVE  /\ rows \subseteq rows' /\ rows' = Table(sql[f])
         /\ sql[f].op = "insert" => <<sql[f].name, sql[f].passwd>> \in rows'
<1>1. sql[f].op \in {"select", "insert", "values", "add"} /\ rows' = Table(sql[f])
  BY DEF QuerySucceeds, WebInv, Growing
<1>2. QED
  BY <1>1 DEF Table

\* The four ways in which a step of the pool matters to the handler that waits for it.
LEMMA PoolMoves ==
  ASSUME WebInv, NEW f \in Fibers, PoolStep(f) \/ Suspend(f)
  PROVE  /\ UNCHANGED sql /\ \A g \in Fibers : g # f => pc'[g] = pc[g] /\ res'[g] = res[g]
         /\ res' \in [Fibers -> [ok : BOOLEAN, rows : SUBSET (Names \X Passwords)]]
         /\ rows \subseteq rows' /\ pc[f] # "out"
         /\ \/ ~Finished(f)'
            \/ res'[f] = Failed
            \/ Finished(f) /\ res'[f] = res[f]
            \/ QuerySucceeds(f)
<1>1. /\ pc \in [Fibers -> {"out", "GetConnection", "sem_wait", "pop", "query", "answer",
                     "ReleaseConnection", "sem_post"}]
      /\ res \in [Fibers -> [ok : BOOLEAN, rows : SUBSET (Names \X Passwords)]]
      /\ rows \subseteq Names \X Passwords
  BY DEF WebInv, PoolInv, PoolTypeOK, WebTypes
<1>2. Failed \in [ok : BOOLEAN, rows : SUBSET (Names \X Passwords)]
  BY DEF Failed
<1>3. CASE GetConnection(f)
  BY <1>1, <1>2, <1>3 DEF GetConnection, Finished
<1>4. CASE sem_wait(f)
  BY <1>1, <1>4 DEF sem_wait, Finished
<1>5. CASE TakeFront(f)
  BY <1>1, <1>5 DEF TakeFront, Finished
<1>6. CASE QuerySucceeds(f)
  <2>1. sql[f] \in Statements
    BY <1>6 DEF QuerySucceeds, WebInv, PoolInv, Borrowed
  <2>3. Found(sql[f]) \subseteq Names \X Passwords
    BY <1>1, <2>1 DEF Found, Of, Statements
  <2>4. Succeeded(Found(sql[f])) \in [ok : BOOLEAN, rows : SUBSET (Names \X Passwords)]
    BY <2>3 DEF Succeeded
  <2>2. QED
    BY <1>1, <1>6, <2>4, RowsGrow DEF QuerySucceeds
<1>7. CASE QueryFails(f)
  BY <1>1, <1>2, <1>7 DEF QueryFails
<1>8. CASE ReleaseConnection(f)
  BY <1>1, <1>8 DEF ReleaseConnection, Finished
<1>9. CASE sem_post(f)
  BY <1>1, <1>9 DEF sem_post, Finished
<1>10. CASE Suspend(f)
  BY <1>1, <1>10 DEF Suspend, Finished
<1>11. QED
  BY <1>3, <1>4, <1>5, <1>6, <1>7, <1>8, <1>9, <1>10 DEF PoolStep

\* The invariant without the pool's part.
AppInv == WebTypes /\ Growing /\ Logged /\ \A f \in Fibers : SessionOK(f)

\* A step inside the pool keeps what the invariant says of users and sessions.
LEMMA PoolStepApp ==
  ASSUME WebInv, NEW f \in Fibers, PoolStep(f) \/ Suspend(f), UNCHANGED webVars
  PROVE  AppInv'
<1>1. /\ UNCHANGED <<page, req, rsp, m_userpass, timers>>
      /\ UNCHANGED sql /\ \A g \in Fibers : g # f => pc'[g] = pc[g] /\ res'[g] = res[g]
      /\ res' \in [Fibers -> [ok : BOOLEAN, rows : SUBSET (Names \X Passwords)]]
      /\ rows \subseteq rows' /\ pc[f] # "out"
  BY PoolMoves DEF webVars
<1>2. WebTypes'
  BY <1>1 DEF WebInv, WebTypes
<1>3. Growing'
  BY <1>1 DEF WebInv, Growing
<1>4. Logged'
  BY <1>1, StillLogged DEF WebInv
<1>5. ASSUME NEW g \in Fibers, g # f
      PROVE  SessionOK(g)'
  BY <1>1, <1>5, Untouched DEF WebInv
<1>6. SessionOK(f) /\ \A n : Of(n) \subseteq Of(n)'
  BY <1>1 DEF WebInv, Of
<1>7. Earned(f)'
  BY <1>1, <1>6 DEF SessionOK, Earned, Shown, Known
<1>8. RegSelect(f)' /\ RegInsert(f)' /\ LogSelect(f)'
  <2>1. CASE ~Finished(f)'
    BY <1>1, <1>6, <2>1 DEF SessionOK, RegSelect, RegInsert, LogSelect, Asks
  <2>2. CASE res'[f] = Failed
    <3>1. ~res'[f].ok
      BY <2>2 DEF Failed
    <3>2. QED
      BY <1>1, <1>6, <3>1 DEF SessionOK, RegSelect, RegInsert, LogSelect, Asks
  <2>3. CASE Finished(f) /\ res'[f] = res[f]
    BY <1>1, <1>6, <2>3 DEF SessionOK, RegSelect, RegInsert, LogSelect, Asks
  <2>4. CASE QuerySucceeds(f)
    <3>1. res'[f].ok /\ res'[f].rows = Found(sql[f])
      BY <2>4 DEF QuerySucceeds, Succeeded, WebInv, WebTypes
    <3>a. ASSUME NEW u, u \notin Quoting, sql[f] \in Select(u)
          PROVE  res'[f].rows = Of(u)
      BY <3>1, <3>a DEF Select, Found
    <3>2. RegSelect(f)'
      <4>1. CASE page[f] = "reg_select"
        <5>1. Asks(f, "/check_register") /\ sql[f] \in Select(req[f].asks.user) /\ (req[f].known => Of(req[f].asks.user) # {})
          BY <1>1, <1>6, <4>1 DEF SessionOK, RegSelect
        <5>2. req[f].asks.user \in Quoting => ~Plain(req[f].asks)
          BY DEF Plain
        <5>3. res'[f].rows = {} => ~req[f].known \/ ~Plain(req[f].asks)
          BY <3>a, <5>1, <5>2
        <5>4. QED
          BY <1>1, <1>6, <5>1, <5>3 DEF RegSelect, Asks, Plain
      <4>2. QED
        BY <1>1, <4>1 DEF RegSelect
    <3>3. RegInsert(f)'
      <4>1. CASE page[f] = "reg_insert"
        <5>1. /\ Asks(f, "/check_register") /\ sql[f] \in InsertUser(req[f].asks)
              /\ ~req[f].known \/ ~Plain(req[f].asks)
          BY <1>1, <1>6, <4>1 DEF SessionOK, RegInsert
        <5>2. Plain(req[f].asks) => Pair(req[f].asks) \in rows'
          BY <2>4, <5>1, RowsGrow DEF Plain, InsertUser, Pair
        <5>3. QED
          BY <1>1, <5>1, <5>2 DEF RegInsert, Asks, Plain, Pair
      <4>2. QED
        BY <1>1, <4>1 DEF RegInsert
    <3>4. LogSelect(f)'
      <4>1. CASE page[f] = "log_select"
        <5>1. Asks(f, "/check_log") /\ sql[f] \in Select(req[f].asks.user)
          BY <1>1, <1>6, <4>1 DEF SessionOK, LogSelect
        <5>2. res'[f].rows \subseteq Of(req[f].asks.user)' \/ req[f].asks.user \in Quoting
          BY <1>1, <1>6, <3>a, <5>1 DEF Of
        <5>3. QED
          BY <1>1, <5>1, <5>2 DEF LogSelect, Asks
      <4>2. QED
        BY <1>1, <4>1 DEF LogSelect
    <3>5. QED
      BY <3>2, <3>3, <3>4
  <2>5. QED
    BY <2>1, <2>2, <2>3, <2>4, PoolMoves
<1>9. SessionOK(f)'
  BY <1>7, <1>8 DEF SessionOK
<1>10. QED
  BY <1>2, <1>3, <1>4, <1>5, <1>9 DEF AppInv

-----------------------------------------------------------------------------
(* The steps of the handlers.                                              *)

\* A page that is shown is the file that was read.
LEMMA BodyShows ==
  ASSUME NEW file, NEW shown \in Files, shown # "empty", Body(file) = Body(shown)
  PROVE  file = shown
<1>1. Body(file).body = (IF file \in Files THEN file ELSE "empty") /\ Body(shown).body = shown
  BY DEF Body
<1>2. QED
  BY <1>1

\* When a handler may answer with a file.
LEMMA Answers ==
  ASSUME NEW f \in Fibers, NEW file, page'[f] = "send", rsp'[f] = Body(file),
         file = "welcome" => Known(req[f].asks)' /\ req'[f].asks.path = "/check_log",
         file = "log" /\ req'[f].asks.path = "/check_register" =>
           (Pair(req'[f].asks) \in rows' /\ ~req'[f].known) \/ ~Plain(req'[f].asks),
         file = "registerError" => req'[f].asks.path = "/check_register",
         req'[f].asks.path # "*", file = "jpg" <=> req'[f].asks.path = "/picture/xxx.jpg"
  PROVE  SessionOK(f)'
<1>1. \A x \in {"welcome", "log", "registerError", "jpg"} : Shown(f, x)' <=> file = x /\ x \in Files
  BY BodyShows DEF Shown
<1>2. rsp'[f].status = 200
  BY DEF Body
<1>3. Earned(f)'
  BY <1>1, <1>2 DEF Earned
<1>4. QED
  BY <1>3 DEF SessionOK, RegSelect, RegInsert, LogSelect

\* A handler that makes a statement, and everyone else.
LEMMA AskApp ==
  ASSUME WebInv, NEW f \in Fibers, NEW S, NEW w, Ask(f, S, w),
         \A s \in S : s.op \in {"select", "insert", "values", "add"}
  PROVE  /\ Growing' /\ UNCHANGED <<rows, res, rsp>> /\ sql'[f] \in S /\ pc'[f] = "GetConnection"
         /\ page' = [page EXCEPT ![f] = w]
         /\ \A g \in Fibers : g # f => sql'[g] = sql[g] /\ pc'[g] = pc[g] /\ page'[g] = page[g]
<1>0. PICK s \in S : Call(f, s)
  BY DEF Ask
<1>1. /\ sql' = [sql EXCEPT ![f] = s] /\ pc' = [pc EXCEPT ![f] = "GetConnection"]
      /\ UNCHANGED <<rows, res, rsp>> /\ page' = [page EXCEPT ![f] = w]
  BY <1>0 DEF Ask, Call
<1>2. /\ pc \in [Fibers -> {"out", "GetConnection", "sem_wait", "pop", "query", "answer",
                     "ReleaseConnection", "sem_post"}]
      /\ sql \in [Fibers -> Statements \cup {Nil}]
      /\ page \in [Fibers -> {"recv", "reg_select", "reg_insert", "log_select", "send", "closed"}]
  BY DEF WebInv, PoolInv, PoolTypeOK, Borrowed, WebTypes
<1>3. Growing'
  BY <1>1, <1>2 DEF WebInv, Growing
<1>4. QED
  BY <1>1, <1>2, <1>3

\* A handler that answers, and everyone else.
LEMMA RespondApp ==
  ASSUME WebInv, NEW f \in Fibers, NEW r, page' = [page EXCEPT ![f] = "send"], rsp' = [rsp EXCEPT ![f] = r],
         UNCHANGED allPoolVars
  PROVE  /\ Growing' /\ UNCHANGED <<rows, res, sql, pc>> /\ page'[f] = "send" /\ rsp'[f] = r
         /\ page' \in [Fibers -> {"recv", "reg_select", "reg_insert", "log_select", "send", "closed"}]
         /\ rsp' = [g \in Fibers |-> rsp'[g]]
         /\ \A g \in Fibers : g # f => page'[g] = page[g] /\ rsp'[g] = rsp[g]
<1>1. UNCHANGED <<rows, res, sql, pc>>
  BY DEF allPoolVars
<1>2. /\ page \in [Fibers -> {"recv", "reg_select", "reg_insert", "log_select", "send", "closed"}]
      /\ rsp = [g \in Fibers |-> rsp[g]]
  BY DEF WebInv, WebTypes
<1>3. rsp' = [g \in Fibers |-> IF g = f THEN r ELSE rsp[g]]
  BY <1>2
<1>4. QED
  BY <1>1, <1>2, <1>3 DEF WebInv, Growing

\* The answer to a registration's first statement.
LEMMA RegisterSelectedApp ==
  ASSUME WebInv, NEW f \in Fibers, RegisterSelected(f)
  PROVE  AppInv'
<1>1. /\ page[f] = "reg_select" /\ Finished(f) /\ UNCHANGED <<req, m_userpass, timers>>
      /\ req[f] \in [asks : Requests, known : BOOLEAN] /\ req[f].asks.path = "/check_register"
      /\ res[f].ok /\ res[f].rows = {} => ~req[f].known \/ ~Plain(req[f].asks)
  BY DEF RegisterSelected, Back, Finished, WebInv, SessionOK, RegSelect, Asks
<1>2. CASE Ask(f, InsertUser(req[f].asks), "reg_insert") /\ res[f].ok /\ res[f].rows = {}
  <2>1. \A s \in InsertUser(req[f].asks) : s.op \in {"select", "insert", "values", "add"}
    BY <1>1, Forms
  <2>2. /\ Growing' /\ UNCHANGED <<rows, res, rsp>> /\ sql'[f] \in InsertUser(req[f].asks) /\ pc'[f] = "GetConnection"
        /\ page' = [page EXCEPT ![f] = "reg_insert"]
        /\ \A g \in Fibers : g # f => sql'[g] = sql[g] /\ pc'[g] = pc[g] /\ page'[g] = page[g]
    BY <1>2, <2>1, AskApp
  <2>3. WebTypes'
    BY <1>1, <2>2 DEF WebInv, WebTypes
  <2>4. \A g \in Fibers : g # f => SessionOK(g)'
    BY <1>1, <2>2, Untouched DEF WebInv
  <2>5. page'[f] = "reg_insert"
    BY <2>2 DEF WebInv, WebTypes
  <2>6. SessionOK(f)'
    BY <1>1, <1>2, <2>2, <2>5 DEF SessionOK, RegSelect, RegInsert, LogSelect, Earned, Shown, Asks, Finished, Plain
  <2>7. Logged'
    BY <1>1, <2>2, StillLogged DEF WebInv
  <2>8. QED
    BY <2>2, <2>3, <2>4, <2>6, <2>7 DEF AppInv
<1>3. CASE Respond(f, "registerError") /\ UNCHANGED allPoolVars
  <2>1. /\ Growing' /\ UNCHANGED <<rows, res, sql, pc>> /\ page'[f] = "send" /\ rsp'[f] = Body("registerError")
        /\ page' \in [Fibers -> {"recv", "reg_select", "reg_insert", "log_select", "send", "closed"}]
        /\ rsp' = [g \in Fibers |-> rsp'[g]]
        /\ \A g \in Fibers : g # f => page'[g] = page[g] /\ rsp'[g] = rsp[g]
    BY <1>3, RespondApp DEF Respond
  <2>2. WebTypes'
    BY <1>1, <2>1 DEF WebInv, WebTypes
  <2>3. \A g \in Fibers : g # f => SessionOK(g)'
    BY <1>1, <2>1, Untouched DEF WebInv
  <2>4. SessionOK(f)'
    BY <1>1, <2>1, Answers
  <2>5. Logged'
    BY <1>1, <2>1, StillLogged DEF WebInv
  <2>6. QED
    BY <2>1, <2>2, <2>3, <2>4, <2>5 DEF AppInv
<1>4. QED
  BY <1>2, <1>3 DEF RegisterSelected

\* The answer to a registration's second statement.
LEMMA RegisterInsertedApp ==
  ASSUME WebInv, NEW f \in Fibers, RegisterInserted(f)
  PROVE  AppInv'
<1> DEFINE file == IF res[f].ok THEN "log" ELSE "registerError"
<1>1. /\ page[f] = "reg_insert" /\ Finished(f) /\ UNCHANGED <<req, m_userpass, timers>>
      /\ req[f].asks.path = "/check_register" /\ (~req[f].known \/ ~Plain(req[f].asks))
      /\ res[f].ok => Pair(req[f].asks) \in rows \/ ~Plain(req[f].asks)
  BY DEF RegisterInserted, Back, Finished, WebInv, SessionOK, RegInsert, Asks
<1>2. /\ Growing' /\ UNCHANGED <<rows, res, sql, pc>> /\ page'[f] = "send" /\ rsp'[f] = Body(file)
      /\ page' \in [Fibers -> {"recv", "reg_select", "reg_insert", "log_select", "send", "closed"}]
      /\ rsp' = [g \in Fibers |-> rsp'[g]]
      /\ \A g \in Fibers : g # f => page'[g] = page[g] /\ rsp'[g] = rsp[g]
  BY RespondApp DEF RegisterInserted, Respond
<1>3. WebTypes'
  BY <1>1, <1>2 DEF WebInv, WebTypes
<1>4. \A g \in Fibers : g # f => SessionOK(g)'
  BY <1>1, <1>2, Untouched DEF WebInv
<1>5. SessionOK(f)'
  <2>1. /\ file = "log" => (Pair(req'[f].asks) \in rows' /\ ~req'[f].known) \/ ~Plain(req'[f].asks)
        /\ file \in {"log", "registerError"} /\ req'[f].asks.path = "/check_register"
    BY <1>1, <1>2
  <2> HIDE DEF file
  <2>2. QED
    BY <1>2, <2>1, Answers
<1>6. Logged'
  BY <1>1, <1>2, StillLogged DEF WebInv
<1>7. QED
  BY <1>2, <1>3, <1>4, <1>5, <1>6 DEF AppInv

\* The answer to a login's statement.
LEMMA LogSelectedApp ==
  ASSUME WebInv, NEW f \in Fibers, LogSelected(f)
  PROVE  AppInv'
<1> DEFINE q == req[f].asks
<1>1. /\ page[f] = "log_select" /\ UNCHANGED <<allPoolVars, req>>
      /\ q \in Requests /\ q.path = "/check_log"
      /\ res[f].ok => res[f].rows \subseteq Of(q.user) \/ q.user \in Quoting
  BY DEF LogSelected, Back, Finished, WebInv, SessionOK, LogSelect, Asks
<1>2. q.user \in Names /\ q.password \in Passwords
  BY <1>1, Forms
<1>3. ASSUME NEW file \in {"welcome", "logError"}, Respond(f, file), file = "welcome" => Known(q),
             m_userpass' \in [Names -> Passwords \cup {Nil}], timers' \in [Names -> Nat], Logged'
      PROVE  AppInv'
  <2>1. /\ Growing' /\ UNCHANGED <<rows, res, sql, pc>> /\ page'[f] = "send" /\ rsp'[f] = Body(file)
        /\ page' \in [Fibers -> {"recv", "reg_select", "reg_insert", "log_select", "send", "closed"}]
        /\ rsp' = [g \in Fibers |-> rsp'[g]]
        /\ \A g \in Fibers : g # f => page'[g] = page[g] /\ rsp'[g] = rsp[g]
    BY <1>1, <1>3, RespondApp DEF Respond
  <2>2. WebTypes'
    BY <1>1, <1>3, <2>1 DEF WebInv, WebTypes
  <2>3. \A g \in Fibers : g # f => SessionOK(g)'
    BY <1>1, <2>1, Untouched DEF WebInv
  <2>a. file = "welcome" => Known(req[f].asks)'
    BY <1>1, <1>3, <2>1 DEF Known
  <2>4. SessionOK(f)'
    BY <1>1, <1>3, <2>1, <2>a, Answers
  <2>5. QED
    BY <1>3, <2>1, <2>2, <2>3, <2>4 DEF AppInv
<1>4. CASE Refuse(f)
  <2>1. Respond(f, "logError") /\ UNCHANGED <<m_userpass, timers, rows>>
    BY <1>1, <1>4 DEF Refuse, allPoolVars
  <2>2. Logged'
    BY <2>1, StillLogged DEF WebInv
  <2>3. QED
    BY <1>3, <2>1, <2>2 DEF WebInv, WebTypes
<1>5. CASE Login(f, q) /\ res[f].ok /\ \E r \in res[f].rows : r[2] = q.password
  <2>1. PICK r \in res[f].rows : r[2] = q.password
    BY <1>5
  <2>2. q.user \in Quoting \/ (r \in rows /\ r[1] = q.user /\ r \in Names \X Passwords)
    BY <1>1, <1>5, <2>1 DEF Of, WebInv, PoolInv, PoolTypeOK
  <2>3. Known(q)
    BY <2>1, <2>2 DEF Pair, Known
  <2>4. /\ Respond(f, "welcome") /\ UNCHANGED rows
        /\ timers' = [timers EXCEPT ![q.user] = @ + 1] /\ m_userpass' = [m_userpass EXCEPT ![q.user] = q.password]
    BY <1>1, <1>5 DEF Login, allPoolVars
  <2>5. m_userpass \in [Names -> Passwords \cup {Nil}] /\ timers \in [Names -> Nat]
    BY DEF WebInv, WebTypes
  <2> HIDE DEF q
  <2>6. m_userpass' \in [Names -> Passwords \cup {Nil}] /\ timers' \in [Names -> Nat]
    BY <1>2, <2>4, <2>5
  <2>7. Logged'
    BY <1>2, <2>3, <2>4, <2>5 DEF WebInv, Logged, Known, Pair
  <2>8. QED
    BY <1>3, <2>3, <2>4, <2>6, <2>7
<1>6. QED
  BY <1>4, <1>5 DEF LogSelected

\* A request: it is dispatched, and its handler runs up to its first statement or its answer.
LEMMA HandleRequestApp ==
  ASSUME WebInv, NEW f \in Fibers, NEW q \in Requests, HandleRequest(f, q)
  PROVE  AppInv'
<1> DEFINE slt == getMatchedServlet(m_dispatch, q.path, Fnmatch)
           R == [asks |-> q, known |-> Of(q.user) # {}]
<1>1. /\ req' = [req EXCEPT ![f] = R]
      /\ \/ slt = "check_register_page" /\ check_register_page(f, q)
         \/ slt = "check_log_page" /\ check_log_page(f, q)
         \/ slt \notin {"check_register_page", "check_log_page"} /\ StaticPage(f, slt)
  BY DEF HandleRequest
<1>2. /\ slt \in FileServlets \cup {"NotFoundServlet", "echo", "check_register_page", "check_log_page"}
      /\ slt = "check_register_page" <=> q.path = "/check_register"
      /\ slt = "check_log_page" <=> q.path = "/check_log"
      /\ slt = "NotFoundServlet" <=> q.path = "*"
      /\ slt = "picture_1_resource" <=> q.path = "/picture/xxx.jpg"
  BY Routed
<1>3. q.user \in Names /\ q.password \in Passwords /\ R \in [asks : Requests, known : BOOLEAN]
  BY Forms
<1>4. R.asks = q /\ (R.known <=> Of(q.user) # {})
  OBVIOUS
<1> HIDE DEF slt, R
<1>5. /\ req' \in [Fibers -> [asks : Requests, known : BOOLEAN] \cup {Nil}] /\ req'[f] = R
      /\ \A g \in Fibers : g # f => req'[g] = req[g]
  BY <1>1, <1>3 DEF WebInv, WebTypes
<1>6. UNCHANGED <<m_userpass, timers>>
  BY <1>1 DEF check_register_page, check_log_page, StaticPage
<1>7. ASSUME NEW w \in {"reg_select", "log_select"}, Ask(f, Select(q.user), w),
             q.path = (IF w = "reg_select" THEN "/check_register" ELSE "/check_log")
      PROVE  AppInv'
  <2>1. \A s \in Select(q.user) : s.op \in {"select", "insert", "values", "add"}
    BY Forms
  <2>2. /\ Growing' /\ UNCHANGED <<rows, res, rsp>> /\ sql'[f] \in Select(q.user) /\ pc'[f] = "GetConnection"
        /\ page' = [page EXCEPT ![f] = w]
        /\ \A g \in Fibers : g # f => sql'[g] = sql[g] /\ pc'[g] = pc[g] /\ page'[g] = page[g]
    BY <1>7, <2>1, AskApp
  <2>3. WebTypes' /\ page'[f] = w
    BY <1>5, <1>6, <2>2 DEF WebInv, WebTypes
  <2>4. \A g \in Fibers : g # f => SessionOK(g)'
    BY <1>5, <2>2, Untouched DEF WebInv
  <2>5. ~Finished(f)' /\ Of(q.user)' = Of(q.user)
    BY <2>2 DEF Finished, Of
  <2>6. Asks(f, q.path)' /\ req'[f].asks = q /\ (req'[f].known <=> Of(q.user) # {})
    BY <1>3, <1>4, <1>5 DEF Asks
  <2>7. RegSelect(f)'
    BY <1>7, <2>2, <2>3, <2>5, <2>6 DEF RegSelect
  <2>8. LogSelect(f)'
    BY <1>7, <2>2, <2>3, <2>5, <2>6 DEF LogSelect
  <2>9. SessionOK(f)'
    BY <2>3, <2>7, <2>8 DEF SessionOK, RegInsert, Earned, Shown
  <2>10. Logged'
    BY <1>6, <2>2, StillLogged DEF WebInv
  <2>11. QED
    BY <2>2, <2>3, <2>4, <2>9, <2>10 DEF AppInv
<1>8. ASSUME NEW r, page' = [page EXCEPT ![f] = "send"], rsp' = [rsp EXCEPT ![f] = r], UNCHANGED allPoolVars,
             page'[f] = "send" /\ rsp'[f] = r /\ UNCHANGED rows => SessionOK(f)'
      PROVE  AppInv'
  <2>1. /\ Growing' /\ UNCHANGED <<rows, res, sql, pc>> /\ page'[f] = "send" /\ rsp'[f] = r
        /\ page' \in [Fibers -> {"recv", "reg_select", "reg_insert", "log_select", "send", "closed"}]
        /\ rsp' = [g \in Fibers |-> rsp'[g]]
        /\ \A g \in Fibers : g # f => page'[g] = page[g] /\ rsp'[g] = rsp[g]
    BY <1>8, RespondApp
  <2>2. WebTypes'
    BY <1>5, <1>6, <2>1 DEF WebInv, WebTypes
  <2>3. \A g \in Fibers : g # f => SessionOK(g)'
    BY <1>5, <2>1, Untouched DEF WebInv
  <2>4. Logged'
    BY <1>6, <2>1, StillLogged DEF WebInv
  <2>5. QED
    BY <1>8, <2>1, <2>2, <2>3, <2>4 DEF AppInv
<1>9. CASE slt = "check_register_page" /\ check_register_page(f, q)
  BY <1>2, <1>7, <1>9 DEF check_register_page
<1>10. CASE slt = "check_log_page" /\ check_log_page(f, q)
  <2>1. q.path = "/check_log" /\ req'[f].asks = q
    BY <1>2, <1>4, <1>5, <1>10
  <2>2. ASSUME NEW file \in {"welcome", "logError"}, Respond(f, file), UNCHANGED allPoolVars,
               file = "welcome" => Known(q)
        PROVE  AppInv'
    <3>1. ASSUME page'[f] = "send", rsp'[f] = Body(file), UNCHANGED rows
          PROVE  SessionOK(f)'
      BY <2>1, <2>2, <3>1, Answers DEF Known
    <3>2. QED
      BY <1>8, <2>2, <3>1 DEF Respond
  <2>3. CASE Respond(f, "logError") /\ UNCHANGED allPoolVars
    BY <2>2, <2>3
  <2>4. CASE /\ Respond(f, IF m_userpass[q.user] = q.password THEN "welcome" ELSE "logError")
             /\ UNCHANGED allPoolVars /\ m_userpass[q.user] # Nil
    <3>1. <<q.user, m_userpass[q.user]>> \in rows \/ q.user \in Quoting
      BY <1>3, <2>4 DEF WebInv, Logged
    <3>2. CASE m_userpass[q.user] = q.password
      BY <2>2, <2>4, <3>1, <3>2 DEF Known, Pair
    <3>3. CASE m_userpass[q.user] # q.password
      BY <2>3, <2>4, <3>3
    <3>4. QED
      BY <3>2, <3>3
  <2>5. CASE Ask(f, Select(q.user), "log_select")
    BY <1>7, <2>1, <2>5
  <2>6. QED
    BY <1>10, <2>3, <2>4, <2>5 DEF check_log_page
<1>11. CASE slt \notin {"check_register_page", "check_log_page"} /\ StaticPage(f, slt)
  <2> DEFINE r == CASE slt = "NotFoundServlet" -> [status |-> 404, body |-> "notfound"]
                    [] slt = "echo" -> [status |-> 200, body |-> "request"]
                    [] OTHER -> Body(FileOf[slt])
  <2>1. page' = [page EXCEPT ![f] = "send"] /\ rsp' = [rsp EXCEPT ![f] = r] /\ UNCHANGED allPoolVars
    BY <1>11 DEF StaticPage
  <2>2. req'[f].asks = q /\ q.path \notin {"/check_register", "/check_log"}
    BY <1>2, <1>4, <1>5, <1>11
  <2>3. ASSUME page'[f] = "send", rsp'[f] = r
        PROVE  SessionOK(f)'
    <3>1. CASE slt = "NotFoundServlet"
      <4>1. rsp'[f].status = 404 /\ \A x : r # Body(x)
        BY <2>3, <3>1 DEF Body
      <4>2. QED
        BY <1>2, <2>2, <2>3, <3>1, <4>1 DEF SessionOK, RegSelect, RegInsert, LogSelect, Earned, Shown
    <3>2. CASE slt = "echo"
      <4>1. r.body = "request" /\ r.status = 200
        BY <3>2
      <4>2. \A x \in {"welcome", "log", "registerError", "jpg"} : r # Body(x)
        BY <4>1 DEF Body
      <4>3. QED
        BY <1>2, <2>2, <2>3, <3>2, <4>1, <4>2 DEF SessionOK, RegSelect, RegInsert, LogSelect, Earned, Shown
    <3>3. CASE slt \in FileServlets
      <4>1. /\ r = Body(FileOf[slt]) /\ FileOf[slt] \notin {"welcome", "registerError"}
            /\ FileOf[slt] = "jpg" <=> slt = "picture_1_resource"
        BY <3>3 DEF FileServlets, FileOf
      <4>2. q.path # "*"
        BY <1>2, <3>3 DEF FileServlets
      <4>3. rsp'[f] = Body(FileOf[slt])
        BY <2>3, <4>1
      <4> HIDE DEF r
      <4>4. QED
        BY <1>2, <2>2, <2>3, <4>1, <4>2, <4>3, Answers
    <3>4. QED
      BY <1>2, <1>11, <3>1, <3>2, <3>3
  <2> HIDE DEF r
  <2>4. QED
    BY <1>8, <2>1, <2>3
<1>12. QED
  BY <1>1, <1>9, <1>10, <1>11

\* The loop of handleClient, the threads, the timers and init.
LEMMA OtherApp ==
  ASSUME WebInv,
         \/ Setup /\ UNCHANGED webVars
         \/ UNCHANGED vars
         \/ \E u \in Names : Expire(u)
         \/ \E f \in Fibers : \/ RecvFails(f) \/ SendResponse(f) \/ LeaveThread(f)
                              \/ \E t \in Threads : Wake(t, f)
  PROVE  AppInv'
<1>1. UNCHANGED <<pc, sql, res, rows>>
  BY DEF Setup, InitBegin, InitConnect, InitFails, InitReserve, vars, allPoolVars, Expire, RecvFails,
         SendResponse, LeaveThread, Yield, Wake, Resume
<1>2. Growing'
  BY <1>1 DEF WebInv, Growing
<1>3. CASE UNCHANGED webVars
  <2>1. UNCHANGED <<page, req, rsp, m_userpass, timers>>
    BY <1>3 DEF webVars
  <2>2. WebTypes'
    BY <1>1, <2>1 DEF WebInv, WebTypes
  <2>3. \A g \in Fibers : SessionOK(g)'
    BY <1>1, <2>1, Untouched DEF WebInv
  <2>4. QED
    BY <1>1, <1>2, <2>1, <2>2, <2>3, StillLogged DEF WebInv, AppInv
<1>4. ASSUME NEW u \in Names, Expire(u)
      PROVE  AppInv'
  <2>1. /\ UNCHANGED <<page, req, rsp>> /\ timers[u] > 0
        /\ timers' = [timers EXCEPT ![u] = @ - 1] /\ m_userpass' = [m_userpass EXCEPT ![u] = Nil]
    BY <1>4 DEF Expire
  <2>2. WebTypes'
    BY <1>1, <2>1 DEF WebInv, WebTypes
  <2>3. \A g \in Fibers : SessionOK(g)'
    BY <1>1, <2>1, Untouched DEF WebInv
  <2>4. Logged'
    BY <1>1, <2>1 DEF WebInv, WebTypes, Logged
  <2>5. QED
    BY <1>2, <2>2, <2>3, <2>4 DEF AppInv
<1>5. ASSUME NEW f \in Fibers, RecvFails(f) \/ SendResponse(f) \/ LeaveThread(f)
      PROVE  AppInv'
  <2>1. /\ page' \in [Fibers -> {"recv", "reg_select", "reg_insert", "log_select", "send", "closed"}]
        /\ page'[f] \in {"recv", "closed"} /\ UNCHANGED <<m_userpass, timers>>
        /\ \A g \in Fibers : g # f => page'[g] = page[g]
    BY <1>5 DEF RecvFails, SendResponse, LeaveThread, WebInv, WebTypes
  <2>2. req' \in [Fibers -> [asks : Requests, known : BOOLEAN] \cup {Nil}] /\ \A g \in Fibers : g # f => req'[g] = req[g]
    BY <1>5 DEF RecvFails, SendResponse, LeaveThread, WebInv, WebTypes
  <2>3. rsp' = [g \in Fibers |-> rsp'[g]] /\ \A g \in Fibers : g # f => rsp'[g] = rsp[g]
    <3>1. rsp = [g \in Fibers |-> rsp[g]]
      BY DEF WebInv, WebTypes
    <3>2. CASE UNCHANGED rsp
      BY <3>1, <3>2
    <3>3. CASE rsp' = [rsp EXCEPT ![f] = Nil]
      <4>1. rsp' = [g \in Fibers |-> IF g = f THEN Nil ELSE rsp[g]]
        BY <3>1, <3>3
      <4>2. QED
        BY <4>1
    <3>4. QED
      BY <1>5, <3>2, <3>3 DEF RecvFails, SendResponse, LeaveThread
  <2>4. WebTypes'
    BY <1>1, <2>1, <2>2, <2>3 DEF WebInv, WebTypes
  <2>5. \A g \in Fibers : SessionOK(g)'
    BY <1>1, <2>1, <2>2, <2>3, Untouched, AtRest DEF WebInv
  <2>6. QED
    BY <1>1, <1>2, <2>1, <2>4, <2>5, StillLogged DEF WebInv, AppInv
<1>6. QED
  BY <1>3, <1>4, <1>5 DEF Wake, vars

-----------------------------------------------------------------------------
(* The application.                                                        *)

\* The web server starts in the inductive invariant.
LEMMA WebInitHolds == Init => WebInv
<1> SUFFICES ASSUME Init PROVE WebInv
  OBVIOUS
<1>1. PoolInv
  BY PoolInitHolds DEF Init
<1>2. WebTypes
  BY DEF Init, PoolInit, WebTypes, Failed
<1>3. Growing /\ Logged /\ \A f \in Fibers : SessionOK(f)
  BY DEF Init, PoolInit, Growing, Logged, SessionOK, RegSelect, RegInsert, LogSelect, Earned, Shown
<1>4. QED
  BY <1>1, <1>2, <1>3 DEF WebInv

\* Every step of the web server keeps the inductive invariant.
LEMMA WebStepKeeps ==
  ASSUME WebInv, [Next]_vars
  PROVE  WebInv'
<1>1. PoolInv'
  BY UsesThePool, PoolStepKeeps DEF WebInv
<1>2. AppInv'
  BY HandleRequestApp, RegisterSelectedApp, RegisterInsertedApp, LogSelectedApp, PoolStepApp, OtherApp
     DEF Next, Handler, Done
<1>3. QED
  BY <1>1, <1>2 DEF WebInv, AppInv

\* The inductive invariant of the web server holds always.
LEMMA WebInvariant == Spec => []WebInv
<1>1. WebInv /\ [Next]_vars => WebInv'
  BY WebStepKeeps
<1>2. QED
  BY <1>1, WebInitHolds, PTL DEF Spec

\* The application uses Mysql_pool as any caller may: every behaviour of the handlers is one of the
\* pool (tiny_webserver.cc:185-284, mysql_pool.cc:91-203).
THEOREM WebUsesPool == Spec => PoolSpec
<1>1. Init => PoolInit
  BY DEF Init
<1>2. WebInv /\ [Next]_vars => [PoolNext]_allPoolVars
  BY UsesThePool
<1>3. QED
  BY <1>1, <1>2, WebInvariant, PTL DEF Spec, PoolSpec

\* Whoever is logged in will be logged out: every entry of m_userpass has a timer
\* (tiny_webserver.cc:267-270).
THEOREM LoginsExpire == Spec => []LoginExpires
<1>1. WebInv => LoginExpires
  BY DEF WebInv, PoolInv, WebTypes, Logged, LoginExpires, TypeOK
<1>2. QED
  BY <1>1, WebInvariant, PTL

\* For any requests, page files and number of clients: who is welcomed under a name without a quote has
\* a row of the table, who is told to be registered, with a name and a password without a quote, is
\* registered now and was not when the request came, whatever others make of the statements with theirs,
\* and each path gets its own page (tiny_webserver.cc:28, 189-200, 260-284; servlet.cc:118).
THEOREM AnswersEarned == Spec => []AnswersAreEarned
<1>1. WebInv => AnswersAreEarned
  BY DEF WebInv, SessionOK, Earned, Known, Plain, Pair, AnswersAreEarned, WelcomeIsEarned, RegistrationIsReal, PageOfItsPath
<1>2. QED
  BY <1>1, WebInvariant, PTL
=============================================================================
