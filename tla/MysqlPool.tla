----------------------------- MODULE MysqlPool -----------------------------
(***************************************************************************)
(* gxh::Mysql_pool (db/mysql_pool.cc): a list of open connections, a       *)
(* semaphore that counts them, and the four calls that borrow one.  The    *)
(* callers are fibers on the threads of an IOManager.  Two things they     *)
(* wait for differ: sem_wait is not hooked and blocks the THREAD, while    *)
(* the client library reads its socket through the hooks and suspends only *)
(* the fiber.                                                              *)
(***************************************************************************)
EXTENDS Naturals, Sequences, FiniteSets, SequencesExt

CONSTANTS Threads,     \* threads of the IOManager
          Fibers,      \* fibers that use the database
          Names,       \* user names
          Passwords,
          maxconn,     \* MysqlDefine::maxconn
          MaxInits,    \* bound: the constructor, and then the listener of "db", call init
          Nil          \* no fiber, no connection, no statement

ASSUME PoolAssumption ==
  /\ maxconn \in Nat /\ MaxInits \in Nat /\ IsFiniteSet(Fibers)
  /\ Nil \notin Fibers \cup Threads \cup Passwords \cup Nat

VARIABLES connList, reserve, m_FreeConn, m_CurConn,
          init,        \* how far init is: "no", "connect", "up" or "exit"
          inits,       \* how often it was called
          opened,      \* connections made so far, numbered from 1
          pc,          \* fiber |-> where it is in a call of the pool
          con,         \* fiber |-> the connection it has borrowed, or Nil
          sql,         \* fiber |-> the statement it executes
          res,         \* fiber |-> what the last call returned
          lost,        \* history: connections of the present pool no one will give back
          closed,      \* connections that mysql_close has ended
          rows,        \* the table user of the database, as a set of <<username, passwd>>
          runs         \* thread |-> the fiber it runs, or Nil

poolVars == <<connList, reserve, m_FreeConn, m_CurConn, con, lost>>
initVars == <<init, inits, opened, closed>>
allPoolVars == <<poolVars, initVars, pc, sql, res, rows, runs>>

Statements == [op : {"select", "delete"}, name : Names] \cup
              [op : {"insert", "update"}, name : Names, passwd : Passwords] \cup
              [op : {"values", "add"}, rows : SUBSET (Names \X Passwords)]

Failed == [ok |-> FALSE, rows |-> {}]
Succeeded(r) == [ok |-> TRUE, rows |-> r]

PoolInit ==
  /\ connList = <<>> /\ reserve = 0 /\ m_FreeConn = 0 /\ m_CurConn = 0
  /\ init = "no" /\ inits = 0 /\ opened = 0 /\ lost = {} /\ closed = {} /\ rows = {}
  /\ pc = [f \in Fibers |-> "out"] /\ con = [f \in Fibers |-> Nil]
  /\ sql = [f \in Fibers |-> Nil] /\ res = [f \in Fibers |-> Failed]
  /\ runs = [t \in Threads |-> Nil]

On(f) == \E t \in Threads : runs[t] = f

(***************************************************************************)
(* init: the constructor of the singleton calls it, and so does the        *)
(* listener of the configuration "db".  main() loads the configuration     *)
(* before it schedules the server: both come before the first caller.  The *)
(* model also allows a second one between calls, when no caller is inside. *)
(***************************************************************************)
\* Mutant: the connections are left in the list.
DestroyPoolKeepsList ==
  /\ closed' = closed \cup ToSet(connList)
  /\ m_FreeConn' = 0 /\ m_CurConn' = 0
  /\ UNCHANGED connList

DestroyPool ==
  /\ closed' = closed \cup ToSet(connList)
  /\ m_FreeConn' = 0 /\ m_CurConn' = 0 /\ connList' = <<>>

InitBegin ==
  /\ init \in {"no", "up"} /\ inits < MaxInits
  /\ \A f \in Fibers : pc[f] = "out" /\ con[f] = Nil
  /\ \A t \in Threads : runs[t] = Nil
  /\ DestroyPool
  /\ init' = "connect" /\ inits' = inits + 1 /\ lost' = {}
  /\ UNCHANGED <<reserve, opened, pc, con, sql, res, rows, runs>>

\* One round of the loop: mysql_init and mysql_real_connect.
InitConnect ==
  /\ init = "connect" /\ m_FreeConn < maxconn
  /\ opened' = opened + 1
  /\ connList' = Append(connList, opened') /\ m_FreeConn' = m_FreeConn + 1
  /\ UNCHANGED <<reserve, m_CurConn, init, inits, lost, closed, pc, con, sql, res, rows, runs>>

\* The database cannot be reached: exit(1).
InitFails ==
  /\ init = "connect" /\ m_FreeConn < maxconn
  /\ init' = "exit"
  /\ UNCHANGED <<poolVars, inits, opened, closed, pc, sql, res, rows, runs>>

\* sem_init of a new semaphore, copied over reserve.
InitReserve ==
  /\ init = "connect" /\ m_FreeConn = maxconn
  /\ reserve' = m_FreeConn /\ init' = "up"
  /\ UNCHANGED <<connList, m_FreeConn, m_CurConn, con, lost, inits, opened, closed, pc, sql, res, rows, runs>>

(***************************************************************************)
(* The threads.                                                            *)
(***************************************************************************)
\* A free thread resumes a fiber that has work to do.
Resume(t, f) ==
  /\ runs[t] = Nil /\ ~On(f)
  /\ runs' = [runs EXCEPT ![t] = f]
  /\ UNCHANGED <<poolVars, initVars, pc, sql, res, rows>>

\* The client library waits for the server in a hooked call: the fiber is suspended until it answers.
Suspend(f) ==
  /\ pc[f] = "query" /\ On(f)
  /\ runs' = [t \in Threads |-> IF runs[t] = f THEN Nil ELSE runs[t]]
  /\ pc' = [pc EXCEPT ![f] = "answer"]
  /\ UNCHANGED <<poolVars, initVars, sql, res, rows>>

(***************************************************************************)
(* GetConnection, in the steps another thread can come between.            *)
(***************************************************************************)
\* Mutant: no look at the list.
GetConnectionAlways(f) ==
  /\ pc[f] = "GetConnection" /\ On(f)
  /\ pc' = [pc EXCEPT ![f] = "sem_wait"]
  /\ UNCHANGED <<res, poolVars, initVars, sql, rows, runs>>

\* Mutant: a caller that finds the list empty looks again.
GetConnectionSpins(f) ==
  /\ pc[f] = "GetConnection" /\ On(f)
  /\ pc' = [pc EXCEPT ![f] = IF connList = <<>> THEN @ ELSE "sem_wait"]
  /\ UNCHANGED <<res, poolVars, initVars, sql, rows, runs>>

\* The list is looked at without the lock: no connection, no waiting.
GetConnection(f) ==
  /\ pc[f] = "GetConnection" /\ On(f)
  /\ pc' = [pc EXCEPT ![f] = IF connList = <<>> THEN "out" ELSE "sem_wait"]
  /\ res' = [res EXCEPT ![f] = IF connList = <<>> THEN Failed ELSE @]
  /\ UNCHANGED <<poolVars, initVars, sql, rows, runs>>

sem_wait(f) ==
  /\ pc[f] = "sem_wait" /\ On(f) /\ reserve > 0
  /\ reserve' = reserve - 1 /\ pc' = [pc EXCEPT ![f] = "pop"]
  /\ UNCHANGED <<connList, m_FreeConn, m_CurConn, con, lost, initVars, sql, res, rows, runs>>

\* Under the lock: front, pop_front and the counters.  CountersExact says that the list is not empty.
TakeFront(f) ==
  /\ pc[f] = "pop" /\ On(f) /\ connList # <<>>
  /\ con' = [con EXCEPT ![f] = Head(connList)] /\ connList' = Tail(connList)
  /\ m_FreeConn' = m_FreeConn - 1 /\ m_CurConn' = m_CurConn + 1
  /\ pc' = [pc EXCEPT ![f] = "query"]
  /\ UNCHANGED <<reserve, lost, initVars, sql, res, rows, runs>>

(***************************************************************************)
(* Query, Insert, Delete and Update.                                       *)
(***************************************************************************)
Of(n) == {r \in rows : r[1] = n}

\* The table after a statement, and what the statement returns.  "values" and "add" are a select and an
\* insert that say themselves which rows to return or to add.
Table(s) ==
  CASE s.op \in {"select", "values"} -> rows
    [] s.op = "add" -> rows \cup s.rows
    [] s.op = "insert" -> rows \cup {<<s.name, s.passwd>>}
    [] s.op = "delete" -> rows \ Of(s.name)
    [] s.op = "update" -> {IF r[1] = s.name THEN <<s.name, s.passwd>> ELSE r : r \in rows}

Found(s) ==
  CASE s.op = "select" -> Of(s.name)
    [] s.op = "values" -> s.rows
    [] OTHER -> {}

QuerySucceeds(f) ==
  /\ pc[f] \in {"query", "answer"} /\ On(f)
  /\ rows' = Table(sql[f])
  /\ res' = [res EXCEPT ![f] = Succeeded(Found(sql[f]))]
  /\ pc' = [pc EXCEPT ![f] = "ReleaseConnection"]
  /\ UNCHANGED <<poolVars, initVars, sql, runs>>

\* Mutant: the failing call puts its connection back without the semaphore.
QueryFailsPutsBack(f) ==
  /\ pc[f] \in {"query", "answer"} /\ On(f)
  /\ connList' = Append(connList, con[f]) /\ con' = [con EXCEPT ![f] = Nil]
  /\ m_FreeConn' = m_FreeConn + 1 /\ m_CurConn' = m_CurConn - 1
  /\ res' = [res EXCEPT ![f] = Failed] /\ pc' = [pc EXCEPT ![f] = "out"]
  /\ UNCHANGED <<reserve, lost, initVars, sql, rows, runs>>

\* mysql_query fails -- the server is gone, the statement is refused: the call returns
\* false and does not give the connection back.
QueryFails(f) ==
  /\ pc[f] \in {"query", "answer"} /\ On(f)
  /\ lost' = lost \cup {con[f]} /\ con' = [con EXCEPT ![f] = Nil]
  /\ res' = [res EXCEPT ![f] = Failed] /\ pc' = [pc EXCEPT ![f] = "out"]
  /\ UNCHANGED <<connList, reserve, m_FreeConn, m_CurConn, initVars, sql, rows, runs>>

ReleaseConnection(f) ==
  /\ pc[f] = "ReleaseConnection" /\ On(f)
  /\ connList' = Append(connList, con[f]) /\ con' = [con EXCEPT ![f] = Nil]
  /\ m_FreeConn' = m_FreeConn + 1 /\ m_CurConn' = m_CurConn - 1
  /\ pc' = [pc EXCEPT ![f] = "sem_post"]
  /\ UNCHANGED <<reserve, lost, initVars, sql, res, rows, runs>>

sem_post(f) ==
  /\ pc[f] = "sem_post" /\ On(f)
  /\ reserve' = reserve + 1 /\ pc' = [pc EXCEPT ![f] = "out"]
  /\ UNCHANGED <<connList, m_FreeConn, m_CurConn, con, lost, initVars, sql, res, rows, runs>>

\* A caller begins a call.
Call(f, s) ==
  /\ init = "up" /\ pc[f] = "out" /\ On(f)
  /\ sql' = [sql EXCEPT ![f] = s] /\ pc' = [pc EXCEPT ![f] = "GetConnection"]
  /\ UNCHANGED <<poolVars, initVars, res, rows, runs>>

\* A caller that is in no call gives its thread up.
Yield(f) ==
  /\ pc[f] = "out" /\ On(f)
  /\ runs' = [t \in Threads |-> IF runs[t] = f THEN Nil ELSE runs[t]]
  /\ UNCHANGED <<poolVars, initVars, pc, sql, res, rows>>

Setup == InitBegin \/ InitConnect \/ InitFails \/ InitReserve

PoolStep(f) ==
  \/ GetConnection(f) \/ sem_wait(f) \/ TakeFront(f)
  \/ QuerySucceeds(f) \/ QueryFails(f) \/ ReleaseConnection(f) \/ sem_post(f)

\* The pool under any callers.
PoolNext ==
  \/ Setup
  \/ \E f \in Fibers : \/ PoolStep(f) \/ Suspend(f) \/ Yield(f)
                       \/ \E s \in Statements : Call(f, s)
                       \/ \E t \in Threads : Resume(t, f)

PoolSpec == PoolInit /\ [][PoolNext]_allPoolVars

-----------------------------------------------------------------------------
Busy(where) == {f \in Fibers : pc[f] = where}
Lent == {con[f] : f \in {g \in Fibers : con[g] # Nil}}

PoolTypeOK ==
  /\ connList \in Seq(1 .. opened) /\ reserve \in Nat /\ m_FreeConn \in Nat /\ m_CurConn \in Nat
  /\ init \in {"no", "connect", "up", "exit"} /\ inits \in 0 .. MaxInits /\ opened \in Nat
  /\ pc \in [Fibers -> {"out", "GetConnection", "sem_wait", "pop", "query", "answer",
                     "ReleaseConnection", "sem_post"}]
  /\ con \in [Fibers -> (1 .. opened) \cup {Nil}]
  /\ lost \subseteq 1 .. opened /\ closed \subseteq 1 .. opened
  /\ rows \subseteq Names \X Passwords /\ runs \in [Threads -> Fibers \cup {Nil}]

\* A connection is in the list once, or lent to one fiber, or lost by a failed statement, never two
\* of these, and never one that DestroyPool has closed (mysql_pool.cc:46, 61, 81).
LentOnce ==
  /\ IsInjective(connList)
  /\ \A f, g \in Fibers : con[f] = con[g] /\ con[f] # Nil => f = g
  /\ ToSet(connList) \cap Lent = {} /\ lost \cap (Lent \cup ToSet(connList)) = {}
  /\ closed \cap (Lent \cup ToSet(connList)) = {}

\* The semaphore, the list and the counters tell the same.  The semaphore and the list move apart only
\* by the callers between the two: whoever has passed sem_wait finds a connection, and pop_front is
\* never called on an empty list (mysql_pool.cc:43-47, 60-68, 122).  The connections of failed
\* statements count as lent for ever (mysql_pool.cc:49, 63).
CountersExact ==
  /\ PoolTypeOK
  /\ init = "up" =>
       /\ Len(connList) = reserve + Cardinality(Busy("pop")) + Cardinality(Busy("sem_post"))
       /\ m_FreeConn = Len(connList)
       /\ m_CurConn = Cardinality(Lent) + Cardinality(lost)
       /\ m_FreeConn + m_CurConn = maxconn
=============================================================================
