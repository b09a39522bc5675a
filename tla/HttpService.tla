---------------------------- MODULE HttpService ----------------------------
(***************************************************************************)
(* The HTTP client, its pool of connections and the HTTP server together.  *)
(***************************************************************************)
EXTENDS TcpServer, HttpConnectionPool

vars == <<sockVars, serverVars, poolVars, dead>>

Init == SockInit /\ ServerInit /\ PoolInit /\ dead = FALSE

Serving ==
  /\ \/ ServerCalls \/ StopTask
     \/ \E f \in Fibers : AcceptFiber(f)
     \/ \E c \in Conns : handleClient(c)
  /\ UNCHANGED poolVars

Calling ==
  /\ \E k \in Callers : Caller(k) \/ \E close \in Closes[k] : doRequest(k, close) \/ DoRequest(k, close)
  /\ UNCHANGED serverVars

\* Everything that may be asked for was, and is done; or there is nobody left to do it.
Quiet ==
  /\ dead \/ (made = MaxRequests /\ stops = MaxStops /\ \A k \in Callers : pc[k] = "idle")
  /\ UNCHANGED vars

Running(A) == ~dead /\ A /\ UNCHANGED dead

Dies ==
  /\ ~dead /\ (ServerKilled \/ CallerKilled)
  /\ dead' = TRUE /\ UNCHANGED <<sockVars, serverVars, poolVars>>

Next == Running(Serving \/ Calling) \/ Dies \/ Quiet

Spec == Init /\ [][Next]_vars

\* The workers of the server run the fibers and the tasks they are given.
Fairness ==
  /\ WF_vars(Running(StopTask /\ UNCHANGED poolVars))
  /\ \A f \in Fibers : WF_vars(Running(AcceptFiber(f) /\ UNCHANGED poolVars))
  /\ \A c \in Conns : WF_vars(Running(handleClient(c) /\ UNCHANGED poolVars))

FairSpec == Spec /\ Fairness

-----------------------------------------------------------------------------
InList(c) == \E i \in 1..Len(m_conns) : m_conns[i] = c

\* A response that a caller is given answers its own request, also on a connection on which an earlier
\* caller gave up waiting (http_connection.cc:44-46, 348-467).
ResponseIsMine ==
  \A k \in Callers : result[k].error = "OK" => result[k].of = sent[k].id

\* No connection is with two callers, or with a caller and in the list, or twice in the list; the list
\* holds no connection that is closed on this side or used up, whatever order they come back in
\* (http_connection.cc:290-303, 335-346).
LentOnce ==
  /\ \A k, l \in Callers : k # l /\ cur[k] # NoConn => cur[k] # cur[l]
  /\ \A k \in Callers : cur[k] # NoConn => ~InList(cur[k])
  /\ \A i, j \in 1..Len(m_conns) : i # j => m_conns[i] # m_conns[j]
  /\ \A i \in 1..Len(m_conns) : Usable(m_conns[i]) /\ m_request[m_conns[i]] < m_maxRequest

\* m_total counts the connections of the list and those that are lent, up to the decrement a caller has
\* still to make outside the lock; there are never more than callers, though m_maxSize is not looked at
\* (http_connection.cc:308, 327, 341).
TotalExact ==
  /\ m_total = Len(m_conns) + Cardinality({k \in PoolCallers : pc[k] \in {"send", "recv", "release", "uncount"}})
  /\ m_total <= Cardinality(PoolCallers)

\* The books of the pool: who has which connection, and how many there are.
PoolExact == LentOnce /\ TotalExact

\* After a bind() that returned false, also for a failure of an earlier call, the list is empty, also of
\* the addresses that could be bound then or earlier, and no listening socket is forgotten: it is in the
\* list that stop() closes, or a fiber of startAccept holds it (tcp_server.cc:59-65), which after a
\* bind() on a running server may wait for ever; the list has a closed socket only while stop()'s task
\* goes through it.
BindAllOrNothing ==
  /\ ~bound => m_socks = {}
  /\ \A s \in Listening : s \in m_socks \/ \E f \in Alive : f[2] = s
  /\ m_socks \subseteq Listening \/ task # "none"

\* After stop() every listening socket is closed and every fiber that accepts has ended: except a fiber
\* that registered again inside the close() of its socket, and waits for ever; unless start() or bind()
\* was called on the running server, or after stop().
Stopped == stops > 0 => (Listening = {} /\ Alive \subseteq inside) \/ disturbed

\* The connections the client has closed and the server has not.
Orphans == {c \in Conns : conn[c].client \in {"closed", "deleted"} /\ handler[c] # "none"}

\* The server leaves nothing behind, though the fibers that accept run on other threads while the task of
\* stop() goes through cancelAll, cancelAll and close_f (tcp_server.cc:101-111, hook.cc:334-347): the
\* listeners close, the fibers of startAccept end but for those that waited again between the last
\* cancelAll and close_f, and no fiber of handleClient stays with a client that is gone
\* (http_server.cc:29-52); until the process dies.
NothingLeft == []<>((Stopped /\ Orphans = {}) \/ dead)
=============================================================================
