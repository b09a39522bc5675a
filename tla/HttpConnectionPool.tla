------------------------- MODULE HttpConnectionPool -------------------------
(***************************************************************************)
(* gxh::http::HttpConnectionPool and HttpConnection (http_connection.cc):  *)
(* callers of doRequest that share connections, and callers of the static  *)
(* DoRequest that have one of their own.                                   *)
(***************************************************************************)
EXTENDS Socket, FiniteSetsExt

CONSTANTS PoolCallers, DirectCallers,
          Target,        \* the sockets that listen where m_host and m_port say
          m_maxRequest,
          m_maxAliveTime,
          Now,           \* a time of GetCurrentMS(): milliseconds since 1970
          MaxRequests,   \* bound: requests of all callers
          Closes         \* caller |-> the set of what its requests say of closing

ASSUME PoolAssumption ==
  /\ m_maxAliveTime \in Nat /\ Now \in Nat /\ m_maxAliveTime < Now /\ m_maxRequest \in Nat
  /\ IsFiniteSet(PoolCallers) /\ PoolCallers \cap DirectCallers = {} /\ Target \subseteq Socks
  /\ Closes \in [PoolCallers \cup DirectCallers -> SUBSET BOOLEAN]

Callers == PoolCallers \cup DirectCallers

VARIABLES m_conns,       \* the list of idle connections
          m_total,
          m_request,     \* connection |-> how often it was used
          pc,            \* caller |-> where it is
          cur,           \* caller |-> its connection
          sent,          \* caller |-> its request
          result,        \* caller |-> HttpResult of its request, until it returns
          made           \* how many requests were made

poolVars == <<m_conns, m_total, m_request, pc, cur, sent, result, made>>

NoConn == 0
NoResult == [error |-> "NONE", of |-> 0]

PoolInit ==
  /\ m_conns = <<>> /\ m_total = 0 /\ m_request = [c \in Conns |-> 0]
  /\ pc = [k \in Callers |-> "idle"] /\ cur = [k \in Callers |-> NoConn]
  /\ sent = [k \in Callers |-> <<>>] /\ result = [k \in Callers |-> NoResult] /\ made = 0

Goto(k, where) == pc' = [pc EXCEPT ![k] = where]

\* m_createTime is never set: with the clock of the host the two tests of the age are false.
m_createTime == 0
TooYoung == m_createTime + m_maxAliveTime > Now
isConnected(c) == conn[c].client = "open"

\* A request is made, with or without "Connection: keep-alive" in the headers.
Request(k, close, where) ==
  /\ pc[k] = "idle" /\ made < MaxRequests /\ made' = made + 1
  /\ sent' = [sent EXCEPT ![k] = [id |-> made', close |-> close]]
  /\ Goto(k, where)
  /\ UNCHANGED <<sockVars, m_conns, m_total, m_request, cur, result>>

\* doGet, doPost and doRequest of the pool.
doRequest(k, close) == k \in PoolCallers /\ Request(k, close, "get")

\* The static DoGet, DoPost and DoRequest.  (With an URL that is invalid they return at once.)
DoRequest(k, close) == k \in DirectCallers /\ Request(k, close, "connect")

Usable(c) == isConnected(c) /\ ~TooYoung

\* The list up to its first usable connection is taken off, under the lock, and those that are not
\* usable are deleted and subtracted after it.  (One step: LentOnce says that there are none.)
getConnection(k) ==
  LET usable == {i \in 1..Len(m_conns) : Usable(m_conns[i])}
      n == IF usable = {} THEN Len(m_conns) + 1 ELSE Min(usable)
  IN  /\ pc[k] = "get"
      /\ m_conns' = SubSeq(m_conns, n + 1, Len(m_conns))
      /\ m_total' = m_total - (n - 1)
      /\ cur' = [cur EXCEPT ![k] = IF usable = {} THEN NoConn ELSE m_conns[n]]
      /\ Goto(k, IF usable = {} THEN "connect" ELSE "send")
      /\ UNCHANGED <<sockVars, m_request, sent, result, made>>

Fails(k, error) == result' = [result EXCEPT ![k] = [error |-> error, of |-> 0]]

\* The address, the socket and connect(): a new connection; or none, and the caller returns with
\* POOL_GET_CONNECTION, or with INVALID_HOST, CREATE_SOCKET_ERROR or CONNECT_FAIL.
NewConnection(k) ==
  /\ pc[k] = "connect"
  /\ \/ \E c \in Conns, s \in Target :
          /\ Connect(c, s) /\ cur' = [cur EXCEPT ![k] = c]
          /\ m_total' = m_total + (IF k \in PoolCallers THEN 1 ELSE 0)
          /\ Goto(k, "send") /\ UNCHANGED sent
     \/ Goto(k, "idle") /\ sent' = [sent EXCEPT ![k] = <<>>] /\ UNCHANGED <<sockVars, cur, m_total>>
  /\ UNCHANGED <<m_conns, m_request, result, made>>

\* sendRequest: to a peer that has closed it succeeds or fails.  (On an open connection it fails only
\* when epoll_ctl does.)
sendRequest(k) ==
  /\ pc[k] = "send"
  /\ \/ conn' = [conn EXCEPT ![cur[k]] = SendUp(@, sent[k])] /\ Goto(k, "recv") /\ UNCHANGED result
     \/ /\ conn[cur[k]].server = "closed"
        /\ Fails(k, "SEND_SOCKET_ERROR") /\ Goto(k, "release") /\ UNCHANGED conn
  /\ UNCHANGED <<lsn, backlog, m_conns, m_total, m_request, cur, sent, made>>

\* Mutant: after a timeout the connection stays open.
recvResponseKeeps(k) ==
  /\ pc[k] = "recv" /\ Goto(k, "release")
  /\ \/ /\ conn[cur[k]].down # <<>>
        /\ conn' = [conn EXCEPT ![cur[k]].down = Tail(@)]
        /\ result' = [result EXCEPT ![k] = [error |-> "OK", of |-> Head(conn[cur[k]].down)]]
     \/ Fails(k, "TIMEOUT") /\ UNCHANGED conn
  /\ UNCHANGED <<lsn, backlog, m_conns, m_total, m_request, cur, sent, made>>

\* recvResponse: the response; or the time is up, or the peer has closed: either closes the connection.
recvResponse(k) ==
  /\ pc[k] = "recv" /\ Goto(k, "release")
  /\ \/ /\ conn[cur[k]].down # <<>>
        /\ conn' = [conn EXCEPT ![cur[k]].down = Tail(@)]
        /\ result' = [result EXCEPT ![k] = [error |-> "OK", of |-> Head(conn[cur[k]].down)]]
     \/ Fails(k, "TIMEOUT") /\ conn' = [conn EXCEPT ![cur[k]] = ClientClosed(@)]
  /\ UNCHANGED <<lsn, backlog, m_conns, m_total, m_request, cur, sent, made>>

Returns(k) == result' = [result EXCEPT ![k] = NoResult] /\ sent' = [sent EXCEPT ![k] = <<>>]

\* Mutant: a connection that is deleted stays counted.
ReleasePtrCounts(k) ==
  LET c == cur[k]
  IN  /\ pc[k] = "release" /\ Returns(k) /\ Goto(k, "idle")
      /\ cur' = [cur EXCEPT ![k] = NoConn]
      /\ m_request' = [m_request EXCEPT ![c] = 0] /\ conn' = [conn EXCEPT ![c] = ClientDeleted(@)]
      /\ UNCHANGED <<lsn, backlog, m_conns, m_total, made>>

\* ReleasePtr, the deleter of the pointer, when doRequest returns; a connection of DoRequest is just
\* destroyed.
ReleasePtr(k) ==
  LET c == cur[k]
      used == m_request[c] + 1
  IN  /\ pc[k] = "release" /\ Returns(k)
      /\ cur' = [cur EXCEPT ![k] = NoConn]
      /\ IF k \in DirectCallers \/ ~isConnected(c) \/ m_createTime + m_maxAliveTime >= Now \/ used >= m_maxRequest
         THEN /\ conn' = [conn EXCEPT ![c] = ClientDeleted(@)]
              /\ m_request' = [m_request EXCEPT ![c] = 0]
              /\ Goto(k, IF k \in DirectCallers THEN "idle" ELSE "uncount") /\ UNCHANGED m_conns
         ELSE /\ m_request' = [m_request EXCEPT ![c] = used]
              /\ m_conns' = Append(m_conns, c) /\ Goto(k, "idle") /\ UNCHANGED conn
      /\ UNCHANGED <<lsn, backlog, m_total, made>>

\* --m_total, after the connection was deleted.
Uncount(k) ==
  /\ pc[k] = "uncount" /\ m_total' = m_total - 1 /\ Goto(k, "idle")
  /\ UNCHANGED <<sockVars, m_conns, m_request, cur, sent, result, made>>

Caller(k) ==
  getConnection(k) \/ NewConnection(k) \/ sendRequest(k) \/ recvResponse(k) \/ ReleasePtr(k)
  \/ Uncount(k)

\* SIGPIPE: a request to a peer that is gone.
CallerKilled == \E k \in Callers : pc[k] = "send" /\ conn[cur[k]].server = "closed"
=============================================================================
