---------------------------- MODULE ServiceProofs ----------------------------
(***************************************************************************)
(* Theorems about HttpService: the HTTP server, the client's pool of       *)
(* connections and the sockets between them, for any number of callers,    *)
(* connections, listening sockets and calls.                               *)
(***************************************************************************)
EXTENDS HttpService, TLAPS, FiniteSetTheorems, SequenceTheorems

-----------------------------------------------------------------------------
(* Types.                                                                  *)

Messages == [id : Nat, close : BOOLEAN]

ConnType == [client : {"none", "open", "closed", "deleted"}, server : {"none", "open", "closed"},
             up : Seq(Messages), down : Seq(Nat)]

SockTypeOK ==
  /\ lsn \in [Socks -> {"new", "listening", "closed"}]
  /\ backlog \in [Socks -> Seq(Conns)]
  /\ conn \in [Conns -> ConnType]

Stages == {"none", "check", "accept", "wait", "ended"}

ServerTypeOK ==
  /\ m_socks \subseteq Socks /\ m_isStop \in BOOLEAN /\ bound \in BOOLEAN
  /\ fiber \in [Fibers -> Stages]
  /\ task \in {"none", "cancelled", "closing"} /\ (task # "none" => at \in Socks)
  /\ handler \in [Conns -> {"none", "recv", "reply"}]
  /\ req \in [Conns -> Messages \cup {<<>>}]
  /\ \A c \in Conns : handler[c] = "reply" => req[c] \in Messages

Holding == {"send", "recv", "release"}

PoolTypeOK ==
  /\ m_conns \in Seq(Conns) /\ m_total \in Int /\ m_request \in [Conns -> Nat]
  /\ pc \in [Callers -> {"idle", "get", "connect", "uncount"} \cup Holding]
  /\ cur \in [Callers -> Conns \cup {NoConn}]
  /\ sent \in [Callers -> Messages \cup {<<>>}]
  /\ result \in [Callers -> [error : {"NONE", "OK", "TIMEOUT", "SEND_SOCKET_ERROR"}, of : Nat]]
  /\ made \in Nat
  /\ \A k \in Callers : pc[k] \in Holding <=> cur[k] # NoConn
  /\ \A k \in Callers : pc[k] \in {"get", "connect"} \cup Holding => sent[k] \in Messages
  /\ \A k \in Callers : pc[k] \in {"get", "uncount"} => k \in PoolCallers

ServiceTypeOK == SockTypeOK /\ ServerTypeOK /\ PoolTypeOK

-----------------------------------------------------------------------------
(* The server's end of a connection: it waits in one backlog, once, and    *)
(* has a handler only after it was accepted.                               *)

BacklogExact ==
  /\ \A s \in Socks : \A i \in 1..Len(backlog[s]) :
       conn[backlog[s][i]].server = "none" /\ conn[backlog[s][i]].client # "none"
  /\ \A s, t \in Socks : \A i \in 1..Len(backlog[s]), j \in 1..Len(backlog[t]) :
       backlog[s][i] = backlog[t][j] => s = t /\ i = j

HandlerExact == \A c \in Conns : handler[c] # "none" => conn[c].server = "open"

(* The client's end: what is under way on a connection that is still open. *)
Clean(c) == conn[c].up = <<>> /\ conn[c].down = <<>> /\ handler[c] # "reply"

\* At most one of: the request on its way, in the server's hands, the response on its way.
Underway(c, m) ==
  \/ Clean(c)
  \/ conn[c].up = <<m>> /\ conn[c].down = <<>> /\ handler[c] # "reply"
  \/ conn[c].up = <<>> /\ conn[c].down = <<>> /\ handler[c] = "reply" /\ req[c] = m
  \/ conn[c].up = <<>> /\ conn[c].down = <<m.id>> /\ handler[c] # "reply"

InUse == \A k \in Callers : cur[k] # NoConn => conn[cur[k]].client \in {"open", "closed"}

Quietness ==
  /\ \A i \in 1..Len(m_conns) : Clean(m_conns[i])
  /\ \A k \in Callers : pc[k] \in {"send", "release"} /\ conn[cur[k]].client = "open" => Clean(cur[k])
  /\ \A k \in Callers : pc[k] = "recv" => conn[cur[k]].client = "open" /\ Underway(cur[k], sent[k])
  /\ \A k \in Callers : pc[k] = "send" => conn[cur[k]].client = "open"

ResultExact == \A k \in Callers : result[k].error = "OK" => pc[k] = "release" /\ result[k].of = sent[k].id

\* The callers that m_total counts a connection of, and those that will give one back or have none to get.
Lent == {"send", "recv", "release", "uncount"}
Works == {"connect"} \cup Lent
Those(W) == {k \in PoolCallers : pc[k] \in W}

TotalInv ==
  /\ m_total = Len(m_conns) + Cardinality(Those(Lent))
  /\ Len(m_conns) + Cardinality(Those(Works)) <= Cardinality(PoolCallers)

ServiceInv ==
  /\ ServiceTypeOK /\ BacklogExact /\ HandlerExact /\ InUse /\ LentOnce /\ Quietness /\ ResultExact
  /\ TotalInv /\ BindAllOrNothing

-----------------------------------------------------------------------------
(* What the socket operations do to one connection.                        *)

\* The server's close(): the client's view of the connection stays, unless it was deleted.
LEMMA ServerClosedFacts ==
  ASSUME NEW r \in ConnType
  PROVE  /\ ServerClosed(r) \in ConnType /\ ServerClosed(r).up = <<>>
         /\ \/ r.client = "deleted" /\ ServerClosed(r) = NewConn
            \/ /\ ServerClosed(r).client = r.client /\ ServerClosed(r).server = "closed"
               /\ ServerClosed(r).down = r.down
<1> DEFINE q == [r EXCEPT !.server = "closed", !.up = <<>>]
<1>1. q \in ConnType /\ q.client = r.client /\ q.server = "closed" /\ q.up = <<>> /\ q.down = r.down
  BY EmptySeq DEF ConnType
<1>2. NewConn \in ConnType /\ NewConn.up = <<>>
  BY EmptySeq DEF NewConn, ConnType
<1> HIDE DEF q
<1>3. ServerClosed(r) = Gone(q)
  BY DEF ServerClosed, q
<1>4. QED
  BY <1>1, <1>2, <1>3 DEF Gone

\* The client's close().
LEMMA ClientClosedFacts ==
  ASSUME NEW r \in ConnType
  PROVE  /\ ClientClosed(r) \in ConnType /\ ClientClosed(r).client = "closed"
         /\ ClientClosed(r).server = r.server
BY EmptySeq DEF ClientClosed, ConnType

\* The client deletes its socket.
LEMMA ClientDeletedFacts ==
  ASSUME NEW r \in ConnType
  PROVE  /\ ClientDeleted(r) \in ConnType
         /\ \/ r.server = "closed" /\ ClientDeleted(r) = NewConn
            \/ ClientDeleted(r).client = "deleted" /\ ClientDeleted(r).server = r.server
<1> DEFINE q == [r EXCEPT !.client = "deleted", !.down = <<>>]
<1>1. q \in ConnType /\ q.client = "deleted" /\ q.server = r.server
  BY EmptySeq DEF ConnType
<1>2. NewConn \in ConnType
  BY EmptySeq DEF NewConn, ConnType
<1> HIDE DEF q
<1>3. ClientDeleted(r) = Gone(q)
  BY DEF ClientDeleted, q
<1>4. QED
  BY <1>1, <1>2, <1>3 DEF Gone

\* send() of the client.
LEMMA SendUpFacts ==
  ASSUME NEW r \in ConnType, NEW m \in Messages
  PROVE  /\ SendUp(r, m) \in ConnType /\ SendUp(r, m).client = r.client /\ SendUp(r, m).server = r.server
         /\ SendUp(r, m).down = r.down /\ SendUp(r, m).up \in {r.up, Append(r.up, m)}
<1>1. Append(r.up, m) \in Seq(Messages)
  BY AppendProperties DEF ConnType
<1>2. QED
  BY <1>1 DEF SendUp, ConnType

\* send() of the server.
LEMMA SendDownFacts ==
  ASSUME NEW r \in ConnType, NEW n \in Nat
  PROVE  /\ SendDown(r, n) \in ConnType /\ SendDown(r, n).client = r.client
         /\ SendDown(r, n).server = r.server /\ SendDown(r, n).up = r.up
         /\ r.client = "open" => SendDown(r, n).down = Append(r.down, n)
<1>1. Append(r.down, n) \in Seq(Nat)
  BY AppendProperties DEF ConnType
<1>2. QED
  BY <1>1 DEF SendDown, ConnType

\* What the kernel does to the connections of the backlogs it discards.
LEMMA CloseSocksFacts ==
  ASSUME SockTypeOK, NEW S \in SUBSET Socks, CloseSocks(S)
  PROVE  /\ SockTypeOK'
         /\ \A s \in Socks : lsn'[s] = (IF s \in S THEN "closed" ELSE lsn[s])
         /\ \A s \in Socks : backlog'[s] = (IF s \in S THEN <<>> ELSE backlog[s])
         /\ \A c \in Conns : \/ conn'[c] = conn[c] /\ \A s \in S : \A i \in 1..Len(backlog[s]) : backlog[s][i] # c
                             \/ /\ conn'[c] = ServerClosed(conn[c])
                                /\ \E s \in S : \E i \in 1..Len(backlog[s]) : backlog[s][i] = c
<1> DEFINE lost == UNION {Range(backlog[s]) : s \in S}
<1>1. /\ lsn' = [s \in Socks |-> IF s \in S THEN "closed" ELSE lsn[s]]
      /\ backlog' = [s \in Socks |-> IF s \in S THEN <<>> ELSE backlog[s]]
      /\ conn' = [c \in Conns |-> IF c \in lost THEN ServerClosed(conn[c]) ELSE conn[c]]
  BY DEF CloseSocks
<1>2. \A c \in Conns : c \in lost <=> \E s \in S : \E i \in 1..Len(backlog[s]) : backlog[s][i] = c
  <2>1. \A s \in S : DOMAIN backlog[s] = 1..Len(backlog[s])
    BY LenProperties DEF SockTypeOK
  <2>2. QED
    BY <2>1 DEF Range
<1> HIDE DEF lost
<1>3. lsn' \in [Socks -> {"new", "listening", "closed"}]
  BY <1>1 DEF SockTypeOK
<1>4. backlog' \in [Socks -> Seq(Conns)]
  BY <1>1, EmptySeq DEF SockTypeOK
<1>5. conn' \in [Conns -> ConnType]
  BY <1>1, ServerClosedFacts DEF SockTypeOK
<1>6. QED
  BY <1>1, <1>2, <1>3, <1>4, <1>5 DEF SockTypeOK

-----------------------------------------------------------------------------
(* The steps of the server, connection by connection.                      *)

\* One step of the server leaves a connection alone, accepts it, closes it, takes a request from it or
\* answers one on it.
ServerStep(c) ==
  \/ conn'[c] = conn[c] /\ handler'[c] = handler[c] /\ req'[c] = req[c]
  \/ /\ handler[c] # "reply" /\ handler'[c] = "recv" /\ req'[c] = req[c]
     /\ conn[c].client # "none" /\ conn'[c] = [conn[c] EXCEPT !.server = "open"]
  \/ /\ handler[c] # "reply" /\ handler'[c] = "none" /\ req'[c] = req[c]
     /\ conn'[c] = ServerClosed(conn[c])
  \/ /\ handler[c] = "recv" /\ handler'[c] = "reply" /\ conn[c].up # <<>> /\ req'[c] = Head(conn[c].up)
     /\ conn'[c] = [conn[c] EXCEPT !.up = Tail(@)]
  \/ /\ handler[c] = "reply" /\ req'[c] = <<>>
     /\ \/ handler'[c] = "recv" /\ conn'[c] = SendDown(conn[c], req[c].id)
        \/ handler'[c] = "none" /\ conn'[c] = ServerClosed(SendDown(conn[c], req[c].id))

\* Such a step keeps the types, and the handler belongs to an accepted connection.
LEMMA ServerStepTypes ==
  ASSUME SockTypeOK, ServerTypeOK, HandlerExact, NEW c \in Conns, ServerStep(c)
  PROVE  /\ conn'[c] \in ConnType /\ handler'[c] \in {"none", "recv", "reply"}
         /\ req'[c] \in Messages \cup {<<>>} /\ (handler'[c] = "reply" => req'[c] \in Messages)
         /\ handler'[c] # "none" => conn'[c].server = "open"
         /\ \/ conn'[c].client = conn[c].client
            \/ conn[c].client = "deleted" /\ conn'[c].client = "none"
<1> DEFINE r == conn[c]
<1>0. /\ r \in ConnType /\ handler[c] \in {"none", "recv", "reply"} /\ req[c] \in Messages \cup {<<>>}
      /\ handler[c] = "reply" => req[c] \in Messages
      /\ handler[c] # "none" => r.server = "open"
  BY DEF SockTypeOK, ServerTypeOK, HandlerExact
<1> HIDE DEF r
<1>1. CASE conn'[c] = conn[c] /\ handler'[c] = handler[c] /\ req'[c] = req[c]
  BY <1>0, <1>1 DEF r
<1>2. CASE /\ handler[c] # "reply" /\ handler'[c] = "recv" /\ req'[c] = req[c]
           /\ conn[c].client # "none" /\ conn'[c] = [conn[c] EXCEPT !.server = "open"]
  BY <1>0, <1>2 DEF r, ConnType
<1>3. CASE /\ handler[c] # "reply" /\ handler'[c] = "none" /\ req'[c] = req[c]
           /\ conn'[c] = ServerClosed(conn[c])
  <2>1. NewConn.client = "none"
    BY DEF NewConn
  <2>2. QED
    BY <1>0, <1>3, <2>1, ServerClosedFacts DEF r
<1>4. CASE /\ handler[c] = "recv" /\ handler'[c] = "reply" /\ conn[c].up # <<>> /\ req'[c] = Head(conn[c].up)
           /\ conn'[c] = [conn[c] EXCEPT !.up = Tail(@)]
  <2>1. r.up \in Seq(Messages) /\ r.up # <<>>
    BY <1>0, <1>4 DEF r, ConnType
  <2>2. Head(r.up) \in Messages /\ Tail(r.up) \in Seq(Messages)
    BY <2>1, HeadTailProperties
  <2>3. QED
    BY <1>0, <1>4, <2>2 DEF r, ConnType
<1>5. CASE /\ handler[c] = "reply" /\ req'[c] = <<>>
           /\ \/ handler'[c] = "recv" /\ conn'[c] = SendDown(conn[c], req[c].id)
              \/ handler'[c] = "none" /\ conn'[c] = ServerClosed(SendDown(conn[c], req[c].id))
  <2> DEFINE q == SendDown(r, req[c].id)
  <2>1. req[c].id \in Nat
    BY <1>0, <1>5 DEF Messages
  <2>2. q \in ConnType /\ q.client = r.client /\ q.server = r.server
    BY <1>0, <2>1, SendDownFacts
  <2> HIDE DEF q
  <2>3. /\ ServerClosed(q) \in ConnType
        /\ \/ q.client = "deleted" /\ ServerClosed(q) = NewConn
           \/ ServerClosed(q).client = q.client
    BY <2>2, ServerClosedFacts
  <2>4. conn'[c] = q \/ conn'[c] = ServerClosed(q)
    BY <1>5 DEF q, r
  <2>5. handler'[c] = "recv" => conn'[c] = q
    BY <1>5 DEF q, r
  <2>6. NewConn.client = "none"
    BY DEF NewConn
  <2>7. QED
    BY <1>0, <1>5, <2>2, <2>3, <2>4, <2>5, <2>6 DEF r
<1>6. QED
  BY <1>1, <1>2, <1>3, <1>4, <1>5 DEF ServerStep

\* On a connection on which nothing is under way nothing comes up, and one exchange stays one exchange.
LEMMA ServerStepExchange ==
  ASSUME SockTypeOK, ServerTypeOK, HandlerExact, NEW c \in Conns, ServerStep(c), conn[c].client = "open"
  PROVE  /\ Clean(c) => Clean(c)'
         /\ \A m \in Messages : Underway(c, m) => Underway(c, m)'
<1> DEFINE r == conn[c]
<1>0. /\ r \in ConnType /\ handler[c] \in {"none", "recv", "reply"}
      /\ handler[c] = "reply" => req[c] \in Messages
      /\ r.client = "open"
  BY DEF SockTypeOK, ServerTypeOK
<1>1. CASE conn'[c] = conn[c] /\ handler'[c] = handler[c] /\ req'[c] = req[c]
  BY <1>1 DEF Clean, Underway
<1>2. CASE /\ handler[c] # "reply" /\ handler'[c] = "recv" /\ req'[c] = req[c]
           /\ conn[c].client # "none" /\ conn'[c] = [conn[c] EXCEPT !.server = "open"]
  <2>1. conn'[c].up = conn[c].up /\ conn'[c].down = conn[c].down
    BY <1>0, <1>2 DEF ConnType
  <2>2. QED
    BY <1>2, <2>1 DEF Clean, Underway
<1>3. CASE /\ handler[c] # "reply" /\ handler'[c] = "none" /\ req'[c] = req[c]
           /\ conn'[c] = ServerClosed(conn[c])
  <2>1. conn'[c].up = <<>> /\ conn'[c].down = conn[c].down
    BY <1>0, <1>3, ServerClosedFacts
  <2>2. QED
    BY <1>3, <2>1 DEF Clean, Underway
<1>4. CASE /\ handler[c] = "recv" /\ handler'[c] = "reply" /\ conn[c].up # <<>> /\ req'[c] = Head(conn[c].up)
           /\ conn'[c] = [conn[c] EXCEPT !.up = Tail(@)]
  <2>1. conn'[c].up = Tail(conn[c].up) /\ conn'[c].down = conn[c].down
    BY <1>0, <1>4 DEF ConnType
  <2>2. \A m \in Messages : conn[c].up = <<m>> => conn'[c].up = <<>> /\ req'[c] = m
    BY <1>4, <2>1
  <2>3. QED
    BY <1>4, <2>1, <2>2 DEF Clean, Underway
<1>5. CASE /\ handler[c] = "reply" /\ req'[c] = <<>>
           /\ \/ handler'[c] = "recv" /\ conn'[c] = SendDown(conn[c], req[c].id)
              \/ handler'[c] = "none" /\ conn'[c] = ServerClosed(SendDown(conn[c], req[c].id))
  <2> DEFINE q == SendDown(r, req[c].id)
  <2>1. req[c].id \in Nat
    BY <1>0, <1>5 DEF Messages
  <2>2. q \in ConnType /\ q.client = "open" /\ q.up = r.up /\ q.down = Append(r.down, req[c].id)
    BY <1>0, <2>1, SendDownFacts
  <2> HIDE DEF q
  <2>3. ServerClosed(q).up = <<>> /\ ServerClosed(q).down = q.down
    BY <2>2, ServerClosedFacts
  <2>4. conn'[c].up \in {r.up, <<>>} /\ conn'[c].down = Append(r.down, req[c].id) /\ handler'[c] # "reply"
    BY <1>5, <2>2, <2>3 DEF q, r
  <2>5. \A m \in Messages : Underway(c, m) => r.up = <<>> /\ r.down = <<>> /\ req[c] = m
    BY <1>5 DEF Clean, Underway, r
  <2>6. r.down = <<>> => Append(r.down, req[c].id) = <<req[c].id>>
    BY <1>0, <2>1
  <2> HIDE DEF r
  <2>7. QED
    BY <1>5, <2>4, <2>5, <2>6 DEF Clean, Underway
<1>6. QED
  BY <1>1, <1>2, <1>3, <1>4, <1>5 DEF ServerStep

-----------------------------------------------------------------------------
(* The actions of the server.                                              *)

ServerInv == SockTypeOK /\ ServerTypeOK /\ HandlerExact /\ BacklogExact /\ BindAllOrNothing

\* Closing sockets resets the connections of their backlogs, which no fiber handles, and no other.
LEMMA ClosedBacklogs ==
  ASSUME ServerInv, NEW S \in SUBSET Socks, CloseSocks(S), UNCHANGED <<handler, req>>
  PROVE  /\ SockTypeOK' /\ BacklogExact' /\ \A c \in Conns : ServerStep(c)
         /\ \A s \in Socks : lsn'[s] = (IF s \in S THEN "closed" ELSE lsn[s])
<1>1. /\ SockTypeOK'
      /\ \A s \in Socks : lsn'[s] = (IF s \in S THEN "closed" ELSE lsn[s])
      /\ \A s \in Socks : backlog'[s] = (IF s \in S THEN <<>> ELSE backlog[s])
      /\ \A c \in Conns : \/ conn'[c] = conn[c] /\ \A s \in S : \A i \in 1..Len(backlog[s]) : backlog[s][i] # c
                          \/ /\ conn'[c] = ServerClosed(conn[c])
                             /\ \E s \in S : \E i \in 1..Len(backlog[s]) : backlog[s][i] = c
  BY CloseSocksFacts DEF ServerInv
<1>2. ASSUME NEW c \in Conns
      PROVE  ServerStep(c)
  <2>1. CASE conn'[c] = conn[c]
    BY <2>1 DEF ServerStep
  <2>2. CASE /\ conn'[c] = ServerClosed(conn[c])
             /\ \E s \in S : \E i \in 1..Len(backlog[s]) : backlog[s][i] = c
    <3>1. conn[c].server = "none"
      BY <2>2 DEF ServerInv, BacklogExact
    <3>2. handler[c] = "none"
      BY <3>1 DEF ServerInv, HandlerExact
    <3>3. QED
      BY <2>2, <3>2 DEF ServerStep
  <2>3. QED
    BY <1>1, <2>1, <2>2
<1>3. BacklogExact'
  <2>1. \A s \in Socks : Len(backlog'[s]) = (IF s \in S THEN 0 ELSE Len(backlog[s]))
    BY <1>1
  <2>2. ASSUME NEW s \in Socks, NEW i \in 1..Len(backlog'[s])
        PROVE  s \notin S /\ backlog'[s] = backlog[s] /\ i \in 1..Len(backlog[s])
    BY <1>1, <2>1
  <2>3. ASSUME NEW s \in Socks, NEW i \in 1..Len(backlog'[s])
        PROVE  conn'[backlog'[s][i]] = conn[backlog[s][i]]
    <3>1. backlog[s][i] \in Conns
      BY <2>2, <2>3, ElementOfSeq DEF ServerInv, SockTypeOK
    <3>2. \A t \in S : \A j \in 1..Len(backlog[t]) : backlog[t][j] # backlog[s][i]
      BY <2>2, <2>3 DEF ServerInv, BacklogExact
    <3>3. QED
      BY <1>1, <2>2, <2>3, <3>1, <3>2
  <2>4. QED
    BY <2>2, <2>3 DEF ServerInv, BacklogExact
<1>4. QED
  BY <1>1, <1>2, <1>3

\* What a step of the server gives.
ServerKept ==
  SockTypeOK' /\ ServerTypeOK' /\ BacklogExact' /\ BindAllOrNothing' /\ \A c \in Conns : ServerStep(c)

\* bind(): on success the new listeners join the list, on failure every listener that no fiber holds is closed.
LEMMA BindKeeps ==
  ASSUME ServerInv, NEW S \in SUBSET Socks, NEW F \in SUBSET S, bind(S, F)
  PROVE  ServerKept
<1> DEFINE full == F # {} \/ fails
<1>0. /\ UNCHANGED <<fiber, handler, req, task, at>> /\ Alive' = Alive
      /\ bound' = ~full /\ m_isStop' = m_isStop /\ task = "none"
  BY DEF bind, Alive, taskVars
<1>b. bound' \in BOOLEAN
  BY Zenon, <1>0
<1>1. CASE ~full
  <2>1. /\ m_socks' = m_socks \cup S /\ UNCHANGED <<backlog, conn>>
        /\ lsn' = [s \in Socks |-> IF s \in S THEN "listening" ELSE lsn[s]]
    BY <1>1 DEF bind
  <2>2. SockTypeOK' /\ ServerTypeOK' /\ BacklogExact'
    BY <1>0, <1>b, <2>1 DEF ServerInv, SockTypeOK, ServerTypeOK, BacklogExact
  <2>3. Listening' = Listening \cup S
    BY <2>1 DEF Listening
  <2>4. BindAllOrNothing'
    BY <1>0, <1>1, <2>1, <2>3 DEF ServerInv, BindAllOrNothing
  <2>5. QED
    BY <1>0, <2>1, <2>2, <2>4 DEF ServerKept, ServerStep
<1>2. CASE full
  <2> DEFINE gone == S \cup Unheld(m_socks, Alive)
  <2>1. m_socks' = {} /\ CloseSocks(gone)
    BY <1>2 DEF bind
  <2>2. gone \in SUBSET Socks
    BY DEF Unheld, ServerInv, ServerTypeOK
  <2>3. /\ SockTypeOK' /\ BacklogExact' /\ \A c \in Conns : ServerStep(c)
        /\ \A s \in Socks : lsn'[s] = (IF s \in gone THEN "closed" ELSE lsn[s])
    BY <1>0, <2>1, <2>2, ClosedBacklogs
  <2>4. ServerTypeOK'
    BY <1>0, <1>b, <2>1 DEF ServerInv, ServerTypeOK
  <2>5. Listening' = Listening \ gone
    BY <2>3 DEF Listening
  <2>6. BindAllOrNothing'
    BY <1>0, <2>1, <2>5 DEF ServerInv, BindAllOrNothing, Unheld
  <2>7. QED
    BY <2>3, <2>4, <2>6 DEF ServerKept
<1>3. QED
  BY <1>1, <1>2

\* start(): a fiber for each socket of the list; those of an earlier round stay.
LEMMA StartKeeps ==
  ASSUME ServerInv, start
  PROVE  ServerKept
<1>1. /\ UNCHANGED <<sockVars, m_socks, task, at, handler, req, bound>> /\ m_isStop' = FALSE
      /\ fiber' = [f \in Fibers |-> IF f[1] = starts' /\ f[2] \in m_socks THEN "check" ELSE fiber[f]]
  BY DEF start, taskVars
<1>2. UNCHANGED <<lsn, backlog, conn>>
  BY <1>1 DEF sockVars
<1>3. Alive \subseteq Alive' /\ Listening' = Listening
  BY <1>1, <1>2 DEF Alive, Listening
<1>4. SockTypeOK' /\ ServerTypeOK' /\ BacklogExact'
  <2>1. fiber' \in [Fibers -> Stages]
    BY <1>1 DEF ServerInv, ServerTypeOK, Stages
  <2>2. SockTypeOK' /\ BacklogExact'
    BY <1>2 DEF ServerInv, SockTypeOK, BacklogExact
  <2>3. ServerTypeOK'
    BY <1>1, <2>1 DEF ServerInv, ServerTypeOK
  <2>4. QED
    BY <2>2, <2>3
<1>5. BindAllOrNothing'
  BY <1>1, <1>3 DEF ServerInv, BindAllOrNothing
<1>6. QED
  BY <1>1, <1>2, <1>4, <1>5 DEF ServerKept, ServerStep

\* stop(): the flag and one more task.
LEMMA StopKeeps ==
  ASSUME ServerInv, stop
  PROVE  ServerKept
<1>1. UNCHANGED <<sockVars, m_socks, fiber, task, at, handler, req, bound>> /\ m_isStop' = TRUE
  BY DEF stop
<1>2. UNCHANGED <<lsn, backlog, conn>> /\ Alive' = Alive /\ Listening' = Listening
  BY <1>1 DEF sockVars, Alive, Listening
<1>3. SockTypeOK' /\ ServerTypeOK' /\ BacklogExact' /\ BindAllOrNothing'
  BY <1>1, <1>2 DEF ServerInv, SockTypeOK, ServerTypeOK, BacklogExact, BindAllOrNothing
<1>4. QED
  BY <1>1, <1>2, <1>3 DEF ServerKept, ServerStep

\* The task comes to the next socket, or to its end: the fibers that it wakes stay alive.
LEMMA GoesOn ==
  ASSUME ServerTypeOK, NEW S \in SUBSET Socks, GoOn(S)
  PROVE  /\ fiber' \in [Fibers -> Stages] /\ Alive' = Alive
         /\ task' \in {"none", "cancelled", "closing"} /\ (task' # "none" => at' \in Socks)
         /\ S = {} => m_socks' = {} /\ task' = "none"
         /\ S # {} => m_socks' = m_socks /\ task' # "none"
<1>1. CASE S = {}
  BY <1>1 DEF GoOn, Alive, ServerTypeOK
<1>2. CASE S # {}
  <2>1. task' = "cancelled" /\ at' \in S /\ fiber' = Woken(at') /\ m_socks' = m_socks
    BY <1>2 DEF GoOn
  <2>2. QED
    BY <1>2, <2>1 DEF Woken, Alive, ServerTypeOK, Stages
<1>3. QED
  BY <1>1, <1>2

\* stop()'s task begins.
LEMMA RunStopKeeps ==
  ASSUME ServerInv, RunStop
  PROVE  ServerKept
<1>1. GoOn(m_socks) /\ UNCHANGED <<lsn, backlog, conn, m_isStop, handler, req, bound>>
  BY DEF RunStop, sockVars, callVars
<1>2. m_socks \in SUBSET Socks /\ ServerTypeOK
  BY DEF ServerInv, ServerTypeOK
<1>3. /\ fiber' \in [Fibers -> Stages] /\ Alive' = Alive
      /\ task' \in {"none", "cancelled", "closing"} /\ (task' # "none" => at' \in Socks)
      /\ m_socks' = m_socks /\ (task' # "none" \/ m_socks' = {})
  BY <1>1, <1>2, GoesOn
<1>4. ServerTypeOK' /\ SockTypeOK' /\ BacklogExact' /\ Listening' = Listening
  BY <1>1, <1>3 DEF ServerInv, ServerTypeOK, SockTypeOK, BacklogExact, Listening
<1>5. BindAllOrNothing'
  BY <1>1, <1>3, <1>4 DEF ServerInv, BindAllOrNothing
<1>6. QED
  BY <1>1, <1>4, <1>5 DEF ServerKept, ServerStep

\* The second cancelAll() only wakes.
LEMMA CancelAllKeeps ==
  ASSUME ServerInv, cancelAll
  PROVE  ServerKept
<1>1. /\ task = "cancelled" /\ task' = "closing" /\ fiber' = Woken(at)
      /\ UNCHANGED <<lsn, backlog, conn, m_socks, m_isStop, at, handler, req, bound>>
  BY DEF cancelAll, sockVars, callVars
<1>2. fiber' \in [Fibers -> Stages] /\ Alive' = Alive
  BY <1>1 DEF ServerInv, ServerTypeOK, Stages, Woken, Alive
<1>3. ServerTypeOK' /\ SockTypeOK' /\ BacklogExact' /\ Listening' = Listening
  BY <1>1, <1>2 DEF ServerInv, ServerTypeOK, SockTypeOK, BacklogExact, Listening
<1>4. BindAllOrNothing'
  BY <1>1, <1>2, <1>3 DEF ServerInv, BindAllOrNothing
<1>5. QED
  BY <1>1, <1>3, <1>4 DEF ServerKept, ServerStep

\* close_f closes one socket of the list, which is cleared after the last; what listens still is in the
\* hands of a fiber.
LEMMA CloseKeeps ==
  ASSUME ServerInv, close_f
  PROVE  ServerKept
<1> DEFINE S == {s \in m_socks : lsn'[s] = "listening"}
<1>1. /\ task = "closing" /\ CloseSocks({at}) /\ GoOn(S)
      /\ UNCHANGED <<m_isStop, handler, req, bound>>
  BY DEF close_f, callVars
<1>2. {at} \in SUBSET Socks /\ S \in SUBSET Socks /\ ServerTypeOK
  BY <1>1 DEF ServerInv, ServerTypeOK
<1>3. /\ SockTypeOK' /\ BacklogExact' /\ \A c \in Conns : ServerStep(c)
      /\ \A s \in Socks : lsn'[s] = (IF s \in {at} THEN "closed" ELSE lsn[s])
  BY <1>1, <1>2, ClosedBacklogs
<1>4. /\ fiber' \in [Fibers -> Stages] /\ Alive' = Alive
      /\ task' \in {"none", "cancelled", "closing"} /\ (task' # "none" => at' \in Socks)
      /\ S = {} => m_socks' = {} /\ task' = "none"
      /\ S # {} => m_socks' = m_socks /\ task' # "none"
  <2> HIDE DEF S
  <2>1. QED
    BY <1>1, <1>2, GoesOn
<1>5. ServerTypeOK'
  <2>1. m_socks' \subseteq Socks
    BY <1>4 DEF ServerInv, ServerTypeOK
  <2>2. QED
    BY <1>1, <1>4, <2>1 DEF ServerInv, ServerTypeOK
<1>6. Listening' = {s \in Listening : s # at}
  BY <1>3 DEF Listening
<1>7. BindAllOrNothing'
  <2>1. \A s \in Listening' : s \in m_socks => s \in S
    BY DEF Listening
  <2> HIDE DEF S
  <2>2. CASE S = {}
    BY <1>1, <1>4, <1>6, <2>1, <2>2 DEF ServerInv, BindAllOrNothing
  <2>3. CASE S # {}
    BY <1>1, <1>4, <1>6, <2>3 DEF ServerInv, BindAllOrNothing
  <2>4. QED
    BY <2>2, <2>3
<1>8. QED
  BY <1>3, <1>5, <1>7 DEF ServerKept

\* A fiber that ends closes its socket when it held the last pointer to it.
LEMMA CheckStopKeeps ==
  ASSUME ServerInv, NEW f \in Fibers, CheckStop(f)
  PROVE  ServerKept
<1>0. /\ fiber[f] = "check" /\ fiber' = [fiber EXCEPT ![f] = IF m_isStop THEN "ended" ELSE "accept"]
      /\ UNCHANGED <<m_socks, m_isStop, task, at, handler, req, bound>>
  BY DEF CheckStop, taskVars, callVars
<1>1. f[2] \in Socks
  BY DEF Fibers
<1>2. ServerTypeOK'
  BY <1>0 DEF ServerInv, ServerTypeOK, Stages
<1>3. Alive' = (IF m_isStop THEN Alive \ {f} ELSE Alive)
  BY <1>0 DEF Alive, ServerInv, ServerTypeOK
<1>4. CASE m_isStop /\ f[2] \notin m_socks /\ lsn[f[2]] = "listening"
  <2> DEFINE gone == Unheld({f[2]}, Alive \ {f})
  <2>1. CloseSocks(gone) /\ gone \in SUBSET Socks
    BY <1>1, <1>4 DEF CheckStop, Unheld
  <2>2. /\ SockTypeOK' /\ BacklogExact' /\ \A c \in Conns : ServerStep(c)
        /\ \A s \in Socks : lsn'[s] = (IF s \in gone THEN "closed" ELSE lsn[s])
    BY <1>0, <2>1, ClosedBacklogs
  <2>3. Listening' = Listening \ gone
    BY <2>2 DEF Listening
  <2>4. BindAllOrNothing'
    BY <1>0, <1>3, <1>4, <2>3 DEF ServerInv, BindAllOrNothing, Unheld
  <2>5. QED
    BY <1>2, <2>2, <2>4 DEF ServerKept
<1>5. CASE ~(m_isStop /\ f[2] \notin m_socks /\ lsn[f[2]] = "listening")
  <2>1. UNCHANGED <<lsn, backlog, conn>>
    BY <1>5 DEF CheckStop, sockVars
  <2>2. SockTypeOK' /\ BacklogExact' /\ Listening' = Listening
    BY <2>1 DEF ServerInv, SockTypeOK, BacklogExact, Listening
  <2>3. \A s \in Listening : s = f[2] => ~m_isStop \/ s \in m_socks
    BY <1>5 DEF Listening
  <2>4. BindAllOrNothing'
    BY <1>0, <1>3, <2>2, <2>3 DEF ServerInv, BindAllOrNothing
  <2>5. QED
    BY <1>0, <1>2, <2>1, <2>2, <2>4 DEF ServerKept, ServerStep
<1>6. QED
  BY <1>4, <1>5

\* accept() takes the head of one backlog, which is in no other and is nobody's yet.
LEMMA AcceptOneKeeps ==
  ASSUME ServerInv, NEW f \in Fibers, AcceptOne(f)
  PROVE  ServerKept
<1>0. /\ fiber[f] \in {"accept", "wait"} /\ fiber' = [fiber EXCEPT ![f] = "check"]
      /\ UNCHANGED <<m_socks, m_isStop, task, at, req, bound>>
  BY DEF AcceptOne, taskVars, callVars
<1>1. f[2] \in Socks /\ Alive' = Alive
  BY <1>0 DEF Fibers, Alive, ServerInv, ServerTypeOK
<1>2. CASE lsn[f[2]] = "closed" /\ UNCHANGED <<sockVars, handler>>
  <2>1. UNCHANGED <<lsn, backlog, conn, handler>> /\ Listening' = Listening
    BY <1>2 DEF sockVars, Listening
  <2>2. SockTypeOK' /\ ServerTypeOK' /\ BacklogExact' /\ BindAllOrNothing'
    BY <1>0, <1>1, <2>1 DEF ServerInv, SockTypeOK, ServerTypeOK, Stages, BacklogExact, BindAllOrNothing
  <2>3. QED
    BY <1>0, <2>1, <2>2 DEF ServerKept, ServerStep
<1>3. CASE \E c \in Conns : Accept(f[2], c) /\ handler' = [handler EXCEPT ![c] = "recv"]
  <2> DEFINE s == f[2]
  <2>0. PICK c \in Conns : Accept(s, c) /\ handler' = [handler EXCEPT ![c] = "recv"]
    BY <1>3
  <2>1. /\ backlog[s] # <<>> /\ c = Head(backlog[s]) /\ backlog' = [backlog EXCEPT ![s] = Tail(@)]
        /\ conn' = [conn EXCEPT ![c].server = "open"] /\ UNCHANGED lsn /\ s \in Socks
    BY <1>1, <2>0 DEF Accept
  <2> HIDE DEF s
  <2>2. /\ backlog[s] \in Seq(Conns) /\ 1 \in 1..Len(backlog[s]) /\ backlog[s][1] = c
        /\ Tail(backlog[s]) \in Seq(Conns) /\ Len(Tail(backlog[s])) = Len(backlog[s]) - 1
        /\ \A i \in 1..Len(Tail(backlog[s])) :
             i + 1 \in 1..Len(backlog[s]) /\ Tail(backlog[s])[i] = backlog[s][i + 1]
    <3>1. backlog[s] \in Seq(Conns)
      BY <2>1 DEF ServerInv, SockTypeOK
    <3>2. QED
      BY <2>1, <3>1, HeadTailProperties
  <2>3. conn[c].server = "none" /\ conn[c].client # "none" /\ handler[c] = "none"
    BY <2>1, <2>2 DEF ServerInv, BacklogExact, HandlerExact
  <2>4. SockTypeOK'
    BY <2>1, <2>2 DEF ServerInv, SockTypeOK, ConnType
  <2>5. ServerTypeOK'
    BY <1>0, <2>0 DEF ServerInv, ServerTypeOK, Stages
  <2>6. ASSUME NEW d \in Conns
        PROVE  ServerStep(d)
    BY <1>0, <2>0, <2>1, <2>3, <2>6 DEF ServerStep, ServerInv, SockTypeOK, ServerTypeOK
  <2>7. BacklogExact'
    <3> DEFINE old(t, i) == IF t = s THEN i + 1 ELSE i
    <3>1. ASSUME NEW t \in Socks, NEW i \in 1..Len(backlog'[t])
          PROVE  /\ old(t, i) \in 1..Len(backlog[t]) /\ backlog'[t][i] = backlog[t][old(t, i)]
                 /\ backlog'[t][i] \in Conns /\ backlog'[t][i] # c
      <4>1. /\ old(t, i) \in 1..Len(backlog[t]) /\ backlog'[t][i] = backlog[t][old(t, i)]
        BY <2>1, <2>2, <3>1 DEF ServerInv, SockTypeOK
      <4>2. backlog[t] \in Seq(Conns) /\ ~(t = s /\ old(t, i) = 1)
        BY <2>1, <3>1 DEF ServerInv, SockTypeOK
      <4>3. backlog[t][old(t, i)] \in Conns
        BY <4>1, <4>2, ElementOfSeq
      <4>4. QED
        BY SMTT(40), <2>1, <2>2, <4>1, <4>2, <4>3 DEF ServerInv, BacklogExact
    <3>2. \A d \in Conns : d # c => conn'[d] = conn[d]
      BY <2>1 DEF ServerInv, SockTypeOK
    <3>3. \A t \in Socks : \A i, j \in 1..Len(backlog'[t]) : old(t, i) = old(t, j) => i = j
      <4> SUFFICES ASSUME NEW t \in Socks, NEW i \in 1..Len(backlog'[t]), NEW j \in 1..Len(backlog'[t]),
                          old(t, i) = old(t, j)
                   PROVE  i = j
        OBVIOUS
      <4>1. i \in Int /\ j \in Int
        OBVIOUS
      <4>2. QED
        BY <4>1
    <3> HIDE DEF old
    <3>4. \A t \in Socks : \A i \in 1..Len(backlog'[t]) :
            conn'[backlog'[t][i]].server = "none" /\ conn'[backlog'[t][i]].client # "none"
      BY <3>1, <3>2 DEF ServerInv, BacklogExact
    <3>5. \A t, u \in Socks : \A i \in 1..Len(backlog'[t]), j \in 1..Len(backlog'[u]) :
            backlog'[t][i] = backlog'[u][j] => t = u /\ i = j
      <4> SUFFICES ASSUME NEW t \in Socks, NEW u \in Socks,
                          NEW i \in 1..Len(backlog'[t]), NEW j \in 1..Len(backlog'[u]),
                          backlog'[t][i] = backlog'[u][j]
                   PROVE  t = u /\ i = j
        OBVIOUS
      <4>1. backlog[t][old(t, i)] = backlog[u][old(u, j)]
        BY <3>1
      <4>2. t = u /\ old(t, i) = old(u, j)
        BY <3>1, <4>1 DEF ServerInv, BacklogExact
      <4>3. QED
        BY <3>3, <4>2
    <3>6. QED
      BY <3>4, <3>5 DEF BacklogExact
  <2>8. Listening' = Listening
    BY <2>1 DEF Listening
  <2>9. BindAllOrNothing'
    BY <1>0, <1>1, <2>8 DEF ServerInv, BindAllOrNothing
  <2>10. QED
    BY <2>4, <2>5, <2>6, <2>7, <2>9 DEF ServerKept
<1>4. QED
  BY <1>2, <1>3 DEF AcceptOne

\* A fiber that waits stays alive.
LEMMA AcceptWaitsKeeps ==
  ASSUME ServerInv, NEW f \in Fibers, AcceptWaits(f)
  PROVE  ServerKept
<1>1. /\ fiber[f] = "accept" /\ fiber' = [fiber EXCEPT ![f] = "wait"]
      /\ UNCHANGED <<lsn, backlog, conn, m_socks, m_isStop, task, at, handler, req, bound>>
  BY DEF AcceptWaits, WouldBlock, sockVars, taskVars, callVars
<1>2. fiber' \in [Fibers -> Stages] /\ Alive' = Alive
  BY <1>1 DEF ServerInv, ServerTypeOK, Stages, Alive
<1>3. ServerTypeOK' /\ SockTypeOK' /\ BacklogExact' /\ Listening' = Listening
  BY <1>1, <1>2 DEF ServerInv, ServerTypeOK, SockTypeOK, BacklogExact, Listening
<1>4. BindAllOrNothing'
  BY <1>1, <1>2, <1>3 DEF ServerInv, BindAllOrNothing
<1>5. QED
  BY <1>1, <1>3, <1>4 DEF ServerKept, ServerStep

\* handleClient touches one accepted connection, which is in no backlog.
LEMMA HandleClientKeeps ==
  ASSUME ServerInv, NEW c \in Conns, handleClient(c)
  PROVE  ServerKept
<1>0. UNCHANGED <<lsn, backlog, m_socks, m_isStop, fiber, task, at, bound>>
  BY DEF handleClient, recvRequest, sendResponse, taskVars, callVars
<1>1. handler[c] # "none" /\ conn[c].server = "open"
  BY DEF handleClient, recvRequest, sendResponse, ServerInv, HandlerExact
<1>2. ASSUME NEW d \in Conns
      PROVE  ServerStep(d) /\ (d # c => conn'[d] = conn[d])
  <2>1. CASE recvRequest(c)
    <3>1. CASE /\ handler[c] = "recv" /\ conn[c].up # <<>>
               /\ req' = [req EXCEPT ![c] = Head(conn[c].up)] /\ handler' = [handler EXCEPT ![c] = "reply"]
               /\ conn' = [conn EXCEPT ![c].up = Tail(@)]
      BY <1>2, <3>1 DEF ServerStep, ServerInv, SockTypeOK, ServerTypeOK
    <3>2. CASE /\ handler[c] = "recv" /\ conn' = [conn EXCEPT ![c] = ServerClosed(conn[c])]
               /\ handler' = [handler EXCEPT ![c] = "none"] /\ UNCHANGED req
      BY <1>2, <3>2 DEF ServerStep, ServerInv, SockTypeOK, ServerTypeOK
    <3>3. QED
      BY <2>1, <3>1, <3>2 DEF recvRequest
  <2>2. CASE sendResponse(c)
    BY <1>2, <2>2 DEF sendResponse, ServerStep, ServerInv, SockTypeOK, ServerTypeOK
  <2>3. QED
    BY <2>1, <2>2 DEF handleClient
<1>3. /\ conn' = [d \in Conns |-> conn'[d]] /\ handler' = [d \in Conns |-> handler'[d]]
      /\ req' = [d \in Conns |-> req'[d]]
  BY DEF handleClient, recvRequest, sendResponse, ServerInv, SockTypeOK, ServerTypeOK
<1>4. ASSUME NEW d \in Conns
      PROVE  /\ conn'[d] \in ConnType /\ handler'[d] \in {"none", "recv", "reply"}
             /\ req'[d] \in Messages \cup {<<>>} /\ (handler'[d] = "reply" => req'[d] \in Messages)
  BY <1>2, <1>4, ServerStepTypes DEF ServerInv
<1>5. SockTypeOK'
  BY <1>0, <1>3, <1>4 DEF ServerInv, SockTypeOK
<1>6. ServerTypeOK'
  <2>1. handler' \in [Conns -> {"none", "recv", "reply"}] /\ req' \in [Conns -> Messages \cup {<<>>}]
    BY <1>3, <1>4
  <2>2. QED
    BY <1>0, <1>4, <2>1 DEF ServerInv, ServerTypeOK
<1>7. BacklogExact'
  <2>1. \A s \in Socks : \A i \in 1..Len(backlog[s]) : backlog[s][i] \in Conns /\ backlog[s][i] # c
    BY <1>1, ElementOfSeq DEF ServerInv, SockTypeOK, BacklogExact
  <2>2. QED
    BY <1>0, <1>2, <2>1 DEF ServerInv, BacklogExact
<1>8. Listening' = Listening /\ Alive' = Alive
  BY <1>0 DEF Listening, Alive
<1>9. BindAllOrNothing'
  BY <1>0, <1>8 DEF ServerInv, BindAllOrNothing
<1>10. QED
  BY <1>2, <1>5, <1>6, <1>7, <1>9 DEF ServerKept

-----------------------------------------------------------------------------
(* The client's side of the invariant, caller by caller and connection by  *)
(* connection of the list.                                                 *)

CallerOK(k) ==
  /\ pc[k] \in {"get", "uncount"} => k \in PoolCallers
  /\ pc[k] \in Holding <=> cur[k] # NoConn
  /\ pc[k] \in {"get", "connect"} \cup Holding => sent[k] \in Messages
  /\ cur[k] # NoConn => conn[cur[k]].client \in {"open", "closed"}
  /\ pc[k] \in {"send", "release"} /\ conn[cur[k]].client = "open" => Clean(cur[k])
  /\ pc[k] = "recv" => conn[cur[k]].client = "open" /\ Underway(cur[k], sent[k])
  /\ pc[k] = "send" => conn[cur[k]].client = "open"
  /\ result[k].error = "OK" => pc[k] = "release" /\ result[k].of = sent[k].id

IdleOK(c) == Usable(c) /\ m_request[c] < m_maxRequest /\ Clean(c)

Apart ==
  /\ \A k, l \in Callers : k # l /\ cur[k] # NoConn => cur[k] # cur[l]
  /\ \A k \in Callers : cur[k] # NoConn => ~InList(cur[k])
  /\ \A i, j \in 1..Len(m_conns) : i # j => m_conns[i] # m_conns[j]

PoolTypes ==
  /\ m_conns \in Seq(Conns) /\ m_total \in Int /\ m_request \in [Conns -> Nat]
  /\ pc \in [Callers -> {"idle", "get", "connect", "uncount"} \cup Holding]
  /\ cur \in [Callers -> Conns \cup {NoConn}]
  /\ sent \in [Callers -> Messages \cup {<<>>}]
  /\ result \in [Callers -> [error : {"NONE", "OK", "TIMEOUT", "SEND_SOCKET_ERROR"}, of : Nat]]
  /\ made \in Nat

ClientInv ==
  /\ PoolTypes /\ Apart /\ (\A k \in Callers : CallerOK(k)) /\ \A i \in 1..Len(m_conns) : IdleOK(m_conns[i])

\* The two ways to write the invariant are the same.
LEMMA SameInv == ServiceInv <=> ServerInv /\ ClientInv /\ TotalInv
<1>1. (\A k \in Callers : CallerOK(k)) <=>
        /\ \A k \in Callers : pc[k] \in {"get", "uncount"} => k \in PoolCallers
        /\ \A k \in Callers : pc[k] \in Holding <=> cur[k] # NoConn
        /\ \A k \in Callers : pc[k] \in {"get", "connect"} \cup Holding => sent[k] \in Messages
        /\ InUse /\ ResultExact
        /\ \A k \in Callers : pc[k] \in {"send", "release"} /\ conn[cur[k]].client = "open" => Clean(cur[k])
        /\ \A k \in Callers : pc[k] = "recv" => conn[cur[k]].client = "open" /\ Underway(cur[k], sent[k])
        /\ \A k \in Callers : pc[k] = "send" => conn[cur[k]].client = "open"
  BY DEF CallerOK, InUse, ResultExact
<1>2. (\A i \in 1..Len(m_conns) : IdleOK(m_conns[i])) <=>
        /\ \A i \in 1..Len(m_conns) : Clean(m_conns[i])
        /\ \A i \in 1..Len(m_conns) : Usable(m_conns[i]) /\ m_request[m_conns[i]] < m_maxRequest
  BY DEF IdleOK
<1>3. QED
  BY <1>1, <1>2 DEF ServiceInv, ServerInv, ClientInv, ServiceTypeOK, PoolTypeOK, PoolTypes, LentOnce, Apart, Quietness

\* A caller whose connection and whose own state a step leaves alone stays as it is.
LEMMA OtherCallers ==
  ASSUME NEW k \in Callers, CallerOK(k),
         cur[k] # NoConn => conn'[cur[k]] = conn[cur[k]],
         UNCHANGED <<handler, req>>, pc'[k] = pc[k], cur'[k] = cur[k], sent'[k] = sent[k], result'[k] = result[k]
  PROVE  CallerOK(k)'
<1>1. CASE cur[k] = NoConn
  <2>1. pc[k] \notin {"send", "recv", "release"} /\ pc[k] \notin Holding
    BY <1>1 DEF CallerOK, Holding
  <2>2. QED
    BY <1>1, <2>1 DEF CallerOK
<1>2. CASE cur[k] # NoConn
  BY <1>2 DEF CallerOK, Clean, Underway
<1>3. QED
  BY <1>1, <1>2

\* The client's operations on a connection do not disturb the server.
LEMMA ClientMoves ==
  ASSUME ServerInv, NEW c \in Conns, NEW v \in ConnType, conn' = [conn EXCEPT ![c] = v],
         UNCHANGED <<lsn, backlog, serverVars>>,
         (v.server = conn[c].server /\ v.client # "none") \/ conn[c].server = "closed"
  PROVE  ServerInv'
<1>1. UNCHANGED <<m_socks, m_isStop, fiber, task, at, handler, req, bound>>
  BY DEF serverVars, taskVars, callVars
<1>2. SockTypeOK' /\ ServerTypeOK'
  BY <1>1 DEF ServerInv, SockTypeOK, ServerTypeOK
<1>3. HandlerExact'
  BY <1>1 DEF ServerInv, HandlerExact, SockTypeOK
<1>4. BacklogExact'
  <2>1. \A s \in Socks : \A i \in 1..Len(backlog[s]) : backlog[s][i] \in Conns
    BY ElementOfSeq DEF ServerInv, SockTypeOK
  <2>2. QED
    BY <2>1 DEF ServerInv, SockTypeOK, BacklogExact
<1>5. Listening' = Listening /\ Alive' = Alive
  BY <1>1 DEF Listening, Alive
<1>6. BindAllOrNothing'
  BY <1>1, <1>5 DEF ServerInv, BindAllOrNothing
<1>7. QED
  BY <1>2, <1>3, <1>4, <1>6 DEF ServerInv

\* Nothing of the sockets and the server changes.
LEMMA ClientRests ==
  ASSUME ServerInv, UNCHANGED <<lsn, backlog, conn, serverVars>>
  PROVE  ServerInv'
<1>1. UNCHANGED <<m_socks, m_isStop, fiber, task, at, handler, req, bound>>
  BY DEF serverVars, taskVars, callVars
<1>2. Listening' = Listening /\ Alive' = Alive
  BY <1>1 DEF Listening, Alive
<1>3. QED
  BY <1>1, <1>2 DEF ServerInv, SockTypeOK, ServerTypeOK, HandlerExact, BacklogExact, BindAllOrNothing

\* A caller moves: how many of the pool's callers are at the places of W.
LEMMA CountMoves ==
  ASSUME NEW W, NEW k \in Callers, NEW w, PoolTypes, pc' = [pc EXCEPT ![k] = w]
  PROVE  /\ Cardinality(Those(W)) \in Nat /\ Cardinality(Those(W)') \in Nat /\ Cardinality(PoolCallers) \in Nat
         /\ Cardinality(Those(W)') <= Cardinality(PoolCallers)
         /\ k \in PoolCallers /\ w \in W /\ pc[k] \notin W => Cardinality(Those(W)') = Cardinality(Those(W)) + 1
         /\ k \in PoolCallers /\ w \notin W /\ pc[k] \in W => Cardinality(Those(W)') = Cardinality(Those(W)) - 1
         /\ k \notin PoolCallers \/ (w \in W <=> pc[k] \in W) => Cardinality(Those(W)') = Cardinality(Those(W))
<1> DEFINE C == {j \in PoolCallers : pc[j] \in W}
           D == {j \in PoolCallers : pc'[j] \in W}
<1>0. Those(W) = C /\ Those(W)' = D
  BY DEF Those
<1>1. IsFiniteSet(PoolCallers)
  BY PoolAssumption
<1>2. /\ IsFiniteSet(C) /\ IsFiniteSet(D) /\ Cardinality(PoolCallers) \in Nat
      /\ Cardinality(C) \in Nat /\ Cardinality(D) \in Nat /\ Cardinality(D) <= Cardinality(PoolCallers)
  BY <1>1, FS_Subset, FS_CardinalityType
<1>3. \A j \in Callers : pc'[j] = (IF j = k THEN w ELSE pc[j])
  BY DEF PoolTypes
<1>4. PoolCallers \subseteq Callers
  BY DEF Callers
<1>5. ASSUME k \in PoolCallers, w \in W, pc[k] \notin W
      PROVE  Cardinality(D) = Cardinality(C) + 1
  <2>1. D = C \cup {k} /\ k \notin C
    BY <1>3, <1>4, <1>5
  <2>2. QED
    BY <1>2, <2>1, FS_AddElement
<1>6. ASSUME k \in PoolCallers, w \notin W, pc[k] \in W
      PROVE  Cardinality(D) = Cardinality(C) - 1
  <2>1. D = C \ {k} /\ k \in C
    BY <1>3, <1>4, <1>6
  <2>2. QED
    BY <1>2, <2>1, FS_RemoveElement
<1>7. ASSUME k \notin PoolCallers \/ (w \in W <=> pc[k] \in W)
      PROVE  Cardinality(D) = Cardinality(C)
  <2>1. D = C
    BY <1>3, <1>4, <1>7
  <2>2. QED
    BY <2>1
<1>8. QED
  BY <1>0, <1>2, <1>5, <1>6, <1>7

-----------------------------------------------------------------------------
(* The actions of the callers.                                             *)

\* What a step of caller k on connection c leaves alone.
Aside(k, c) ==
  /\ UNCHANGED <<handler, req>>
  /\ \A l \in Callers : l # k => /\ pc'[l] = pc[l] /\ cur'[l] = cur[l] /\ sent'[l] = sent[l]
                                /\ result'[l] = result[l]
  /\ \A d \in Conns : d # c => conn'[d] = conn[d] /\ m_request'[d] = m_request[d]

\* Then the other callers, and the connections of the list other than c, keep what holds of them.
LEMMA AsideKeeps ==
  ASSUME ClientInv, NEW k \in Callers, NEW c, Aside(k, c),
         \A l \in Callers : l # k => cur[l] # c \/ c = NoConn
  PROVE  /\ \A l \in Callers : l # k => CallerOK(l)'
         /\ \A d \in Conns : d # c /\ IdleOK(d) => IdleOK(d)'
<1>1. ASSUME NEW l \in Callers, l # k
      PROVE  CallerOK(l)'
  <2>1. cur[l] # NoConn => conn'[cur[l]] = conn[cur[l]]
    BY <1>1 DEF Aside, ClientInv, PoolTypes
  <2>2. QED
    BY <1>1, <2>1, OtherCallers DEF Aside, ClientInv
<1>2. ASSUME NEW d \in Conns, d # c, IdleOK(d)
      PROVE  IdleOK(d)'
  BY <1>2 DEF Aside, IdleOK, Usable, isConnected, Clean, TooYoung, m_createTime
<1>3. QED
  BY <1>1, <1>2

\* The list's connections are connections.
LEMMA ListTypes ==
  ASSUME PoolTypes
  PROVE  \A i \in 1..Len(m_conns) : m_conns[i] \in Conns
BY ElementOfSeq DEF PoolTypes

\* A step on a connection that is not in the list, which stays as it is.
LEMMA ListRests ==
  ASSUME ClientInv, NEW k \in Callers, NEW c, Aside(k, c), m_conns' = m_conns, CallerOK(k)', PoolTypes', Apart',
         \A l \in Callers : l # k => cur[l] # c \/ c = NoConn, ~InList(c)
  PROVE  ClientInv'
<1>1. \A l \in Callers : l # k => CallerOK(l)'
  BY AsideKeeps
<1>2. (\A i \in 1..Len(m_conns) : IdleOK(m_conns[i]))'
  <2> SUFFICES ASSUME NEW i \in 1..Len(m_conns')
               PROVE  IdleOK(m_conns[i])'
    OBVIOUS
  <2>1. IdleOK(m_conns[i]) /\ m_conns[i] \in Conns /\ m_conns[i] # c
    BY ListTypes DEF ClientInv, InList
  <2>2. QED
    BY <2>1 DEF Aside, IdleOK, Usable, isConnected, Clean, TooYoung, m_createTime
<1>3. QED
  BY <1>1, <1>2 DEF ClientInv

\* No connection is numbered like the lack of one.
LEMMA NoConnIsNone ==
  ASSUME PoolTypes
  PROVE  NoConn \notin Conns /\ ~InList(NoConn)
BY SocketAssumption, ListTypes DEF NoConn, InList

\* A caller's own connection is nobody else's.
LEMMA OwnConn ==
  ASSUME ClientInv, NEW k \in Callers, cur[k] # NoConn
  PROVE  cur[k] \in Conns /\ ~InList(cur[k]) /\ \A l \in Callers : l # k => cur[l] # cur[k]
BY DEF ClientInv, PoolTypes, Apart

CallerKept == ServerInv' /\ ClientInv' /\ TotalInv'

\* A call begins: a fresh request, no connection yet.
LEMMA DoRequestKeeps ==
  ASSUME ServiceInv, NEW k \in Callers, NEW close \in BOOLEAN,
         doRequest(k, close) \/ DoRequest(k, close), UNCHANGED serverVars
  PROVE  CallerKept
<1> DEFINE w == IF k \in PoolCallers THEN "get" ELSE "connect"
<1>0. ServerInv /\ ClientInv /\ TotalInv
  BY SameInv
<1>1. /\ pc[k] = "idle" /\ made' = made + 1
      /\ sent' = [sent EXCEPT ![k] = [id |-> made', close |-> close]] /\ pc' = [pc EXCEPT ![k] = w]
      /\ UNCHANGED <<lsn, backlog, conn, m_conns, m_total, m_request, cur, result>>
  BY PoolAssumption DEF doRequest, DoRequest, Request, Goto, sockVars
<1> HIDE DEF w
<1>2. ServerInv'
  BY <1>0, <1>1, ClientRests
<1>3. cur[k] = NoConn /\ result[k].error # "OK"
  BY <1>0, <1>1 DEF ClientInv, CallerOK, Holding
<1>4. PoolTypes'
  <2>1. [id |-> made', close |-> close] \in Messages
    BY <1>0, <1>1 DEF ClientInv, PoolTypes, Messages
  <2>2. QED
    BY <1>0, <1>1, <2>1 DEF ClientInv, PoolTypes, w
<1>5. Apart'
  BY <1>0, <1>1 DEF ClientInv, Apart, InList
<1>6. CallerOK(k)'
  <2>1. /\ pc'[k] \in {"get", "connect"} /\ sent'[k] \in Messages /\ cur'[k] = NoConn /\ result'[k].error # "OK"
        /\ pc'[k] = "get" => k \in PoolCallers
    BY <1>0, <1>1, <1>3, <1>4 DEF ClientInv, PoolTypes, w, Messages
  <2>2. QED
    BY <2>1 DEF CallerOK, Holding
<1>7. Aside(k, NoConn)
  BY <1>0, <1>1 DEF Aside, ClientInv, PoolTypes, serverVars
<1>8. ClientInv'
  BY <1>0, <1>1, <1>4, <1>5, <1>6, <1>7, ListRests, NoConnIsNone DEF ClientInv
<1>9. TotalInv'
  <2>1. pc[k] \notin Lent /\ w \notin Lent /\ pc[k] \notin Works /\ (k \in PoolCallers => w \notin Works)
    BY <1>1 DEF w, Lent, Works
  <2>2. Cardinality(Those(Lent)') = Cardinality(Those(Lent)) /\ Cardinality(Those(Works)') = Cardinality(Those(Works))
    BY <1>0, <1>1, <2>1, CountMoves DEF ClientInv
  <2>3. QED
    BY <1>0, <1>1, <2>2 DEF TotalInv
<1>10. QED
  BY <1>2, <1>8, <1>9 DEF CallerKept

\* The first connection of the list, which is usable like all of them, or none when the list is empty.
LEMMA GetConnectionKeeps ==
  ASSUME ServiceInv, NEW k \in Callers, getConnection(k), UNCHANGED serverVars
  PROVE  CallerKept
<1> DEFINE usable == {i \in 1..Len(m_conns) : Usable(m_conns[i])}
           n == IF usable = {} THEN Len(m_conns) + 1 ELSE Min(usable)
<1>0. ServerInv /\ ClientInv /\ TotalInv /\ PoolTypes
  BY SameInv DEF ClientInv
<1>1. /\ pc[k] = "get" /\ m_conns' = SubSeq(m_conns, n + 1, Len(m_conns)) /\ m_total' = m_total - (n - 1)
      /\ cur' = [cur EXCEPT ![k] = IF usable = {} THEN NoConn ELSE m_conns[n]]
      /\ pc' = [pc EXCEPT ![k] = IF usable = {} THEN "connect" ELSE "send"]
      /\ UNCHANGED <<lsn, backlog, conn, m_request, sent, result, made>>
  BY DEF getConnection, Goto, sockVars
<1>2. ServerInv'
  BY <1>0, <1>1, ClientRests
<1>3. m_conns \in Seq(Conns) /\ Len(m_conns) \in Nat
  BY <1>0 DEF PoolTypes
<1>4. usable = 1..Len(m_conns)
  BY <1>0 DEF ClientInv, IdleOK
<1>5. n = 1
  <2>1. CASE Len(m_conns) = 0
    BY <1>3, <1>4, <2>1
  <2>2. CASE Len(m_conns) > 0
    <3>1. 1 \in usable /\ \A j \in usable : 1 <= j
      BY <1>3, <1>4, <2>2
    <3>2. \A i \in usable : (\A j \in usable : i <= j) => i = 1
      BY <1>3, <1>4, <3>1
    <3> HIDE DEF usable
    <3>3. Min(usable) = 1
      BY <3>1, <3>2 DEF Min
    <3>4. QED
      BY <3>1, <3>3
  <2>3. QED
    BY <1>3, <2>1, <2>2
<1>6. cur[k] = NoConn /\ result[k].error # "OK" /\ sent[k] \in Messages /\ k \in PoolCallers
  BY <1>0, <1>1 DEF ClientInv, CallerOK, Holding
<1> HIDE DEF n
<1>7. CASE Len(m_conns) = 0
  <2>1. usable = {} /\ m_conns = <<>>
    BY <1>3, <1>4, <1>7, EmptySeq
  <2>2. m_conns' = <<>> /\ m_conns' = m_conns /\ m_total' = m_total
    BY <1>0, <1>1, <1>3, <1>5, <1>7, <2>1 DEF PoolTypes
  <2> HIDE DEF usable
  <2>3. cur' = cur /\ pc' = [pc EXCEPT ![k] = "connect"]
    BY <1>0, <1>1, <1>6, <2>1 DEF PoolTypes
  <2>4. PoolTypes'
    BY <1>0, <1>1, <2>2, <2>3 DEF PoolTypes
  <2>5. Apart'
    BY <1>0, <2>2, <2>3 DEF ClientInv, Apart, InList
  <2>6. CallerOK(k)'
    <3>1. pc'[k] = "connect" /\ cur'[k] = NoConn /\ result'[k] = result[k] /\ sent'[k] = sent[k]
      BY <1>0, <1>1, <1>6, <2>3 DEF PoolTypes
    <3>2. QED
      BY <1>6, <3>1 DEF CallerOK, Holding
  <2>7. Aside(k, NoConn)
    BY <1>0, <1>1, <2>3 DEF Aside, PoolTypes, serverVars
  <2>8. ClientInv'
    BY <1>0, <2>2, <2>4, <2>5, <2>6, <2>7, ListRests, NoConnIsNone
  <2>9. TotalInv'
    <3>1. pc[k] \notin Lent /\ "connect" \notin Lent
      BY <1>1 DEF Lent
    <3>2. Cardinality(Those(Lent)') = Cardinality(Those(Lent))
      BY <1>0, <2>3, <3>1, CountMoves
    <3>3. Cardinality(Those(Works)') <= Cardinality(PoolCallers) /\ Cardinality(Those(Works)') \in Nat
      BY <1>0, <2>3, CountMoves
    <3>4. Cardinality(PoolCallers) \in Nat
      BY PoolAssumption, FS_CardinalityType
    <3>5. QED
      BY <1>0, <1>7, <2>2, <3>2, <3>3, <3>4 DEF TotalInv
  <2>10. QED
    BY <1>2, <2>8, <2>9 DEF CallerKept
<1>8. CASE Len(m_conns) > 0
  <2> DEFINE c == m_conns[1]
  <2>1. usable # {} /\ 1 \in 1..Len(m_conns) /\ c \in Conns /\ IdleOK(c)
    BY <1>0, <1>3, <1>4, <1>8, ElementOfSeq DEF ClientInv
  <2> HIDE DEF usable
  <2>2. /\ m_total' = m_total /\ cur' = [cur EXCEPT ![k] = c] /\ pc' = [pc EXCEPT ![k] = "send"]
        /\ m_conns' = SubSeq(m_conns, 2, Len(m_conns))
    <3>1. n + 1 = 2 /\ m_total - (n - 1) = m_total
      BY <1>0, <1>5 DEF PoolTypes
    <3>2. QED
      BY <1>1, <1>5, <2>1, <3>1
  <2>3. /\ m_conns' \in Seq(Conns) /\ Len(m_conns') = Len(m_conns) - 1
        /\ \A i \in 1..Len(m_conns') : i + 1 \in 1..Len(m_conns) /\ m_conns'[i] = m_conns[i + 1] /\ m_conns'[i] # c
    <3>1. /\ m_conns' \in Seq(Conns) /\ Len(m_conns') = Len(m_conns) - 1
          /\ \A i \in 1..Len(m_conns') : i + 1 \in 1..Len(m_conns) /\ m_conns'[i] = m_conns[i + 1]
      <4> DEFINE L == Len(m_conns)
                 t == SubSeq(m_conns, 2, L)
      <4>1. \A i \in 2..L : m_conns[i] \in Conns
        BY <1>3, ElementOfSeq
      <4>2. L \in Int /\ 2 \in Int /\ 2 <= L + 1
        BY <1>3, <1>8
      <4>3. /\ t \in Seq(Conns) /\ Len(t) = (IF 2 <= L THEN L - 2 + 1 ELSE 0)
            /\ \A i \in 1..(L - 2 + 1) : t[i] = m_conns[2 + i - 1]
        BY <4>1, <4>2, SubSeqProperties
      <4> HIDE DEF t, L
      <4>4. Len(t) = L - 1 /\ L - 2 + 1 = L - 1
        BY <4>2, <4>3
      <4>5. ASSUME NEW i \in 1..(L - 1)
            PROVE  t[i] = m_conns[i + 1] /\ i + 1 \in 1..L
        <5>1. 2 + i - 1 = i + 1 /\ i + 1 \in 1..L /\ i \in 1..(L - 2 + 1)
          BY <4>2
        <5>2. t[i] = m_conns[2 + i - 1]
          BY <4>3, <5>1
        <5>3. QED
          BY <5>1, <5>2
      <4>6. QED
        BY <2>2, <4>3, <4>4, <4>5 DEF t, L
    <3>2. \A i \in 1..Len(m_conns') : i + 1 # 1
      BY <3>1
    <3>3. QED
      BY <1>0, <2>1, <3>1, <3>2 DEF ClientInv, Apart
  <2>4. PoolTypes'
    BY <1>0, <1>1, <2>1, <2>2, <2>3 DEF PoolTypes, Holding
  <2>5. c # NoConn /\ InList(c) /\ \A l \in Callers : cur[l] # c
    BY <1>0, <2>1, NoConnIsNone DEF ClientInv, Apart, InList
  <2>6. Apart'
    <3>1. \A d : InList(d)' => InList(d) /\ d # c
      BY <2>3 DEF InList
    <3>2. \A l, m \in Callers : l # m /\ cur'[l] # NoConn => cur'[l] # cur'[m]
      BY <1>0, <2>2, <2>5 DEF ClientInv, Apart, PoolTypes
    <3>3. \A l \in Callers : cur'[l] # NoConn => cur'[l] = c \/ ~InList(cur'[l])
      BY <1>0, <2>2 DEF ClientInv, Apart, PoolTypes
    <3>4. \A l \in Callers : cur'[l] # NoConn => ~InList(cur[l])'
      BY <3>1, <3>3 DEF InList
    <3>5. \A i, j \in 1..Len(m_conns') : i # j => m_conns'[i] # m_conns'[j]
      <4> SUFFICES ASSUME NEW i \in 1..Len(m_conns'), NEW j \in 1..Len(m_conns'), i # j
                   PROVE  m_conns'[i] # m_conns'[j]
        OBVIOUS
      <4>1. i + 1 # j + 1
        OBVIOUS
      <4>2. QED
        BY <1>0, <2>3, <4>1 DEF ClientInv, Apart
    <3>6. QED
      BY <3>2, <3>4, <3>5 DEF Apart
  <2>7. Aside(k, NoConn)
    BY <1>0, <1>1, <2>2 DEF Aside, PoolTypes, serverVars
  <2>8. /\ \A l \in Callers : l # k => CallerOK(l)'
        /\ \A d \in Conns : d # NoConn /\ IdleOK(d) => IdleOK(d)'
    BY <1>0, <2>7, AsideKeeps
  <2>9. CallerOK(k)'
    <3>1. pc'[k] = "send" /\ cur'[k] = c /\ sent'[k] = sent[k] /\ result'[k] = result[k]
      BY <1>0, <1>1, <2>2 DEF PoolTypes
    <3>2. conn'[c].client = "open" /\ handler'[c] # "reply" /\ conn'[c].up = <<>> /\ conn'[c].down = <<>>
      BY <1>1, <2>1 DEF IdleOK, Usable, isConnected, Clean, serverVars
    <3> HIDE DEF c
    <3>3. QED
      BY <1>6, <2>5, <3>1, <3>2 DEF CallerOK, Holding, Clean
  <2>10. (\A i \in 1..Len(m_conns) : IdleOK(m_conns[i]))'
    <3> SUFFICES ASSUME NEW i \in 1..Len(m_conns')
                 PROVE  IdleOK(m_conns[i])'
      OBVIOUS
    <3>1. IdleOK(m_conns[i + 1]) /\ m_conns'[i] = m_conns[i + 1]
      BY <1>0, <2>3 DEF ClientInv
    <3>2. QED
      BY <1>1, <3>1 DEF IdleOK, Usable, isConnected, Clean, TooYoung, m_createTime, serverVars
  <2>11. ClientInv'
    BY <2>4, <2>6, <2>8, <2>9, <2>10 DEF ClientInv
  <2>12. TotalInv'
    <3>1. pc[k] \notin Works /\ "send" \in Works /\ pc[k] \notin Lent /\ "send" \in Lent
      BY <1>1 DEF Works, Lent
    <3>2. /\ Cardinality(Those(Works)') = Cardinality(Those(Works)) + 1 /\ Cardinality(Those(Works)) \in Nat
          /\ Cardinality(Those(Lent)') = Cardinality(Those(Lent)) + 1 /\ Cardinality(Those(Lent)) \in Nat
          /\ Cardinality(PoolCallers) \in Nat
      BY <1>0, <1>6, <2>2, <3>1, CountMoves
    <3>3. Len(m_conns') = Len(m_conns) - 1 /\ m_total' = m_total
      BY <2>2, <2>3
    <3>4. QED
      BY <1>0, <1>3, <3>2, <3>3 DEF TotalInv
  <2>13. QED
    BY <1>2, <2>11, <2>12 DEF CallerKept
<1>9. QED
  BY <1>3, <1>7, <1>8

\* A caller uses the connection it holds: what such a step cannot disturb.
LEMMA UseKeeps ==
  ASSUME ServiceInv, NEW k \in Callers, pc[k] \in Holding, NEW w \in Holding, pc' = [pc EXCEPT ![k] = w],
         NEW v \in ConnType, conn' = [conn EXCEPT ![cur[k]] = v],
         v.server = conn[cur[k]].server, v.client # "none",
         NEW x \in [error : {"NONE", "OK", "TIMEOUT", "SEND_SOCKET_ERROR"}, of : Nat],
         result' = [result EXCEPT ![k] = x], CallerOK(k)',
         UNCHANGED <<lsn, backlog, serverVars, m_conns, m_total, m_request, cur, sent, made>>
  PROVE  CallerKept
<1> DEFINE c == cur[k]
<1>0. ServerInv /\ ClientInv /\ TotalInv /\ PoolTypes
  BY SameInv DEF ClientInv
<1>1. c # NoConn
  BY <1>0 DEF ClientInv, CallerOK
<1>2. c \in Conns /\ ~InList(c) /\ \A l \in Callers : l # k => cur[l] # c
  BY <1>0, <1>1, OwnConn
<1>3. ServerInv'
  BY <1>0, <1>2, ClientMoves
<1>4. PoolTypes'
  BY <1>0 DEF PoolTypes
<1>5. Apart'
  BY <1>0 DEF ClientInv, Apart, InList
<1>6. Aside(k, c)
  BY <1>0 DEF Aside, PoolTypes, serverVars, ServerInv, SockTypeOK
<1> HIDE DEF c
<1>7. ClientInv'
  BY <1>0, <1>2, <1>4, <1>5, <1>6, ListRests
<1>8. TotalInv'
  <2>1. pc[k] \in Lent /\ w \in Lent /\ pc[k] \in Works /\ w \in Works
    BY DEF Holding, Lent, Works
  <2>2. Cardinality(Those(Lent)') = Cardinality(Those(Lent)) /\ Cardinality(Those(Works)') = Cardinality(Those(Works))
    BY <1>0, <2>1, CountMoves
  <2>3. QED
    BY <1>0, <2>2 DEF TotalInv
<1>9. QED
  BY <1>3, <1>7, <1>8 DEF CallerKept

\* The request is the only thing under way on a connection that was clean.
LEMMA SendRequestKeeps ==
  ASSUME ServiceInv, NEW k \in Callers, sendRequest(k), UNCHANGED serverVars
  PROVE  CallerKept
<1> DEFINE c == cur[k]
           m == sent[k]
<1>0. ServerInv /\ ClientInv /\ PoolTypes
  BY SameInv DEF ClientInv
<1>1. /\ pc[k] = "send" /\ UNCHANGED <<lsn, backlog, m_conns, m_total, m_request, cur, sent, made>>
  BY DEF sendRequest
<1>2. c \in Conns /\ c # NoConn /\ m \in Messages /\ conn[c].client = "open" /\ Clean(c) /\ result[k].error # "OK"
  BY <1>0, <1>1, OwnConn DEF ClientInv, CallerOK, Holding
<1>3. conn[c] \in ConnType /\ result[k] \in [error : {"NONE", "OK", "TIMEOUT", "SEND_SOCKET_ERROR"}, of : Nat]
  BY <1>0, <1>2 DEF ServerInv, SockTypeOK, PoolTypes
<1>4. CASE conn' = [conn EXCEPT ![c] = SendUp(@, m)] /\ Goto(k, "recv") /\ UNCHANGED result
  <2> DEFINE v == SendUp(conn[c], m)
  <2>1. /\ v \in ConnType /\ v.client = conn[c].client /\ v.server = conn[c].server
        /\ v.down = conn[c].down /\ v.up \in {conn[c].up, Append(conn[c].up, m)}
    BY <1>2, <1>3, SendUpFacts
  <2>2. conn' = [conn EXCEPT ![c] = v] /\ pc' = [pc EXCEPT ![k] = "recv"] /\ result' = [result EXCEPT ![k] = result[k]]
    BY <1>0, <1>4 DEF Goto, PoolTypes
  <2>3. conn[c].up = <<>> /\ Append(conn[c].up, m) = <<m>>
    BY <1>2 DEF Clean
  <2>4. conn'[c] = v /\ pc'[k] = "recv" /\ result'[k] = result[k] /\ cur'[k] = c /\ sent'[k] = m
    BY <1>0, <1>1, <1>2, <2>2 DEF ServerInv, SockTypeOK, PoolTypes
  <2> HIDE DEF v
  <2>5. (Underway(c, m))'
    BY <1>1, <1>2, <2>1, <2>3, <2>4 DEF Underway, Clean, serverVars
  <2> HIDE DEF c, m
  <2>6. CallerOK(k)'
    <3>1. conn'[c].client = "open"
      BY <1>2, <2>1, <2>4
    <3>2. Underway(cur[k], sent[k])'
      BY <2>5 DEF c, m
    <3>3. conn'[cur'[k]].client = "open" /\ cur'[k] # NoConn /\ sent'[k] \in Messages
      BY <1>2, <2>4, <3>1
    <3>4. QED
      BY <1>2, <2>4, <3>2, <3>3 DEF CallerOK, Holding
  <2>7. QED
    BY <1>1, <1>2, <1>3, <2>1, <2>2, <2>6, UseKeeps DEF c, Holding
<1>5. CASE /\ conn[c].server = "closed"
           /\ Fails(k, "SEND_SOCKET_ERROR") /\ Goto(k, "release") /\ UNCHANGED conn
  <2> DEFINE x == [error |-> "SEND_SOCKET_ERROR", of |-> 0]
  <2>1. /\ conn' = [conn EXCEPT ![c] = conn[c]] /\ pc' = [pc EXCEPT ![k] = "release"]
        /\ result' = [result EXCEPT ![k] = x]
        /\ x \in [error : {"NONE", "OK", "TIMEOUT", "SEND_SOCKET_ERROR"}, of : Nat]
    BY <1>0, <1>5 DEF Goto, Fails, ServerInv, SockTypeOK
  <2>2. pc'[k] = "release" /\ result'[k] = x /\ cur'[k] = c /\ sent'[k] = m /\ conn' = conn
    BY <1>0, <1>1, <1>5, <2>1 DEF PoolTypes
  <2>3. Clean(cur[k])'
    BY <1>1, <1>2, <1>5 DEF Clean, serverVars
  <2>4. CallerOK(k)'
    BY <1>2, <2>2, <2>3 DEF CallerOK, Holding
  <2> HIDE DEF x
  <2>5. QED
    BY <1>1, <1>2, <1>3, <2>1, <2>4, UseKeeps DEF Holding
<1>6. QED
  BY <1>4, <1>5 DEF sendRequest

\* The response is the one to the request under way; without it the connection is closed.
LEMMA RecvResponseKeeps ==
  ASSUME ServiceInv, NEW k \in Callers, recvResponse(k), UNCHANGED serverVars
  PROVE  CallerKept
<1> DEFINE c == cur[k]
           m == sent[k]
<1>0. ServerInv /\ ClientInv /\ PoolTypes
  BY SameInv DEF ClientInv
<1>1. /\ pc[k] = "recv" /\ pc' = [pc EXCEPT ![k] = "release"]
      /\ UNCHANGED <<lsn, backlog, m_conns, m_total, m_request, cur, sent, made>>
  BY DEF recvResponse, Goto
<1>2. c \in Conns /\ c # NoConn /\ m \in Messages /\ conn[c].client = "open" /\ Underway(c, m)
  BY <1>0, <1>1, OwnConn DEF ClientInv, CallerOK, Holding
<1>3. conn[c] \in ConnType
  BY <1>0, <1>2 DEF ServerInv, SockTypeOK
<1>4. CASE /\ conn[c].down # <<>>
           /\ conn' = [conn EXCEPT ![c].down = Tail(@)]
           /\ result' = [result EXCEPT ![k] = [error |-> "OK", of |-> Head(conn[c].down)]]
  <2> DEFINE v == [conn[c] EXCEPT !.down = Tail(@)]
             x == [error |-> "OK", of |-> m.id]
  <2>1. conn[c].up = <<>> /\ conn[c].down = <<m.id>> /\ handler[c] # "reply"
    BY <1>2, <1>4 DEF Underway, Clean
  <2>2. Head(conn[c].down) = m.id /\ Tail(conn[c].down) = <<>> /\ m.id \in Nat
    BY <1>2, <2>1 DEF Messages
  <2>3. /\ v \in ConnType /\ v.client = "open" /\ v.server = conn[c].server /\ v.up = <<>> /\ v.down = <<>>
    BY <1>2, <1>3, <2>1, <2>2, EmptySeq DEF ConnType
  <2>4. /\ conn' = [conn EXCEPT ![c] = v] /\ result' = [result EXCEPT ![k] = x]
        /\ x \in [error : {"NONE", "OK", "TIMEOUT", "SEND_SOCKET_ERROR"}, of : Nat]
    BY <1>4, <2>2
  <2>5. conn'[c] = v /\ pc'[k] = "release" /\ result'[k] = x /\ cur'[k] = c /\ sent'[k] = m
    BY <1>0, <1>1, <1>2, <2>4 DEF ServerInv, SockTypeOK, PoolTypes
  <2> HIDE DEF v
  <2>6. Clean(cur[k])'
    BY <2>1, <2>3, <2>5 DEF Clean, serverVars
  <2>7. CallerOK(k)'
    BY <1>2, <2>3, <2>5, <2>6 DEF CallerOK, Holding
  <2> HIDE DEF x
  <2>8. QED
    BY <1>1, <2>3, <2>4, <2>7, UseKeeps DEF Holding
<1>5. CASE Fails(k, "TIMEOUT") /\ conn' = [conn EXCEPT ![c] = ClientClosed(@)]
  <2> DEFINE v == ClientClosed(conn[c])
             x == [error |-> "TIMEOUT", of |-> 0]
  <2>1. v \in ConnType /\ v.client = "closed" /\ v.server = conn[c].server
    BY <1>3, ClientClosedFacts
  <2>2. /\ conn' = [conn EXCEPT ![c] = v] /\ result' = [result EXCEPT ![k] = x]
        /\ x \in [error : {"NONE", "OK", "TIMEOUT", "SEND_SOCKET_ERROR"}, of : Nat]
    BY <1>5 DEF Fails
  <2>3. conn'[c] = v /\ pc'[k] = "release" /\ result'[k] = x /\ cur'[k] = c /\ sent'[k] = m
    BY <1>0, <1>1, <1>2, <2>2 DEF ServerInv, SockTypeOK, PoolTypes
  <2> HIDE DEF v
  <2>4. CallerOK(k)'
    BY <1>2, <2>1, <2>3 DEF CallerOK, Holding
  <2> HIDE DEF x
  <2>5. QED
    BY <1>1, <2>1, <2>2, <2>4, UseKeeps DEF Holding
<1>6. QED
  BY <1>4, <1>5 DEF recvResponse

\* The decrement that ReleasePtr makes after its delete.
LEMMA UncountKeeps ==
  ASSUME ServiceInv, NEW k \in Callers, Uncount(k), UNCHANGED serverVars
  PROVE  CallerKept
<1>0. ServerInv /\ ClientInv /\ TotalInv /\ PoolTypes
  BY SameInv DEF ClientInv
<1>1. /\ pc[k] = "uncount" /\ m_total' = m_total - 1 /\ pc' = [pc EXCEPT ![k] = "idle"]
      /\ UNCHANGED <<lsn, backlog, conn, m_conns, m_request, cur, sent, result, made>>
  BY DEF Uncount, Goto, sockVars
<1>2. ServerInv'
  BY <1>0, <1>1, ClientRests
<1>3. cur[k] = NoConn /\ result[k].error # "OK" /\ k \in PoolCallers
  BY <1>0, <1>1 DEF ClientInv, CallerOK, Holding
<1>4. PoolTypes'
  BY <1>0, <1>1 DEF PoolTypes
<1>5. Apart'
  BY <1>0, <1>1 DEF ClientInv, Apart, InList
<1>6. CallerOK(k)'
  <2>1. pc'[k] = "idle" /\ cur'[k] = NoConn /\ result'[k].error # "OK"
    BY <1>0, <1>1, <1>3 DEF PoolTypes
  <2>2. QED
    BY <2>1 DEF CallerOK, Holding
<1>7. Aside(k, NoConn)
  BY <1>0, <1>1 DEF Aside, PoolTypes, serverVars
<1>8. ClientInv'
  BY <1>0, <1>1, <1>4, <1>5, <1>6, <1>7, ListRests, NoConnIsNone
<1>9. TotalInv'
  <2>1. pc[k] \in Lent /\ "idle" \notin Lent /\ pc[k] \in Works /\ "idle" \notin Works
    BY <1>1 DEF Lent, Works
  <2>2. /\ Cardinality(Those(Lent)') = Cardinality(Those(Lent)) - 1 /\ Cardinality(Those(Lent)) \in Nat
        /\ Cardinality(Those(Works)') = Cardinality(Those(Works)) - 1 /\ Cardinality(Those(Works)) \in Nat
        /\ Cardinality(PoolCallers) \in Nat
    BY <1>0, <1>1, <1>3, <2>1, CountMoves
  <2>3. Len(m_conns) \in Nat
    BY <1>0 DEF PoolTypes
  <2>4. QED
    BY <1>0, <1>1, <2>2, <2>3 DEF TotalInv
<1>10. QED
  BY <1>2, <1>8, <1>9 DEF CallerKept

\* A connection that is new is nobody's.
LEMMA NewIsFree ==
  ASSUME ServerInv, ClientInv, NEW c \in Conns, conn[c] = NewConn
  PROVE  /\ ~InList(c) /\ (\A l \in Callers : cur[l] # c) /\ handler[c] = "none"
         /\ \A s \in Socks : \A i \in 1..Len(backlog[s]) : backlog[s][i] # c
<1>1. conn[c].client = "none" /\ conn[c].server = "none"
  BY DEF NewConn
<1>2. ~InList(c)
  BY <1>1 DEF InList, ClientInv, IdleOK, Usable, isConnected
<1>3. ASSUME NEW l \in Callers
      PROVE  cur[l] # c
  <2>1. c # NoConn
    BY NoConnIsNone DEF ClientInv
  <2>2. QED
    BY <1>1, <2>1 DEF ClientInv, CallerOK
<1>4. handler[c] = "none"
  BY <1>1 DEF ServerInv, HandlerExact
<1>5. QED
  BY <1>1, <1>2, <1>3, <1>4 DEF ServerInv, BacklogExact

\* connect() puts the new connection at the end of one backlog.
LEMMA ConnectKeeps ==
  ASSUME ServerInv, ClientInv, NEW c \in Conns, NEW s \in Socks, Connect(c, s), UNCHANGED serverVars
  PROVE  /\ ServerInv' /\ (\A d \in Conns : d # c => conn'[d] = conn[d])
         /\ conn'[c].client = "open" /\ Clean(c)'
<1>1. /\ conn[c] = NewConn /\ conn' = [conn EXCEPT ![c].client = "open"]
      /\ backlog' = [backlog EXCEPT ![s] = Append(@, c)] /\ UNCHANGED lsn
  BY DEF Connect, NextConn
<1>2. UNCHANGED <<m_socks, m_isStop, fiber, task, at, handler, req, bound>>
  BY DEF serverVars, taskVars, callVars
<1>3. handler[c] = "none" /\ \A t \in Socks : \A i \in 1..Len(backlog[t]) : backlog[t][i] # c
  BY <1>1, NewIsFree
<1>4. conn'[c] = [NewConn EXCEPT !.client = "open"] /\ \A d \in Conns : d # c => conn'[d] = conn[d]
  BY <1>1 DEF ServerInv, SockTypeOK
<1>5. /\ conn'[c].client = "open" /\ conn'[c].server = "none" /\ conn'[c].up = <<>> /\ conn'[c].down = <<>>
      /\ conn'[c] \in ConnType
  BY <1>4, EmptySeq DEF NewConn, ConnType
<1>6. /\ backlog[s] \in Seq(Conns) /\ Append(backlog[s], c) \in Seq(Conns)
      /\ Len(Append(backlog[s], c)) = Len(backlog[s]) + 1 /\ Len(backlog[s]) \in Nat
      /\ \A i \in 1..Len(backlog[s]) : Append(backlog[s], c)[i] = backlog[s][i]
      /\ Append(backlog[s], c)[Len(backlog[s]) + 1] = c
  <2>1. backlog[s] \in Seq(Conns)
    BY DEF ServerInv, SockTypeOK
  <2>2. QED
    BY <2>1, AppendProperties, LenProperties
<1>7. SockTypeOK'
  <2>1. conn' \in [Conns -> ConnType]
    BY <1>1, <1>4, <1>5 DEF ServerInv, SockTypeOK
  <2>2. QED
    BY <1>1, <1>6, <2>1 DEF ServerInv, SockTypeOK
<1>8. ServerTypeOK' /\ HandlerExact'
  BY <1>2, <1>3, <1>4 DEF ServerInv, ServerTypeOK, HandlerExact
<1>9. BacklogExact'
  <2>1. ASSUME NEW t \in Socks, NEW i \in 1..Len(backlog'[t])
        PROVE  \/ t = s /\ i = Len(backlog[s]) + 1 /\ backlog'[t][i] = c
               \/ i \in 1..Len(backlog[t]) /\ backlog'[t][i] = backlog[t][i] /\ backlog'[t][i] # c
                  /\ backlog'[t][i] \in Conns
    <3>1. CASE t = s
      <4>1. backlog'[t] = Append(backlog[s], c)
        BY <1>1, <3>1 DEF ServerInv, SockTypeOK
      <4>2. i = Len(backlog[s]) + 1 \/ i \in 1..Len(backlog[s])
        BY <1>6, <2>1, <4>1
      <4>3. QED
        BY <1>3, <1>6, <3>1, <4>1, <4>2, ElementOfSeq
    <3>2. CASE t # s
      <4>1. backlog'[t] = backlog[t] /\ backlog[t] \in Seq(Conns)
        BY <1>1, <3>2 DEF ServerInv, SockTypeOK
      <4>2. QED
        BY <1>3, <2>1, <4>1, ElementOfSeq
    <3>3. QED
      BY <3>1, <3>2
  <2>2. \A t \in Socks : \A i \in 1..Len(backlog'[t]) :
          conn'[backlog'[t][i]].server = "none" /\ conn'[backlog'[t][i]].client # "none"
    <3> SUFFICES ASSUME NEW t \in Socks, NEW i \in 1..Len(backlog'[t])
                 PROVE  conn'[backlog'[t][i]].server = "none" /\ conn'[backlog'[t][i]].client # "none"
      OBVIOUS
    <3>1. CASE backlog'[t][i] = c
      BY <1>5, <3>1
    <3>2. CASE backlog'[t][i] # c
      <4>1. i \in 1..Len(backlog[t]) /\ backlog'[t][i] = backlog[t][i] /\ backlog'[t][i] \in Conns
        BY <2>1, <3>2
      <4>2. conn'[backlog'[t][i]] = conn[backlog[t][i]]
        BY <1>4, <3>2, <4>1
      <4>3. QED
        BY <4>1, <4>2 DEF ServerInv, BacklogExact
    <3>3. QED
      BY <3>1, <3>2
  <2>3. \A t, u \in Socks : \A i \in 1..Len(backlog'[t]), j \in 1..Len(backlog'[u]) :
          backlog'[t][i] = backlog'[u][j] => t = u /\ i = j
    BY <2>1 DEF ServerInv, BacklogExact
  <2>4. QED
    BY <2>2, <2>3 DEF BacklogExact
<1>10. Listening' = Listening /\ Alive' = Alive
  BY <1>1, <1>2 DEF Listening, Alive
<1>11. BindAllOrNothing'
  BY <1>2, <1>10 DEF ServerInv, BindAllOrNothing
<1>12. Clean(c)'
  BY <1>2, <1>3, <1>5 DEF Clean
<1>13. QED
  BY <1>4, <1>5, <1>7, <1>8, <1>9, <1>11, <1>12 DEF ServerInv

\* A caller gets a connection that nobody has, or returns without one.
LEMMA NewConnectionKeeps ==
  ASSUME ServiceInv, NEW k \in Callers, NewConnection(k), UNCHANGED serverVars
  PROVE  CallerKept
<1>0. ServerInv /\ ClientInv /\ TotalInv /\ PoolTypes
  BY SameInv DEF ClientInv
<1>1. pc[k] = "connect" /\ UNCHANGED <<m_conns, m_request, result, made>>
  BY DEF NewConnection
<1>2. cur[k] = NoConn /\ result[k].error # "OK" /\ sent[k] \in Messages
  BY <1>0, <1>1 DEF ClientInv, CallerOK, Holding
<1>3. Len(m_conns) \in Nat
  BY <1>0 DEF PoolTypes
<1>4. ASSUME NEW c \in Conns, NEW s \in Target, Connect(c, s), cur' = [cur EXCEPT ![k] = c],
             m_total' = m_total + (IF k \in PoolCallers THEN 1 ELSE 0), Goto(k, "send"), UNCHANGED sent
      PROVE  CallerKept
  <2>1. s \in Socks /\ pc' = [pc EXCEPT ![k] = "send"] /\ conn[c] = NewConn
    BY <1>4, PoolAssumption DEF Goto, Connect, NextConn
  <2>2. /\ ServerInv' /\ (\A d \in Conns : d # c => conn'[d] = conn[d])
        /\ conn'[c].client = "open" /\ Clean(c)'
    BY <1>0, <1>4, <2>1, ConnectKeeps
  <2>3. ~InList(c) /\ (\A l \in Callers : cur[l] # c) /\ c # NoConn
    BY <1>0, <2>1, NewIsFree, NoConnIsNone
  <2>4. PoolTypes'
    BY <1>0, <1>1, <1>4, <2>1 DEF PoolTypes, Holding
  <2>5. Apart'
    <3>1. \A l \in Callers : cur'[l] = (IF l = k THEN c ELSE cur[l])
      BY <1>0, <1>4 DEF PoolTypes
    <3>2. QED
      BY <1>0, <1>1, <2>3, <3>1 DEF ClientInv, Apart, InList
  <2>6. CallerOK(k)'
    <3>1. pc'[k] = "send" /\ cur'[k] = c /\ sent'[k] = sent[k] /\ result'[k] = result[k]
      BY <1>0, <1>1, <1>4, <2>1 DEF PoolTypes
    <3>2. Clean(cur[k])'
      BY <2>2, <3>1 DEF Clean
    <3>3. QED
      BY <1>2, <2>2, <2>3, <3>1, <3>2 DEF CallerOK, Holding
  <2>7. Aside(k, c)
    BY <1>0, <1>1, <1>4, <2>1, <2>2 DEF Aside, PoolTypes, serverVars
  <2>8. ClientInv'
    BY <1>0, <1>1, <2>3, <2>4, <2>5, <2>6, <2>7, ListRests
  <2>9. TotalInv'
    <3>1. pc[k] \notin Lent /\ "send" \in Lent /\ pc[k] \in Works /\ "send" \in Works
      BY <1>1 DEF Lent, Works
    <3>2. /\ Cardinality(Those(Lent)') = Cardinality(Those(Lent)) + (IF k \in PoolCallers THEN 1 ELSE 0)
          /\ Cardinality(Those(Lent)) \in Nat /\ Cardinality(Those(Works)') = Cardinality(Those(Works))
      <4>1. CASE k \in PoolCallers
        BY <1>0, <2>1, <3>1, <4>1, CountMoves
      <4>2. CASE k \notin PoolCallers
        <5>1. Cardinality(Those(Lent)') = Cardinality(Those(Lent)) /\ Cardinality(Those(Lent)) \in Nat
          BY <1>0, <2>1, <4>2, CountMoves
        <5>2. Cardinality(Those(Works)') = Cardinality(Those(Works))
          BY <1>0, <2>1, <4>2, CountMoves
        <5>3. QED
          BY <4>2, <5>1, <5>2
      <4>3. QED
        BY <4>1, <4>2
    <3>3. QED
      BY <1>0, <1>1, <1>3, <1>4, <3>2 DEF TotalInv
  <2>10. QED
    BY <2>2, <2>8, <2>9 DEF CallerKept
<1>5. ASSUME Goto(k, "idle"), sent' = [sent EXCEPT ![k] = <<>>], UNCHANGED <<sockVars, cur, m_total>>
      PROVE  CallerKept
  <2>1. pc' = [pc EXCEPT ![k] = "idle"] /\ UNCHANGED <<lsn, backlog, conn>>
    BY <1>5 DEF Goto, sockVars
  <2>2. ServerInv'
    BY <1>0, <2>1, ClientRests
  <2>3. PoolTypes'
    BY <1>0, <1>1, <1>5, <2>1 DEF PoolTypes
  <2>4. Apart'
    BY <1>0, <1>1, <1>5 DEF ClientInv, Apart, InList
  <2>5. CallerOK(k)'
    <3>1. pc'[k] = "idle" /\ cur'[k] = NoConn /\ result'[k].error # "OK"
      BY <1>0, <1>1, <1>2, <1>5, <2>1 DEF PoolTypes
    <3>2. QED
      BY <3>1 DEF CallerOK, Holding
  <2>6. Aside(k, NoConn)
    BY <1>0, <1>1, <1>5, <2>1 DEF Aside, PoolTypes, serverVars
  <2>7. ClientInv'
    BY <1>0, <1>1, <2>3, <2>4, <2>5, <2>6, ListRests, NoConnIsNone
  <2>8. TotalInv'
    <3>1. pc[k] \notin Lent /\ "idle" \notin Lent /\ pc[k] \in Works /\ "idle" \notin Works
      BY <1>1 DEF Lent, Works
    <3>2. /\ Cardinality(Those(Lent)') = Cardinality(Those(Lent)) /\ Cardinality(Those(Works)) \in Nat
          /\ Cardinality(Those(Works)') \in Nat /\ Cardinality(Those(Works)') <= Cardinality(Those(Works))
          /\ Cardinality(PoolCallers) \in Nat
      <4>1. Cardinality(Those(Lent)') = Cardinality(Those(Lent))
        BY <1>0, <2>1, <3>1, CountMoves
      <4>2. /\ Cardinality(Those(Works)) \in Nat /\ Cardinality(PoolCallers) \in Nat
            /\ Cardinality(Those(Works)') \in Nat
            /\ \/ Cardinality(Those(Works)') = Cardinality(Those(Works)) - 1
               \/ Cardinality(Those(Works)') = Cardinality(Those(Works))
        <5>1. CASE k \in PoolCallers
          BY <1>0, <2>1, <3>1, <5>1, CountMoves
        <5>2. CASE k \notin PoolCallers
          BY <1>0, <2>1, <5>2, CountMoves
        <5>3. QED
          BY <5>1, <5>2
      <4>3. QED
        BY <4>1, <4>2
    <3>3. QED
      BY <1>0, <1>1, <1>3, <1>5, <3>2 DEF TotalInv
  <2>9. QED
    BY <2>2, <2>7, <2>8 DEF CallerKept
<1>6. QED
  BY <1>4, <1>5 DEF NewConnection

\* A connection is deleted, or comes back to the end of the list, open and clean.
LEMMA ReleasePtrKeeps ==
  ASSUME ServiceInv, NEW k \in Callers, ReleasePtr(k), UNCHANGED serverVars
  PROVE  CallerKept
<1> DEFINE c == cur[k]
           used == m_request[c] + 1
           drop == \/ k \in DirectCallers \/ ~isConnected(c) \/ m_createTime + m_maxAliveTime >= Now
                   \/ used >= m_maxRequest
<1>0. ServerInv /\ ClientInv /\ TotalInv /\ PoolTypes
  BY SameInv DEF ClientInv
<1>1. /\ pc[k] = "release" /\ result' = [result EXCEPT ![k] = NoResult] /\ sent' = [sent EXCEPT ![k] = <<>>]
      /\ cur' = [cur EXCEPT ![k] = NoConn] /\ UNCHANGED <<lsn, backlog, m_total, made>>
  BY DEF ReleasePtr, Returns
<1>2. c \in Conns /\ c # NoConn /\ (conn[c].client = "open" => Clean(c)) /\ conn[c].client \in {"open", "closed"}
  BY <1>0, <1>1, OwnConn DEF ClientInv, CallerOK, Holding
<1>3. ~InList(c) /\ \A l \in Callers : l # k => cur[l] # c
  BY <1>0, <1>2, OwnConn
<1>4. conn[c] \in ConnType /\ m_request[c] \in Nat /\ Len(m_conns) \in Nat
  BY <1>0, <1>2 DEF ServerInv, SockTypeOK, PoolTypes
<1>5. \A l \in Callers : cur'[l] = (IF l = k THEN NoConn ELSE cur[l])
  BY <1>0, <1>1 DEF PoolTypes
<1>6. NoResult \in [error : {"NONE", "OK", "TIMEOUT", "SEND_SOCKET_ERROR"}, of : Nat] /\ NoResult.error # "OK"
  BY DEF NoResult
<1>7. CASE drop
  <2> DEFINE v == ClientDeleted(conn[c])
             w == IF k \in DirectCallers THEN "idle" ELSE "uncount"
  <2>1. /\ conn' = [conn EXCEPT ![c] = v] /\ m_request' = [m_request EXCEPT ![c] = 0]
        /\ pc' = [pc EXCEPT ![k] = w] /\ m_conns' = m_conns
    BY <1>7 DEF ReleasePtr, Goto
  <2>2. /\ v \in ConnType
        /\ (v.server = conn[c].server /\ v.client # "none") \/ conn[c].server = "closed"
    BY <1>4, ClientDeletedFacts
  <2> HIDE DEF v, w
  <2>3. ServerInv'
    <3> HIDE DEF c
    <3>1. QED
      BY <1>0, <1>1, <1>2, <2>1, <2>2, ClientMoves
  <2>4. PoolTypes'
    BY <1>0, <1>1, <1>6, <2>1 DEF PoolTypes, w
  <2>5. Apart'
    BY <1>0, <1>5, <2>1 DEF ClientInv, Apart, InList
  <2>6. CallerOK(k)'
    <3>1. pc'[k] \in {"idle", "uncount"} /\ cur'[k] = NoConn /\ result'[k].error # "OK"
      BY <1>0, <1>1, <1>6, <2>1 DEF PoolTypes, w
    <3>2. pc'[k] = "uncount" => k \in PoolCallers
      BY <1>0, <2>1 DEF PoolTypes, w, Callers
    <3>3. QED
      BY <3>1, <3>2 DEF CallerOK, Holding
  <2>7. Aside(k, c)
    BY <1>0, <1>1, <1>5, <2>1 DEF Aside, PoolTypes, serverVars, ServerInv, SockTypeOK
  <2>8. ClientInv'
    <3> HIDE DEF c
    <3>1. QED
      BY <1>0, <1>3, <2>1, <2>4, <2>5, <2>6, <2>7, ListRests
  <2>9. TotalInv'
    <3>1. pc[k] \in Lent /\ pc[k] \in Works /\ "uncount" \in Lent /\ "uncount" \in Works
      BY <1>1 DEF Lent, Works
    <3>2. k \notin PoolCallers \/ w = "uncount"
      BY PoolAssumption DEF w
    <3>3. Cardinality(Those(Lent)') = Cardinality(Those(Lent)) /\ Cardinality(Those(Works)') = Cardinality(Those(Works))
      BY <1>0, <2>1, <3>1, <3>2, CountMoves
    <3>4. QED
      BY <1>0, <1>1, <2>1, <3>3 DEF TotalInv
  <2>10. QED
    BY <2>3, <2>8, <2>9 DEF CallerKept
<1>8. CASE ~drop
  <2>1. /\ conn' = conn /\ m_request' = [m_request EXCEPT ![c] = used]
        /\ pc' = [pc EXCEPT ![k] = "idle"] /\ m_conns' = Append(m_conns, c)
    BY <1>8 DEF ReleasePtr, Goto
  <2>2. /\ k \in PoolCallers /\ isConnected(c) /\ ~(m_createTime + m_maxAliveTime >= Now)
        /\ ~(used >= m_maxRequest)
    BY <1>8 DEF Callers
  <2>3. ServerInv'
    BY <1>0, <1>1, <2>1, ClientRests
  <2>4. /\ m_conns' \in Seq(Conns) /\ Len(m_conns') = Len(m_conns) + 1
        /\ \A i \in 1..Len(m_conns) : m_conns'[i] = m_conns[i] /\ m_conns'[Len(m_conns) + 1] = c
    BY <1>0, <1>2, <2>1, AppendProperties DEF PoolTypes
  <2>5. /\ m_conns'[Len(m_conns) + 1] = c
    BY <1>0, <1>2, <2>1, AppendProperties DEF PoolTypes
  <2>6. ASSUME NEW i \in 1..Len(m_conns')
        PROVE  \/ i = Len(m_conns) + 1 /\ m_conns'[i] = c
               \/ /\ i \in 1..Len(m_conns) /\ m_conns'[i] = m_conns[i] /\ m_conns'[i] # c
                  /\ m_conns'[i] \in Conns
    <3>1. i = Len(m_conns) + 1 \/ i \in 1..Len(m_conns)
      BY <1>4, <2>4, <2>6
    <3>2. QED
      BY <1>0, <1>3, <2>4, <2>5, <3>1, ListTypes DEF InList
  <2>7. PoolTypes'
    BY <1>0, <1>1, <1>4, <1>6, <2>1, <2>4 DEF PoolTypes
  <2>8. Apart'
    <3>1. \A l, j \in Callers : l # j /\ cur'[l] # NoConn => cur'[l] # cur'[j]
      BY <1>0, <1>5 DEF ClientInv, Apart
    <3>2. \A l \in Callers : cur'[l] # NoConn => l # k /\ cur'[l] # c /\ ~InList(cur[l]) /\ cur'[l] = cur[l]
      BY <1>0, <1>3, <1>5 DEF ClientInv, Apart
    <3>3. \A l \in Callers : cur'[l] # NoConn => ~InList(cur[l])'
      BY <2>6, <3>2 DEF InList
    <3>4. \A i, j \in 1..Len(m_conns') : i # j => m_conns'[i] # m_conns'[j]
      BY <1>0, <2>6 DEF ClientInv, Apart
    <3>5. QED
      BY <3>1, <3>3, <3>4 DEF Apart
  <2>9. CallerOK(k)'
    <3>1. pc'[k] = "idle" /\ cur'[k] = NoConn /\ result'[k].error # "OK"
      BY <1>0, <1>1, <1>6, <2>1 DEF PoolTypes
    <3>2. QED
      BY <3>1 DEF CallerOK, Holding
  <2>10. Aside(k, c)
    BY <1>0, <1>1, <1>5, <2>1 DEF Aside, PoolTypes, serverVars
  <2>11. \A l \in Callers : l # k => CallerOK(l)'
    <3> HIDE DEF c
    <3>1. QED
      BY <1>0, <1>3, <2>10, AsideKeeps
  <2>12. (\A i \in 1..Len(m_conns) : IdleOK(m_conns[i]))'
    <3> SUFFICES ASSUME NEW i \in 1..Len(m_conns')
                 PROVE  IdleOK(m_conns[i])'
      OBVIOUS
    <3>1. CASE m_conns'[i] = c
      <4>1. m_request'[c] = used /\ used < m_maxRequest
        BY <1>0, <1>2, <1>4, <2>1, <2>2, PoolAssumption DEF PoolTypes
      <4>2. Usable(c) /\ Clean(c)
        BY <1>2, <2>2, PoolAssumption DEF Usable, TooYoung, isConnected, m_createTime
      <4>3. UNCHANGED <<handler, conn>>
        BY <2>1 DEF serverVars
      <4> HIDE DEF c, used
      <4>4. QED
        BY <3>1, <4>1, <4>2, <4>3 DEF IdleOK, Usable, isConnected, Clean, TooYoung, m_createTime
    <3>2. CASE m_conns'[i] # c
      <4>1. IdleOK(m_conns[i]) /\ m_conns'[i] = m_conns[i] /\ m_conns[i] \in Conns /\ m_conns[i] # c
        BY <1>0, <2>6, <3>2 DEF ClientInv
      <4>2. QED
        BY <2>10, <4>1 DEF Aside, IdleOK, Usable, isConnected, Clean, TooYoung, m_createTime
    <3>3. QED
      BY <3>1, <3>2
  <2>13. ClientInv'
    BY <2>7, <2>8, <2>9, <2>11, <2>12 DEF ClientInv
  <2>14. TotalInv'
    <3>1. pc[k] \in Lent /\ "idle" \notin Lent /\ pc[k] \in Works /\ "idle" \notin Works
      BY <1>1 DEF Lent, Works
    <3>2. /\ Cardinality(Those(Lent)') = Cardinality(Those(Lent)) - 1 /\ Cardinality(Those(Lent)) \in Nat
          /\ Cardinality(Those(Works)') = Cardinality(Those(Works)) - 1 /\ Cardinality(Those(Works)) \in Nat
          /\ Cardinality(PoolCallers) \in Nat
      BY <1>0, <2>1, <2>2, <3>1, CountMoves
    <3>3. Len(m_conns') = Len(m_conns) + 1 /\ m_total' = m_total
      BY <1>1, <2>4
    <3>4. QED
      BY <1>0, <1>4, <3>2, <3>3 DEF TotalInv
  <2>15. QED
    BY <2>3, <2>13, <2>14 DEF CallerKept
<1>9. QED
  BY <1>7, <1>8

-----------------------------------------------------------------------------
(* The invariant is inductive.                                             *)

\* The invariant holds before the first call.
LEMMA ServiceInit == Init => ServiceInv
<1> SUFFICES ASSUME Init
             PROVE  ServiceInv
  OBVIOUS
<1> USE DEF Init, SockInit, ServerInit, PoolInit
<1>1. SockTypeOK
  <2>1. NewConn \in ConnType
    BY EmptySeq DEF NewConn, ConnType
  <2>2. QED
    BY <2>1, EmptySeq DEF SockTypeOK
<1>2. ServerTypeOK
  BY DEF ServerTypeOK, Stages
<1>3. HandlerExact
  BY DEF HandlerExact
<1>4. BacklogExact
  BY DEF BacklogExact
<1>5. BindAllOrNothing
  BY DEF BindAllOrNothing, Listening
<1>6. PoolTypes
  BY EmptySeq DEF PoolTypes, NoResult
<1>7. Apart
  BY DEF Apart, InList
<1>8. ASSUME NEW k \in Callers
      PROVE  CallerOK(k)
  BY <1>8 DEF CallerOK, Holding, NoResult
<1>9. TotalInv
  <2>1. Those(Lent) = {} /\ Those(Works) = {}
    BY DEF Those, Lent, Works, Callers
  <2>2. Cardinality(PoolCallers) \in Nat /\ Cardinality({}) = 0
    BY PoolAssumption, FS_CardinalityType, FS_EmptySet
  <2>3. Len(m_conns) = 0 /\ m_total = 0
    OBVIOUS
  <2>4. QED
    BY <2>1, <2>2, <2>3 DEF TotalInv
<1>10. \A i \in 1..Len(m_conns) : IdleOK(m_conns[i])
  OBVIOUS
<1>11. QED
  BY <1>1, <1>2, <1>3, <1>4, <1>5, <1>6, <1>7, <1>8, <1>9, <1>10, SameInv DEF ServerInv, ClientInv

\* Whatever the server does, each caller and each idle connection keep what holds of them.
LEMMA ServingKeeps ==
  ASSUME ServiceInv, Serving
  PROVE  CallerKept
<1>0. ServerInv /\ ClientInv /\ TotalInv /\ PoolTypes
  BY SameInv DEF ClientInv
<1>1. ServerKept
  BY <1>0, BindKeeps, StartKeeps, StopKeeps, RunStopKeeps, CancelAllKeeps, CloseKeeps, CheckStopKeeps, AcceptOneKeeps,
     AcceptWaitsKeeps, HandleClientKeeps DEF Serving, ServerCalls, StopTask, AcceptFiber
<1>2. UNCHANGED <<m_conns, m_total, m_request, pc, cur, sent, result, made>>
  BY DEF Serving, poolVars
<1>3. ASSUME NEW c \in Conns
      PROVE  /\ handler'[c] # "none" => conn'[c].server = "open"
             /\ conn[c].client # "deleted" => conn'[c].client = conn[c].client
             /\ conn[c].client = "open" =>
                  (Clean(c) => Clean(c)') /\ \A m \in Messages : Underway(c, m) => Underway(c, m)'
  <2>1. ServerStep(c) /\ SockTypeOK /\ ServerTypeOK /\ HandlerExact
    BY <1>0, <1>1, <1>3 DEF ServerKept, ServerInv
  <2>2. QED
    BY <1>3, <2>1, ServerStepTypes, ServerStepExchange
<1>4. ServerInv'
  BY <1>1, <1>3 DEF ServerKept, ServerInv, HandlerExact
<1>5. PoolTypes' /\ Apart'
  BY <1>0, <1>2 DEF ClientInv, PoolTypes, Apart, InList
<1>6. ASSUME NEW k \in Callers
      PROVE  CallerOK(k)'
  <2>0. CallerOK(k)
    BY <1>0, <1>6 DEF ClientInv
  <2>1. CASE cur[k] = NoConn
    <3>1. pc[k] \notin Holding /\ pc[k] \notin {"send", "recv", "release"}
      BY <2>0, <2>1 DEF CallerOK, Holding
    <3>2. QED
      BY <1>2, <2>0, <2>1, <3>1 DEF CallerOK
  <2>2. CASE cur[k] # NoConn
    <3> DEFINE c == cur[k]
    <3>1. c \in Conns /\ sent[k] \in Messages /\ conn[c].client \in {"open", "closed"}
      BY <1>0, <1>6, <2>0, <2>2, OwnConn DEF CallerOK, Holding
    <3>2. conn'[c].client = conn[c].client
      BY <1>3, <3>1
    <3>3. conn[c].client = "open" /\ Clean(c) => Clean(cur[k])'
      BY <1>2, <1>3, <3>1 DEF Clean
    <3>4. conn[c].client = "open" /\ Underway(c, sent[k]) => Underway(cur[k], sent[k])'
      <4>1. ASSUME conn[c].client = "open"
            PROVE  \A m \in Messages : Underway(c, m) => Underway(c, m)'
        BY <1>2, <1>3, <3>1, <4>1 DEF Underway, Clean
      <4>2. QED
        BY <1>2, <3>1, <4>1 DEF Underway, Clean
    <3>5. QED
      BY <1>2, <2>0, <2>2, <3>1, <3>2, <3>3, <3>4 DEF CallerOK
  <2>3. QED
    BY <2>1, <2>2
<1>7. (\A i \in 1..Len(m_conns) : IdleOK(m_conns[i]))'
  <2> SUFFICES ASSUME NEW i \in 1..Len(m_conns')
               PROVE  IdleOK(m_conns[i])'
    OBVIOUS
  <2>1. m_conns[i] \in Conns /\ IdleOK(m_conns[i]) /\ m_conns'[i] = m_conns[i]
    BY <1>0, <1>2, ListTypes DEF ClientInv
  <2>2. conn[m_conns[i]].client = "open"
    BY <2>1 DEF IdleOK, Usable, isConnected
  <2>3. conn'[m_conns[i]].client = "open" /\ Clean(m_conns[i])'
    BY <1>2, <1>3, <2>1, <2>2 DEF IdleOK, Clean
  <2>4. QED
    BY <1>2, <2>1, <2>3 DEF IdleOK, Usable, isConnected, TooYoung, m_createTime
<1>8. ClientInv'
  BY <1>5, <1>6, <1>7 DEF ClientInv
<1>9. TotalInv'
  BY <1>0, <1>2 DEF TotalInv, Those
<1>10. QED
  BY <1>4, <1>8, <1>9 DEF CallerKept

\* Every step of the server and of the callers keeps the invariant.
LEMMA ServiceStep == ServiceInv /\ [Next]_vars => ServiceInv'
<1> SUFFICES ASSUME ServiceInv, [Next]_vars
             PROVE  ServiceInv'
  OBVIOUS
<1>0. CallerKept => ServiceInv'
  <2>1. (ServiceInv <=> ServerInv /\ ClientInv /\ TotalInv)'
    BY SameInv, PTL
  <2>2. QED
    BY <2>1 DEF CallerKept
<1>1. CASE Serving
  BY <1>0, <1>1, ServingKeeps
<1>2. CASE Calling
  <2>1. UNCHANGED serverVars
    BY <1>2 DEF Calling
  <2>0. \A k \in Callers : Closes[k] \subseteq BOOLEAN
    BY PoolAssumption DEF Callers
  <2>2. PICK k \in Callers : Caller(k) \/ \E close \in BOOLEAN : doRequest(k, close) \/ DoRequest(k, close)
    BY <1>2, <2>0 DEF Calling
  <2>3. CallerKept
    BY <2>1, <2>2, DoRequestKeeps, GetConnectionKeeps, NewConnectionKeeps, SendRequestKeeps, RecvResponseKeeps,
       ReleasePtrKeeps, UncountKeeps DEF Caller
  <2>4. QED
    BY <1>0, <2>3
<1>3. CASE UNCHANGED <<sockVars, serverVars, poolVars>>
  <2>1. UNCHANGED <<lsn, backlog, conn, serverVars, m_conns, m_total, m_request, pc, cur, sent, result, made>>
    BY <1>3 DEF sockVars, poolVars
  <2>2. ServerInv /\ ClientInv /\ TotalInv
    BY SameInv
  <2>3. ServerInv'
    BY <2>1, <2>2, ClientRests
  <2>4. ClientInv' /\ TotalInv'
    <3>1. UNCHANGED <<handler, req>>
      BY <2>1 DEF serverVars
    <3>2. TotalInv' /\ PoolTypes' /\ Apart'
      BY <2>1, <2>2 DEF ClientInv, TotalInv, Those, PoolTypes, Apart, InList
    <3>3. \A k \in Callers : CallerOK(k)'
      BY <2>1, <2>2, <3>1 DEF ClientInv, CallerOK, Clean, Underway
    <3>4. (\A i \in 1..Len(m_conns) : IdleOK(m_conns[i]))'
      BY <2>1, <2>2, <3>1 DEF ClientInv, IdleOK, Clean, Usable, isConnected, TooYoung, m_createTime
    <3>5. QED
      BY <3>2, <3>3, <3>4 DEF ClientInv
  <2>5. QED
    BY <1>0, <2>3, <2>4 DEF CallerKept
<1>4. QED
  BY <1>1, <1>2, <1>3 DEF Next, Running, Dies, Quiet, vars

\* The invariant of the whole service.
LEMMA ServiceInvariant == Spec => []ServiceInv
<1>1. QED
  BY ServiceInit, ServiceStep, PTL DEF Spec

-----------------------------------------------------------------------------
(* Theorems.                                                               *)

\* A response that doRequest returns answers the request that it was called with, on a new connection
\* or on one that came from the list, whoever used it before and however that ended: a caller that
\* gives up closes the connection before anyone can have it (http_connection.cc:44-46, 348-467).
THEOREM ResponsesAreMine == Spec => []ResponseIsMine
<1>1. ServiceInv => ResponseIsMine
  BY DEF ServiceInv, ResultExact, ResponseIsMine
<1>2. QED
  BY <1>1, ServiceInvariant, PTL

\* The books of the pool: no connection is lent twice or lent and idle, m_total is what the list and the
\* callers account for, and never more than there are callers (http_connection.cc:279-346).
THEOREM PoolIsExact == Spec => []PoolExact
<1>1. ServiceInv => PoolExact
  <2> SUFFICES ASSUME ServiceInv
               PROVE  PoolExact
    OBVIOUS
  <2>1. LentOnce /\ TotalInv /\ PoolTypes
    BY SameInv DEF ServiceInv, ClientInv
  <2>2. Those(Lent) = {k \in PoolCallers : pc[k] \in {"send", "recv", "release", "uncount"}}
    BY DEF Those, Lent
  <2>3. /\ Cardinality(Those(Lent)) \in Nat /\ Cardinality(Those(Works)) \in Nat
        /\ Cardinality(Those(Lent)) <= Cardinality(Those(Works)) /\ Cardinality(PoolCallers) \in Nat
    <3>1. IsFiniteSet(PoolCallers) /\ Those(Works) \subseteq PoolCallers /\ Those(Lent) \subseteq Those(Works)
      BY PoolAssumption DEF Those, Works
    <3>2. IsFiniteSet(Those(Works))
      BY <3>1, FS_Subset
    <3>3. IsFiniteSet(Those(Lent)) /\ Cardinality(Those(Lent)) <= Cardinality(Those(Works))
      BY <3>1, <3>2, FS_Subset
    <3>4. QED
      BY <3>1, <3>2, <3>3, FS_CardinalityType
  <2>4. Len(m_conns) \in Nat
    BY <2>1 DEF PoolTypes
  <2>5. TotalExact
    BY <2>1, <2>2, <2>3, <2>4 DEF TotalInv, TotalExact
  <2>6. QED
    BY <2>1, <2>5 DEF PoolExact
<1>2. QED
  BY <1>1, ServiceInvariant, PTL

\* A bind() that returns false leaves the list empty, also on a running server and for a failure of an
\* earlier call, and whatever start(), the steps of stop() and the accept fibers do in between no
\* listening socket is forgotten: the list or an accept fiber has it (tcp_server.cc:37-111).
THEOREM NoListenerForgotten == Spec => []BindAllOrNothing
<1>1. ServiceInv => BindAllOrNothing
  BY DEF ServiceInv
<1>2. QED
  BY <1>1, ServiceInvariant, PTL
=============================================================================
