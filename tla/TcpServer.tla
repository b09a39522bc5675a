----------------------------- MODULE TcpServer -----------------------------
(***************************************************************************)
(* gxh::TcpServer (tcp_server.cc) and HttpServer::handleClient             *)
(* (http/http_server.cc): the list of listening sockets, the fibers that   *)
(* accept, the task that closes, and a fiber for each connection.          *)
(***************************************************************************)
EXTENDS Socket

CONSTANTS m_isKeepalive, \* the first argument of HttpServer
          OneVector,     \* TRUE: the program gives every bind() the same vector of failures
          MaxStarts,     \* bound: calls of start()
          MaxStops       \* bound: calls of stop()

VARIABLES m_socks,       \* set of sockets
          m_isStop,
          fiber,         \* <<start, socket>> |-> "none", "check", "accept", "wait" or "ended": startAccept
          closing,       \* tasks of stop() in the queue
          task,          \* the task that runs: "none", "cancelled" or "closing"
          at,            \* the socket it is at
          starts, stops, \* counters of the bounds
          handler,       \* connection |-> "none", "recv" or "reply": handleClient
          req,           \* connection |-> the request handleClient works on
          fails,         \* the vector that the next bind() is given has entries
          bound,         \* what the last bind() returned
          disturbed,     \* history: start() or bind() met fibers of an earlier round, or came after stop()
          inside         \* history: fibers that waited again inside the close() of their socket

taskVars == <<closing, task, at>>
callVars == <<starts, stops, fails, bound, disturbed>>
serverVars == <<m_socks, m_isStop, fiber, taskVars, callVars, handler, req, inside>>

NoSock == 0
Fibers == (1..MaxStarts) \X Socks
Alive == {f \in Fibers : fiber[f] \in {"check", "accept", "wait"}}

ServerInit ==
  /\ m_socks = {} /\ m_isStop = TRUE /\ fiber = [f \in Fibers |-> "none"]
  /\ closing = 0 /\ task = "none" /\ at = NoSock
  /\ starts = 0 /\ stops = 0 /\ fails = FALSE /\ bound = FALSE /\ disturbed = FALSE /\ inside = {}
  /\ handler = [c \in Conns |-> "none"] /\ req = [c \in Conns |-> <<>>]

\* The sockets of S that no fiber holds a pointer to.
Unheld(S, alive) == {s \in S : \A f \in alive : f[2] # s}

Disturbs == disturbed' = (disturbed \/ Alive # {} \/ stops > 0)

\* Mutant: the sockets that could be bound are kept.
bindKeeps(S, F) ==
  /\ task = "none" /\ S # {} /\ NextSocks(S)
  /\ m_socks' = m_socks \cup (S \ F)
  /\ lsn' = [s \in Socks |-> IF s \in F THEN "closed" ELSE IF s \in S THEN "listening" ELSE lsn[s]]
  /\ bound' = (F = {}) /\ fails' = fails /\ Disturbs
  /\ UNCHANGED <<backlog, conn, m_isStop, fiber, taskVars, starts, stops, handler, req, inside>>

\* bind() of the addresses of S, of which those of F fail.  When the vector has entries at the end, of
\* this call or of an earlier one, the list is cleared, and with it every socket is destroyed that no
\* fiber holds.
bind(S, F) ==
  LET full == F # {} \/ fails
  IN  /\ task = "none" /\ S # {} /\ NextSocks(S)
      /\ bound' = ~full /\ fails' = (full /\ OneVector) /\ Disturbs
      /\ IF ~full
         THEN /\ m_socks' = m_socks \cup S
              /\ lsn' = [s \in Socks |-> IF s \in S THEN "listening" ELSE lsn[s]]
              /\ UNCHANGED <<backlog, conn>>
         ELSE /\ m_socks' = {}
              /\ CloseSocks(S \cup Unheld(m_socks, Alive))
      /\ UNCHANGED <<m_isStop, fiber, taskVars, starts, stops, handler, req, inside>>

\* The programs call bind() until it succeeds, and then start().
start ==
  /\ m_isStop /\ bound /\ starts < MaxStarts /\ starts' = starts + 1
  /\ m_isStop' = FALSE
  /\ fiber' = [f \in Fibers |-> IF f[1] = starts' /\ f[2] \in m_socks THEN "check" ELSE fiber[f]]
  /\ Disturbs
  /\ UNCHANGED <<sockVars, m_socks, taskVars, stops, handler, req, fails, bound, inside>>

stop ==
  /\ stops < MaxStops /\ stops' = stops + 1
  /\ m_isStop' = TRUE /\ closing' = closing + 1
  /\ UNCHANGED <<sockVars, m_socks, fiber, task, at, starts, handler, req, fails, bound, disturbed, inside>>

(***************************************************************************)
(* The task of stop(), on a thread of the accept worker: for each socket   *)
(* of the list cancelAll(), then the hooked close(), which calls cancelAll *)
(* again and then close_f; at the end the list is cleared.                 *)
(***************************************************************************)
Woken(s) == [f \in Fibers |-> IF f[2] = s /\ fiber[f] = "wait" THEN "accept" ELSE fiber[f]]

\* The task comes to the sockets of S: cancelAll() of the first of them, or the end.
GoOn(S) ==
  IF S = {} THEN /\ m_socks' = {} /\ task' = "none" /\ at' = NoSock /\ UNCHANGED fiber
  ELSE /\ task' = "cancelled" /\ at' \in {s \in S : \A t \in S : s <= t}
       /\ fiber' = Woken(at') /\ UNCHANGED m_socks

RunStop ==
  /\ closing > 0 /\ task = "none" /\ closing' = closing - 1
  /\ GoOn(m_socks)
  /\ UNCHANGED <<sockVars, m_isStop, callVars, handler, req, inside>>

\* Mutant: close() does not wake the fibers that wait again.
cancelAllNone ==
  /\ task = "cancelled" /\ task' = "closing" /\ UNCHANGED fiber
  /\ UNCHANGED <<sockVars, m_socks, m_isStop, closing, at, callVars, handler, req, inside>>

\* close(): the second cancelAll().
cancelAll ==
  /\ task = "cancelled" /\ task' = "closing" /\ fiber' = Woken(at)
  /\ UNCHANGED <<sockVars, m_socks, m_isStop, closing, at, callVars, handler, req, inside>>

\* close_f.
close_f ==
  /\ task = "closing" /\ CloseSocks({at})
  /\ GoOn({s \in m_socks : lsn'[s] = "listening"})
  /\ UNCHANGED <<m_isStop, closing, callVars, handler, req, inside>>

StopTask == RunStop \/ cancelAll \/ close_f

(***************************************************************************)
(* startAccept.                                                            *)
(***************************************************************************)
\* The loop's condition.  The last pointer to a socket closes it.
CheckStop(f) ==
  /\ fiber[f] = "check"
  /\ fiber' = [fiber EXCEPT ![f] = IF m_isStop THEN "ended" ELSE "accept"]
  /\ IF m_isStop /\ f[2] \notin m_socks /\ lsn[f[2]] = "listening"
     THEN CloseSocks(Unheld({f[2]}, Alive \ {f}))
     ELSE UNCHANGED sockVars
  /\ UNCHANGED <<m_socks, m_isStop, taskVars, callVars, handler, req, inside>>

\* accept() returns with a client, for which handleClient is scheduled (a fiber that waits is woken by
\* the event), or fails: the socket is closed.
AcceptOne(f) ==
  /\ fiber' = [fiber EXCEPT ![f] = "check"]
  /\ \/ /\ fiber[f] \in {"accept", "wait"}
        /\ \E c \in Conns : Accept(f[2], c) /\ handler' = [handler EXCEPT ![c] = "recv"]
     \/ fiber[f] = "accept" /\ lsn[f[2]] = "closed" /\ UNCHANGED <<sockVars, handler>>
  /\ UNCHANGED <<m_socks, m_isStop, taskVars, callVars, req, inside>>

\* Another fiber waits for the same socket.
Taken(f) == \E g \in Fibers : g # f /\ g[2] = f[2] /\ fiber[g] = "wait"
WouldBlock(f) == fiber[f] = "accept" /\ lsn[f[2]] = "listening" /\ backlog[f[2]] = <<>>

\* accept_f gives EAGAIN, also on a socket whose close() is under way: the fiber registers and waits.
AcceptWaits(f) ==
  /\ WouldBlock(f) /\ ~Taken(f)
  /\ fiber' = [fiber EXCEPT ![f] = "wait"]
  /\ inside' = IF task = "closing" /\ at = f[2] THEN inside \cup {f} ELSE inside
  /\ UNCHANGED <<sockVars, m_socks, m_isStop, taskVars, callVars, handler, req>>

(***************************************************************************)
(* handleClient.                                                           *)
(***************************************************************************)
\* A request, or the end of the stream, which ends the session.
recvRequest(c) ==
  /\ handler[c] = "recv"
  /\ \/ /\ conn[c].up # <<>>
        /\ req' = [req EXCEPT ![c] = Head(conn[c].up)] /\ handler' = [handler EXCEPT ![c] = "reply"]
        /\ conn' = [conn EXCEPT ![c].up = Tail(@)]
     \/ /\ conn[c].up = <<>> /\ conn[c].client # "open"
        /\ conn' = [conn EXCEPT ![c] = ServerClosed(conn[c])]
        /\ handler' = [handler EXCEPT ![c] = "none"] /\ UNCHANGED req
  /\ UNCHANGED <<lsn, backlog, m_socks, m_isStop, fiber, taskVars, callVars, inside>>

\* The request is handled, the response sent, and the session closed unless both sides keep it alive.
sendResponse(c) ==
  LET last == ~m_isKeepalive \/ req[c].close
      r == SendDown(conn[c], req[c].id)
  IN  /\ handler[c] = "reply"
      /\ conn' = [conn EXCEPT ![c] = IF last THEN ServerClosed(r) ELSE r]
      /\ handler' = [handler EXCEPT ![c] = IF last THEN "none" ELSE "recv"]
      /\ req' = [req EXCEPT ![c] = <<>>]
      /\ UNCHANGED <<lsn, backlog, m_socks, m_isStop, fiber, taskVars, callVars, inside>>

ServerCalls ==
  start \/ stop \/ \E S \in SUBSET Socks : \E F \in SUBSET S : bind(S, F)
AcceptFiber(f) == CheckStop(f) \/ AcceptOne(f) \/ AcceptWaits(f)
handleClient(c) == recvRequest(c) \/ sendResponse(c)

\* What ends the process: a response to a peer that is gone (SIGPIPE); bind() or another task of stop()
\* that changes the list while a task iterates over it; a second fiber that waits for one socket
\* (the assertion of addEvent).
ServerKilled ==
  \/ \E c \in Conns : handler[c] = "reply" /\ conn[c].client # "open"
  \/ task # "none" /\ (closing > 0 \/ \E s \in Socks : lsn[s] = "new")
  \/ \E f \in Fibers : WouldBlock(f) /\ Taken(f)
=============================================================================
