------------------------------- MODULE Socket -------------------------------
(***************************************************************************)
(* gxh::Socket and SocketStream (socket.cc, streams/socket_stream.cc) over *)
(* TCP: listening sockets with their backlog, and connections with two     *)
(* ends.  Messages stand for the bytes of a request or a response.         *)
(***************************************************************************)
EXTENDS Naturals, Sequences, FiniteSets, Functions

CONSTANTS Conns,         \* bound: connections at one time, numbered from 1
          Socks          \* bound: listening sockets that are ever made, numbered from 1

ASSUME SocketAssumption == Conns \subseteq Nat \ {0} /\ Socks \subseteq Nat

VARIABLES lsn,           \* socket |-> "new", "listening" or "closed"
          backlog,       \* socket |-> connections nobody has accepted
          conn,          \* connection |-> [client, server: "none", "open", "closed" or "deleted"; up, down: under way]
          dead           \* the process has ended, or nothing can be said of its memory

sockVars == <<lsn, backlog, conn>>

NewConn == [client |-> "none", server |-> "none", up |-> <<>>, down |-> <<>>]

SockInit ==
  /\ lsn = [s \in Socks |-> "new"] /\ backlog = [s \in Socks |-> <<>>]
  /\ conn = [c \in Conns |-> NewConn]

\* Connections and sockets get their numbers in order.
NextConn(c) == conn[c] = NewConn /\ \A d \in Conns : conn[d] = NewConn => c <= d
NextSocks(S) == \A s \in S : lsn[s] = "new" /\ \A t \in Socks \ S : lsn[t] = "new" => s < t

Listening == {s \in Socks : lsn[s] = "listening"}

\* A client's connect() that succeeds.
Connect(c, s) ==
  /\ s \in Listening /\ NextConn(c)
  /\ conn' = [conn EXCEPT ![c].client = "open"]
  /\ backlog' = [backlog EXCEPT ![s] = Append(@, c)]
  /\ UNCHANGED lsn

\* accept() that gets a connection.
Accept(s, c) ==
  /\ backlog[s] # <<>> /\ c = Head(backlog[s])
  /\ backlog' = [backlog EXCEPT ![s] = Tail(@)]
  /\ conn' = [conn EXCEPT ![c].server = "open"]
  /\ UNCHANGED lsn

\* close() by the client, by the server: what is under way to that end is lost.  A connection that the
\* client has deleted and the server has closed is gone.
Gone(r) == IF r.client = "deleted" /\ r.server = "closed" THEN NewConn ELSE r
ClientClosed(r) == [r EXCEPT !.client = "closed", !.down = <<>>]
ClientDeleted(r) == Gone([r EXCEPT !.client = "deleted", !.down = <<>>])
ServerClosed(r) == Gone([r EXCEPT !.server = "closed", !.up = <<>>])

\* The sockets of S are closed; the kernel resets the connections of their backlogs.
CloseSocks(S) ==
  LET lost == UNION {Range(backlog[s]) : s \in S}
  IN  /\ lsn' = [s \in Socks |-> IF s \in S THEN "closed" ELSE lsn[s]]
      /\ backlog' = [s \in Socks |-> IF s \in S THEN <<>> ELSE backlog[s]]
      /\ conn' = [c \in Conns |-> IF c \in lost THEN ServerClosed(conn[c]) ELSE conn[c]]

\* send() of the client and of the server, with no flags; what is sent to an end that is closed is lost.
\* When the reset of an earlier send or close has come back, it ends the process with SIGPIPE instead,
\* which is ignored nowhere (ServerKilled, CallerKilled).
SendUp(r, m) == [r EXCEPT !.up = IF r.server = "closed" THEN @ ELSE Append(@, m)]
SendDown(r, m) == [r EXCEPT !.down = IF r.client # "open" THEN @ ELSE Append(@, m)]
=============================================================================
