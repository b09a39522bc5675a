---------------------------- MODULE HttpSession ----------------------------
(***************************************************************************)
(* One connection: HttpServer::handleClient with HttpSession::recvRequest  *)
(* (or HttpConnection::recvResponse, which runs the same loop over the     *)
(* response parser), and a peer whose bytes arrive in reads of any length, *)
(* who may close or be cut off at any time.                                *)
(***************************************************************************)
EXTENDS HttpParser, FiniteSets

CONSTANTS Units,        \* the units that messages are made of
          Scripts,      \* what a peer may send: sequences of messages
          BufferSize,   \* http.request.buffer_size, in units
          MaxCuts,      \* bound: how many reads of a message end inside a text before the rest comes in full reads
          Keepalive     \* m_isKeepalive

\* A message is any sequence of units, well-formed or not.
ASSUME ScriptsAssumption ==
  /\ BufferSize \in Nat /\ MaxCuts \in Nat /\ NoChar \notin Units
  /\ \A x \in Scripts : /\ Len(x.messages) \in Nat
                        /\ \A i \in 1 .. Len(x.messages) : x.messages[i].units \in Seq(Units)

VARIABLES type,         \* which of the two loops this is: "request" or "response"
          script,       \* the messages of the peer
          sent,         \* how many of them it has sent
          wire,         \* units sent and not yet read
          eof,          \* the peer has closed, or the connection was reset
          cut,          \* how many reads of the message ended inside a url, a name or a value
          lost,         \* history: the peer left before its message was complete
          served        \* history: the messages handed on, and whether as they were sent

peerVars == <<script, sent, wire, eof, cut, lost>>
vars == <<ps, ch, buf, mark, data, pc, type, served, peerVars>>

Init ==
  /\ type \in {"request", "response"}
  /\ script \in {s.messages : s \in {x \in Scripts : x.type = type}}
  /\ sent = 0 /\ wire = <<>> /\ eof = FALSE /\ cut = 0 /\ lost = FALSE /\ served = <<>>
  /\ ps = http_parser_init(type) /\ data = NewData
  /\ ch = NoChar /\ buf = <<>> /\ mark = NoMarks /\ pc = "recv"

(***************************************************************************)
(* The peer and the network.                                               *)
(***************************************************************************)

\* The peer sends its next message once the one before it was answered.
PeerSend ==
  /\ ~eof /\ sent < Len(script) /\ Len(served) = sent /\ pc = "recv"
  /\ sent' = sent + 1 /\ wire' = script[sent'].units /\ cut' = 0
  /\ UNCHANGED <<ps, ch, buf, mark, data, pc, type, script, eof, lost, served>>

\* The peer closes, or the connection is reset: what was not read may be lost.  The server can tell
\* only when it reads.
PeerClose(keep) ==
  /\ pc = "recv" /\ ~eof /\ eof' = TRUE
  /\ wire' = IF keep THEN wire ELSE <<>>
  /\ lost' = (wire' # wire)
  /\ UNCHANGED <<ps, ch, buf, mark, data, pc, type, script, sent, cut, served>>

(***************************************************************************)
(* recvRequest and recvResponse.  execute() consumes every unit unless it  *)
(* fails or the message asks for another protocol, so offset is always 0   *)
(* when the loop goes round and the buffer never fills.                    *)
(***************************************************************************)
Recv(n) ==
  /\ n \in 1 .. Len(wire)
  /\ cut < MaxCuts \/ n = Min({Len(wire), BufferSize})
  /\ Enter(SubSeq(wire, 1, n))
  /\ wire' = SubSeq(wire, n + 1, Len(wire))
  /\ UNCHANGED <<type, script, sent, eof, cut, lost, served>>

\* read() returns 0 or -1: close(), nullptr.
RecvFails ==
  /\ pc = "recv" /\ wire = <<>> /\ eof
  /\ pc' = "closed"
  /\ UNCHANGED <<ps, ch, buf, mark, data, type, served, peerVars>>

\* parser->hasError(): the request loop also refuses a change of protocol.
hasError == ps.errno # "HPE_OK" \/ (type = "request" /\ ps.upgrade)

AfterExecute ==
  /\ pc = "return"
  /\ pc' = IF hasError THEN "closed" ELSE IF data.finished THEN "handle" ELSE "recv"
  /\ cut' = cut + (IF ps.state \in UrlStates \cup {"s_header_field", "s_header_value"} THEN 1 ELSE 0)
  /\ UNCHANGED <<ps, ch, buf, mark, data, type, script, sent, wire, eof, lost, served>>

\* HttpRequest::init: m_close is true unless the header says keep-alive.
IsClose(d) == <<<<"Con", "nection">>, <<"keep", "-alive">>>> \notin ToSet(d.headers)

\* What a handler can see of a message.
Contents(d) == [path |-> d.path, query |-> d.query, fragment |-> d.fragment, body |-> d.body,
                headers |-> ToSet(d.headers), method |-> d.method, status |-> d.status]

\* Each recvRequest makes a parser, and with it a request, of its own.
FreshKeepsRequest == [data EXCEPT !.finished = FALSE]    \* mutant: the request is used again
Fresh == NewData

(***************************************************************************)
(* The body of the loop of handleClient: the request is dispatched and     *)
(* answered; the next recvRequest makes a new parser.  A response is       *)
(* returned to the caller, who is done with the connection.                *)
(***************************************************************************)
Handle ==
  /\ pc = "handle"
  /\ served' = Append(served, [kind |-> script[sent].kind, cut |-> cut,
                                exact |-> script[sent].kind = "ok" /\ Contents(data) = script[sent].want])
  /\ ps' = http_parser_init(type) /\ data' = Fresh
  /\ pc' = IF type = "response" \/ ~Keepalive \/ IsClose(data) THEN "closed" ELSE "recv"
  /\ UNCHANGED <<ch, buf, mark, type, peerVars>>

Done == pc = "closed" /\ UNCHANGED vars

ParserRuns == ParserStep /\ UNCHANGED <<type, served, peerVars>>

Peer == PeerSend \/ \E keep \in BOOLEAN : PeerClose(keep)

Server == (\E n \in 1 .. BufferSize : Recv(n)) \/ RecvFails \/ AfterExecute \/ Handle \/ ParserRuns

Next == Peer \/ Server \/ Done

Spec == Init /\ [][Next]_vars

\* The server's thread runs; a peer goes on sending and closes in the end.
Fairness == WF_vars(Server) /\ WF_vars(Peer)

FairSpec == Spec /\ Fairness

-----------------------------------------------------------------------------
TypeOK ==
  /\ ps.content_length \in 0 .. LenMax /\ ps.nread \in 0 .. HeaderMax + 1 /\ ps.status \in 0 .. 999
  /\ mark \in [Kinds -> Seq(Units \cup {NoChar})] /\ (ch # NoChar => pc = "exec")
  /\ pc \in {"recv", "exec", "return", "handle", "closed"}

\* A message is handed on exactly as it was sent -- target, headers and body, whatever the framing --
\* for every way its bytes were divided into reads, as long as no read ended inside the target, a
\* header name or a header value (http_parser.cc:144, :165, :176: those callbacks overwrite).
ServedExact ==
  \A i \in 1 .. Len(served) :
    served[i].kind = "ok" /\ served[i].cut = 0 => served[i].exact

\* The same with no condition on the reads: "http请求url解析完成回调", the callback of a completely
\* parsed url (http_parser.cc:128), and likewise for names and values (:159, :170).
\* Does not hold: the second part of a text that a read has cut replaces the first.
ServedExactAnyRead ==
  \A i \in 1 .. Len(served) : served[i].kind = "ok" => served[i].exact

\* A message that breaks the grammar, or is framed twice or beyond the limits, is never handed on.
MalformedRefused == \A i \in 1 .. Len(served) : served[i].kind # "bad"

\* The assertions of http_parser_execute hold when they are evaluated, the counters of the parser
\* stay in their range, and a length that was read never becomes the value that stands for "no
\* length", nor wraps past it (http_parser.c:1549, 1969).  A chunked
\* body is never read under a content length as well.
ParserAssertions ==
  /\ TypeOK
  /\ At({"s_chunk_size_start"}) => ps.nread = 1
  /\ At({"s_chunk_size_start", "s_chunk_size", "s_chunk_parameters", "s_chunk_size_almost_done",
         "s_chunk_data", "s_chunk_data_almost_done", "s_chunk_data_done"}) =>
       "CHUNKED" \in ps.flags /\ "CONTENTLENGTH" \notin ps.flags
  /\ At({"s_body_identity", "s_chunk_data"}) => ps.content_length \notin {0, LenMax}
  /\ At({"s_chunk_data_almost_done"}) => ps.content_length = 0
  /\ At({"s_header_value"}) => ps.hs \notin {"h_connection", "h_transfer_encoding"}
  /\ pc = "exec" => Cardinality(Open) <= 1
  /\ "CONTENTLENGTH" \in ps.flags => ps.content_length < LenMax
  /\ ps.state \in {"s_chunk_size", "s_chunk_data"} => ps.content_length < LenMax

\* A well-formed message that arrives whole, not cut inside a text, is handed on.
Answered ==
  \A k \in 1 .. 2 : (sent = k /\ script[sent].kind = "ok") ~> (Len(served) >= k \/ cut > 0 \/ lost)
=============================================================================
