--------------------------- MODULE MCHttpSession ---------------------------
(***************************************************************************)
(* The messages of the runs.  Every well-formed one carries what the       *)
(* receiver must be handed; every malformed one breaks one rule.           *)
(***************************************************************************)
EXTENDS HttpSession

CRLF == <<"CR", "LF">>

Header(h) == h[1] \o <<":", "SP">> \o h[2] \o CRLF
Headers(hs) == FlattenSeq([i \in 1 .. Len(hs) |-> Header(hs[i])])

Get == <<"G", "ET", "SP">>
Target == <<"/", "p">>
V11 == <<"SP", "H", "TTP", "/", "1", ".", "1">> \o CRLF
StatusLine(d) == <<"H", "TTP", "/", "1", ".", "1", "SP", d[1], d[2], d[3]>>

KeepAlive == <<<<"Con", "nection">>, <<"keep", "-alive">>>>
ConClose  == <<<<"Con", "nection">>, <<"clo", "se">>>>
Length(n) == <<<<"Con", "tent-Length">>, n>>
Chunked   == <<<<"Transfer-", "Encoding">>, <<"chun", "ked">>>>
Other     == <<<<"X">>, <<"v", "w">>>>
NoValue   == <<<<"X">>, <<>>>>

Chunk(n, t) == <<n>> \o CRLF \o t \o CRLF
LastChunk == <<"0">> \o CRLF \o CRLF
ChunkBody == Chunk("2", <<"b1", "b2">>) \o Chunk("1", <<"b3">>) \o LastChunk

Want(path, hs, body) == [path |-> path, query |-> <<>>, fragment |-> <<>>, body |-> body,
                         headers |-> ToSet(hs), method |-> "GET", status |-> 200]
Ok(units, want) == [kind |-> "ok", units |-> units, want |-> want]
Bad(units) == [kind |-> "bad", units |-> units]

\* A GET with the given headers and body.
Message(hs, wireBody, body) ==
  Ok(Get \o Target \o V11 \o Headers(hs) \o CRLF \o wireBody, Want(Target, hs, body))

Full == Ok(<<"LF", "P", "UT", "SP", "SP">> \o <<"h", ":", "/", "/", "u", "@", "a", ":", "7", "/", "p", "?", "q", "#", "f">> \o
           <<"SP", "SP", "H", "TTP", "/", "1", ".", "0", "LF">> \o Headers(<<NoValue>>) \o <<"LF">>,
           [Want(<<"/", "p">>, <<NoValue>>, <<>>) EXCEPT !.query = <<"q">>, !.fragment = <<"f">>, !.method = "PUT"])

Ice == Ok(<<"S", "OURCE", "SP", "/", "SP", "ICE", "/", "1", ".", "0">> \o CRLF \o CRLF,
          [Want(<<"/">>, <<>>, <<>>) EXCEPT !.method = "SOURCE"])

Http09 == Ok(Get \o Target \o CRLF \o CRLF, Want(Target, <<>>, <<>>))
Http09LF == Ok(Get \o Target \o <<"LF", "LF">>, Want(Target, <<>>, <<>>))

Params == Message(<<Chunked>>, <<"1", ";", "x">> \o CRLF \o <<"b1">> \o CRLF \o <<"0", "0">> \o CRLF \o
                               Headers(<<>>) \o CRLF, <<"b1">>)

FoldedLength == Ok(Get \o Target \o V11 \o <<"Con", "tent-Length", ":">> \o CRLF \o <<"SP", "1", "SP">> \o
                   CRLF \o <<"SP">> \o CRLF \o CRLF \o <<"b1">>,
                   Want(Target, <<<<<<"Con", "tent-Length">>, <<"SP">>>>>>, <<"b1">>))

GoodRequests ==
  { <<Message(<<KeepAlive, Length(<<"2">>)>>, <<"b1", "b2">>, <<"b1", "b2">>), Message(<<ConClose>>, <<>>, <<>>)>>,
    <<Message(<<KeepAlive, Chunked>>, ChunkBody, <<"b1", "b2", "b3">>), Message(<<Other, Length(<<"0">>)>>, <<>>, <<>>)>>,
    <<Full>>, <<Ice>>, <<Http09>>, <<Http09LF>>, <<Params>>, <<FoldedLength>> }

GetLine == Get \o Target \o V11
BadHeaders(hs) == Bad(GetLine \o Headers(hs) \o CRLF)

Malformed ==
  { <<"x">>, <<"P", "x">>, <<"G", "SP">>, <<"G", "ET", "ET">>,
    Get \o <<"1">>, Get \o <<"h", "SP">>, Get \o <<"/", "CTL">>, Get \o <<"h", ":", "/", "/", "/", "SP">>,
    Get \o <<"h", ":", "/", "/", "a", ":", "7", "0", "0", "0", "0", "SP">>,
    <<"C", "ONNECT", "SP", "a", ":", "1", "SP">>,
    Get \o Target \o <<"SP", "ICE">>, Get \o Target \o <<"SP", "H", "x">>,
    Get \o Target \o <<"SP", "H", "TTP", "x">>, Get \o Target \o <<"SP", "H", "TTP", "/", "x">>,
    Get \o Target \o <<"SP", "H", "TTP", "/", "1", "x">>, Get \o Target \o <<"SP", "H", "TTP", "/", "1", ".", "1", "x">>,
    Get \o Target \o <<"CR", "x">>,
    GetLine \o <<"SP">>, GetLine \o <<"X", "SP", ":">>, GetLine \o <<"X", ":", "CR", "x">>,
    GetLine \o <<"X", ":", "v", "CTL">>, GetLine \o <<"X", ":", "v", "CR", "v">>, GetLine \o <<"CR", "x">>,
    GetLine \o <<"Con", "tent-Length", ":", "x">>, GetLine \o <<"Con", "tent-Length", ":", "LF", "LF">>,
    GetLine \o Headers(<<Length(<<"1">>), Length(<<"1">>)>>),
    GetLine \o Headers(<<Length(<<"1", "2", "7">>)>>) \o CRLF,
    GetLine \o Headers(<<Length(<<"1", "SP", "1">>)>>),
    GetLine \o Headers(<<Length(<<"5">>), Chunked>>) \o CRLF \o LastChunk,
    GetLine \o Headers(<<<<<<"Up", "grade">>, <<"v">>>>, <<<<"Con", "nection">>, <<"up", "grade">>>>>>) \o CRLF,
    GetLine \o Headers(<<Other, Other, Other, Other, Other, Other, Other, Other>>) \o CRLF,
    GetLine \o Headers(<<Chunked>>) \o CRLF \o <<"x">>,
    GetLine \o Headers(<<Chunked>>) \o CRLF \o <<"1", "x">>,
    GetLine \o Headers(<<Chunked>>) \o CRLF \o <<"7", "a">> \o CRLF,
    GetLine \o Headers(<<Chunked>>) \o CRLF \o <<"1", "CR", "x">>,
    GetLine \o Headers(<<Chunked>>) \o CRLF \o <<"1">> \o CRLF \o <<"b1", "b2">>,
    GetLine \o Headers(<<Chunked>>) \o CRLF \o <<"1">> \o CRLF \o <<"b1", "CR", "b2">> }

\* Values of Connection with several members, two requests in one go, and bytes after the last one.
Lists == { <<[kind |-> "other", units |-> GetLine \o Headers(<<<<<<n1, "nection">>, v>>>>) \o CRLF]>> :
             n1 \in {"Con"},
             v \in {<<"keep", "-alive", ",", "SP", "clo", "se", "SP", ",", "up", "grade", ",", "tok">>,
                    <<"tok", "x", ",", "keep", "x", "SP">>, <<"tok", ",", ";">>, <<"clo", "se", "x">>} }
Proxy == <<[kind |-> "other", units |-> GetLine \o Headers(<<<<<<"Proxy-", "Connection">>, <<"keep", "-alive">>>>>>) \o CRLF]>>
ConFold == <<[kind |-> "other", units |-> GetLine \o <<"Con", "nection", ":", "tok", ",">> \o CRLF \o
              <<"SP", "clo", "se">> \o CRLF \o CRLF]>>
TeOther == <<[kind |-> "other", units |-> GetLine \o Headers(<<<<<<"Transfer-", "Encoding">>, <<"chun", "ked", "SP", ",">>>>>>) \o CRLF]>>
TwoAtOnce == <<[kind |-> "other", units |-> GetLine \o Headers(<<KeepAlive>>) \o CRLF \o GetLine \o CRLF]>>
AfterClose == <<[kind |-> "other", units |-> GetLine \o Headers(<<ConClose>>) \o CRLF \o <<"CR">> \o GetLine]>>
UpgradeBody == <<[kind |-> "bad", units |-> GetLine \o Headers(<<<<<<"Up", "grade">>, <<"v">>>>,
                   <<<<"Con", "nection">>, <<"up", "grade">>>>, Length(<<"1">>)>>) \o CRLF \o <<"b1">>]>>

ResWant(st, hs, body) == [Want(<<"/">>, hs, body) EXCEPT !.status = st]
Response(d, st, hs, wireBody, body) ==
  Ok(StatusLine(d) \o <<"SP", "O", "K">> \o CRLF \o Headers(hs) \o CRLF \o wireBody, ResWant(st, hs, body))

Responses ==
  { <<Response(<<"2", "0", "0">>, 200, <<Length(<<"1">>)>>, <<"b1">>, <<"b1">>)>>,
    <<Response(<<"2", "0", "0">>, 200, <<Chunked>>, ChunkBody, <<"b1", "b2", "b3">>)>>,
    <<Response(<<"3", "0", "4">>, 304, <<>>, <<>>, <<>>)>>,
    <<Ok(<<"LF">> \o StatusLine(<<"2", "0", "4">>) \o <<"LF", "LF">>, ResWant(204, <<>>, <<>>))>>,
    <<Ok(StatusLine(<<"1", "0", "1">>) \o <<"SP", "O", "LF">> \o
         Headers(<<<<<<"Up", "grade">>, <<"v">>>>, <<<<"Con", "nection">>, <<"up", "grade">>>>>>) \o CRLF,
         ResWant(101, <<<<<<"Up", "grade">>, <<"v">>>>, <<<<"Con", "nection">>, <<"up", "grade">>>>>>, <<>>))>> }

\* A body that ends with the connection: the loop closes and returns nothing.
UntilClose == <<[kind |-> "other", units |-> StatusLine(<<"2", "0", "0">>) \o CRLF \o CRLF \o <<"b1">>]>>

BadResponses ==
  { <<"x">>, <<"H", "x">>, <<"H", "TTP", "x">>, <<"H", "TTP", "/", "x">>, <<"H", "TTP", "/", "1", "x">>,
    <<"H", "TTP", "/", "1", ".", "1", "x">>, <<"H", "TTP", "/", "1", ".", "1", "SP", "SP", "x">>,
    StatusLine(<<"2", "0", "0">>) \o <<"0">>, StatusLine(<<"2", "0", "0">>) \o <<"CR", "x">> }

Requests == GoodRequests \cup {<<Bad(u)>> : u \in Malformed} \cup Lists \cup
            {Proxy, ConFold, TeOther, TwoAtOnce, AfterClose, UpgradeBody}

mc_Scripts == {[type |-> "request", messages |-> m] : m \in Requests} \cup
              {[type |-> "response", messages |-> m] :
                 m \in Responses \cup {UntilClose} \cup {<<Bad(u)>> : u \in BadResponses}}

mc_Units == UNION {ToSet(m.units) : m \in UNION {ToSet(x.messages) : x \in mc_Scripts}}
=============================================================================
