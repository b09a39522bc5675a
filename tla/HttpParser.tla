---------------------------- MODULE HttpParser ----------------------------
(***************************************************************************)
(* http_parser_execute (http/http-parser/http_parser.c) with the callbacks *)
(* of HttpRequestParser and HttpResponseParser (http/http_parser.cc).      *)
(*                                                                         *)
(* One call of execute is: Enter, then for every unit of the buffer        *)
(* NextByte and one or more steps of the state machine (a step that says   *)
(* REEXECUTE in the source leaves the unit in place), then BufferEnd.  The *)
(* marks are the texts begun but not yet handed to a data callback; the    *)
(* source keeps them as pointers into the buffer, so they do not survive   *)
(* the call.  See HttpUrl for the units.                                   *)
(***************************************************************************)
EXTENDS HttpUrl, SequencesExt

CONSTANTS LenMax,       \* ULLONG_MAX; as a content length: none was given
          HeaderMax     \* max_header_size

ASSUME BoundsAssumption == LenMax \in Nat /\ LenMax > 32 /\ HeaderMax \in Nat

VARIABLES ps,           \* struct http_parser
          ch,           \* the unit under the cursor, or NoChar
          buf,          \* the rest of the buffer
          mark,         \* kind of text -> units since its MARK, or NoMark
          data,         \* the HttpRequest or HttpResponse being filled
          pc            \* where the caller of execute is

parserVars == <<ps, ch, buf, mark, data, pc>>

NoChar == "none"
NoMark == <<"none">>
Kinds  == {"url", "header_field", "header_value", "body", "status"}
NoMarks == [k \in Kinds |-> NoMark]

\* http_parser_init
http_parser_init(t) ==
  [type |-> t, state |-> IF t = "request" THEN "s_start_req" ELSE "s_start_res",
   hs |-> "h_general", index |-> 0, flags |-> {}, nread |-> 0, content_length |-> 0,
   major |-> 0, minor |-> 0, status |-> 0, method |-> "none", errno |-> "HPE_OK", upgrade |-> FALSE]

\* A fresh HttpRequest or HttpResponse, with the wrapper's m_field and m_finished.
NewData ==
  [path |-> <<"/">>, query |-> <<>>, fragment |-> <<>>, field |-> <<>>, headers |-> <<>>,
   body |-> <<>>, version |-> <<1, 1>>, method |-> "GET", status |-> 200, finished |-> FALSE]

\* enum state up to s_headers_done: their bytes count towards max_header_size.
PARSING_HEADER(s) ==
  s \notin {"s_chunk_data", "s_chunk_data_almost_done", "s_chunk_data_done", "s_body_identity",
            "s_body_identity_eof", "s_message_done"}

UrlStates == {"s_req_path", "s_req_schema", "s_req_schema_slash", "s_req_schema_slash_slash",
              "s_req_server_start", "s_req_server", "s_req_server_with_at", "s_req_query_string_start",
              "s_req_query_string", "s_req_fragment_start", "s_req_fragment"}

(***************************************************************************)
(* What a data callback does with its text; on_request_url_cb may refuse.  *)
(* Headers are kept as pairs <<name, value>>, one per name.                *)
(***************************************************************************)
setHeader(hdrs, f, v) == Append(SelectSeq(hdrs, LAMBDA h : h[1] # f), <<f, v>>)

UrlFails(kind, t) == kind = "url" /\ ps.type = "request" /\ ~http_parser_parse_url(t)

\* A field that the target lacks leaves what the request had.
OnUrl(d, t) == LET Part(state, old) == IF UrlField(t, state) = <<>> THEN old ELSE UrlField(t, state) IN
  [d EXCEPT !.path = Part("s_req_path", @), !.query = Part("s_req_query_string", @),
            !.fragment = Part("s_req_fragment", @)]

OnData(kind, t, d) ==
  CASE t = NoMark -> d
    [] kind = "url" /\ ps.type = "request" -> OnUrl(d, t)
    [] kind = "header_field" -> [d EXCEPT !.field = t]
    [] kind = "header_value" -> [d EXCEPT !.headers = setHeader(@, d.field, t)]
    [] kind = "body" -> [d EXCEPT !.body = @ \o t]
    [] kind = "status" /\ ps.type = "response" -> [d EXCEPT !.status = ps.status]
    [] OTHER -> d

MARK(k, m) == IF m[k] = NoMark THEN [m EXCEPT ![k] = <<>>] ELSE m

\* The cursor moves past the unit: every text that is marked grows by it.
Advance(m) == [k \in Kinds |-> IF m[k] = NoMark THEN NoMark ELSE Append(m[k], ch)]

(***************************************************************************)
(* How a step of the machine ends: break, goto reexecute, or goto error.   *)
(***************************************************************************)
Break(r, m, d) == ps' = r /\ mark' = Advance(m) /\ data' = d /\ ch' = NoChar /\ UNCHANGED <<buf, pc>>

REEXECUTE(r, m, d) == ps' = r /\ mark' = m /\ data' = d /\ UNCHANGED <<ch, buf, pc>>

RETURN(r, d) == ps' = r /\ data' = d /\ ch' = NoChar /\ buf' = <<>> /\ mark' = NoMarks /\ pc' = "return"

Fail(e) == RETURN([ps EXCEPT !.errno = e], data)

To(s) == [ps EXCEPT !.state = s]
Goto(s) == Break(To(s), mark, data)
Stay == Break(ps, mark, data)
Expect(c, s, e) == (ch = c /\ Goto(s)) \/ (ch # c /\ Fail(e))

\* CALLBACK_DATA(k): the text of the mark, if there is one, goes to its callback.
CALLBACK_DATA(k, r, Go(_, _, _)) == Go(r, [mark EXCEPT ![k] = NoMark], OnData(k, mark[k], data))

\* The same for the url, whose callback may fail.
CALLBACK_URL(r) ==
  \/ UrlFails("url", mark["url"]) /\ RETURN([r EXCEPT !.errno = "HPE_CB_url"], data)
  \/ ~UrlFails("url", mark["url"]) /\ CALLBACK_DATA("url", r, Break)

At(states) == pc = "exec" /\ ch # NoChar /\ ps.state \in states

http_message_needs_eof(r) ==
  /\ r.type = "response"
  /\ ~(r.status \div 100 = 1 \/ r.status \in {204, 304} \/ "SKIPBODY" \in r.flags)
  /\ "CHUNKED" \notin r.flags
  /\ r.content_length = LenMax

http_should_keep_alive(r) ==
  /\ IF r.major > 0 /\ r.minor > 0 THEN "CLOSE" \notin r.flags ELSE "KEEP_ALIVE" \in r.flags
  /\ ~http_message_needs_eof(r)

\* NEW_MESSAGE() followed by the message_complete callback.
NewMessage(r) == [r EXCEPT !.state = IF http_should_keep_alive(r)
                                     THEN http_parser_init(r.type).state ELSE "s_dead"]
Complete(d) == [d EXCEPT !.finished = TRUE]

-----------------------------------------------------------------------------
(***************************************************************************)
(* The loop around the machine.                                            *)
(***************************************************************************)

\* Entry of http_parser_execute: a text that the last buffer left open is marked again.
Enter(units) ==
  /\ pc = "recv" /\ ps.errno = "HPE_OK"
  /\ buf' = units /\ ch' = NoChar /\ pc' = "exec"
  /\ mark' = CASE ps.state = "s_header_field" -> MARK("header_field", NoMarks)
               [] ps.state = "s_header_value" -> MARK("header_value", NoMarks)
               [] ps.state \in UrlStates -> MARK("url", NoMarks)
               [] ps.state = "s_res_status" -> MARK("status", NoMarks)
               [] OTHER -> NoMarks
  /\ UNCHANGED <<ps, data>>

\* The head of the for loop, with COUNT_HEADER_SIZE(1).
NextByte ==
  /\ pc = "exec" /\ ch = NoChar /\ buf # <<>>
  /\ LET n == IF PARSING_HEADER(ps.state) THEN ps.nread + 1 ELSE ps.nread IN
     \/ /\ n > HeaderMax /\ PARSING_HEADER(ps.state)
        /\ RETURN([ps EXCEPT !.nread = n, !.errno = "HPE_HEADER_OVERFLOW"], data)
     \/ /\ n <= HeaderMax \/ ~PARSING_HEADER(ps.state)
        /\ ps' = [ps EXCEPT !.nread = n]
        /\ ch' = Head(buf) /\ buf' = Tail(buf)
        /\ UNCHANGED <<mark, data, pc>>

Open == {k \in Kinds : mark[k] # NoMark}

\* After the loop: the texts still open go to their callbacks, in series.
BufferEnd ==
  /\ pc = "exec" /\ ch = NoChar /\ buf = <<>>
  /\ \/ Open = {} /\ RETURN(ps, data)
     \/ \E k \in Open :
          IF UrlFails(k, mark[k]) THEN RETURN([ps EXCEPT !.errno = "HPE_CB_url"], data)
          ELSE RETURN(ps, OnData(k, mark[k], data))

(***************************************************************************)
(* The request line and the status line.                                   *)
(***************************************************************************)
s_dead ==
  /\ At({"s_dead"})
  /\ (ch \in EndOfLine /\ Stay) \/ (ch \notin EndOfLine /\ Fail("HPE_CLOSED_CONNECTION"))

Begin(r) == [r EXCEPT !.flags = {}, !.content_length = LenMax]

\* First letter -> the method tried first; the rest of each method's name.
FirstMethod == [G |-> "GET", P |-> "POST", C |-> "CONNECT", S |-> "SUBSCRIBE", H |-> "HEAD"]
MethodRest  == [GET |-> "ET", POST |-> "OST", PUT |-> "UT", CONNECT |-> "ONNECT",
                SUBSCRIBE |-> "UBSCRIBE", SOURCE |-> "OURCE", HEAD |-> "EAD"]
\* XX(meth, pos, ch, new_meth): the letter after the first one decides for another method.
MethodSwitch == {<<"POST", "PUT">>, <<"SUBSCRIBE", "SOURCE">>}

s_start_req ==
  /\ At({"s_start_req"})
  /\ \/ ch \in EndOfLine /\ Stay
     \/ /\ ch \in DOMAIN FirstMethod
        /\ Break([Begin(ps) EXCEPT !.method = FirstMethod[ch], !.index = 1, !.state = "s_req_method"],
                 mark, data)
     \/ ch \notin EndOfLine \cup DOMAIN FirstMethod /\ Fail("HPE_INVALID_METHOD")

s_req_method ==
  /\ At({"s_req_method"})
  /\ LET switch == {m \in DOMAIN MethodRest : <<ps.method, m>> \in MethodSwitch /\ MethodRest[m] = ch} IN
     \/ ch = "SP" /\ ps.index = 2 /\ Goto("s_req_spaces_before_url")
     \/ ch = MethodRest[ps.method] /\ ps.index = 1 /\ Break([ps EXCEPT !.index = 2], mark, data)
     \/ \E m \in switch : ps.index = 1 /\ Break([ps EXCEPT !.method = m, !.index = 2], mark, data)
     \/ /\ ch = "SP" => ps.index = 1
        /\ ps.index = 1 => ch # MethodRest[ps.method] /\ switch = {}
        /\ Fail("HPE_INVALID_METHOD")

UrlStep(from, m) ==
  LET s == parse_url_char(from, ch) IN
  \/ s = "s_dead" /\ Fail("HPE_INVALID_URL")
  \/ s # "s_dead" /\ Break(To(s), m, data)

s_req_spaces_before_url ==
  /\ At({"s_req_spaces_before_url"})
  /\ \/ ch = "SP" /\ Stay
     \/ /\ ch # "SP"
        /\ UrlStep(IF ps.method = "CONNECT" THEN "s_req_server_start" ELSE ps.state, MARK("url", mark))

s_req_url ==
  /\ At(UrlStates)
  /\ LET early == ps.state \in {"s_req_schema", "s_req_schema_slash", "s_req_schema_slash_slash",
                                "s_req_server_start"} IN
     \/ early /\ ch \in EndOfLine \cup {"SP"} /\ Fail("HPE_INVALID_URL")
     \/ ~early /\ ch = "SP" /\ CALLBACK_URL(To("s_req_http_start"))
     \/ /\ ~early /\ ch \in EndOfLine
        /\ CALLBACK_URL([To(IF ch = "CR" THEN "s_req_line_almost_done" ELSE "s_header_field_start")
                         EXCEPT !.major = 0, !.minor = 9])
     \/ ch \notin EndOfLine \cup {"SP"} /\ UrlStep(ps.state, mark)

s_req_http_start ==
  /\ At({"s_req_http_start"})
  /\ \/ ch = "SP" /\ Stay
     \/ ch = "H" /\ Goto("s_req_http_H")
     \/ ch = "ICE" /\ ps.method = "SOURCE" /\ Goto("s_req_http_HTTP")
     \/ ch \notin {"SP", "H"} /\ ~(ch = "ICE" /\ ps.method = "SOURCE") /\ Fail("HPE_INVALID_CONSTANT")

\* The literal "HTTP/" of both lines: "H", then "TTP", then "/".
s_http_literal ==
  \/ At({"s_req_http_H"}) /\ Expect("TTP", "s_req_http_HTTP", "HPE_STRICT")
  \/ At({"s_req_http_HTTP"}) /\ Expect("/", "s_req_http_major", "HPE_STRICT")
  \/ At({"s_res_H"}) /\ Expect("TTP", "s_res_HTTP", "HPE_STRICT")
  \/ At({"s_res_HTTP"}) /\ Expect("/", "s_res_http_major", "HPE_STRICT")

s_http_version ==
  \/ At({"s_req_http_major", "s_res_http_major", "s_req_http_minor", "s_res_http_minor"}) /\
       LET next == CASE ps.state = "s_req_http_major" -> "s_req_http_dot"
                     [] ps.state = "s_res_http_major" -> "s_res_http_dot"
                     [] ps.state = "s_req_http_minor" -> "s_req_http_end"
                     [] OTHER -> "s_res_http_end" IN
       \/ ch \notin Digits /\ Fail("HPE_INVALID_VERSION")
       \/ /\ ch \in Digits
          /\ Break(IF ps.state \in {"s_req_http_major", "s_res_http_major"}
                   THEN [To(next) EXCEPT !.major = DigitVal(ch)]
                   ELSE [To(next) EXCEPT !.minor = DigitVal(ch)], mark, data)
  \/ At({"s_req_http_dot"}) /\ Expect(".", "s_req_http_minor", "HPE_INVALID_VERSION")
  \/ At({"s_res_http_dot"}) /\ Expect(".", "s_res_http_minor", "HPE_INVALID_VERSION")
  \/ At({"s_res_http_end"}) /\ Expect("SP", "s_res_first_status_code", "HPE_INVALID_VERSION")

s_req_http_end ==
  \/ /\ At({"s_req_http_end"})
     /\ \/ ch = "CR" /\ Goto("s_req_line_almost_done")
        \/ ch = "LF" /\ Goto("s_header_field_start")
        \/ ch \notin EndOfLine /\ Fail("HPE_INVALID_VERSION")
  \/ At({"s_req_line_almost_done"}) /\ Expect("LF", "s_header_field_start", "HPE_LF_EXPECTED")

s_start_res ==
  /\ At({"s_start_res"})
  /\ \/ ch \in EndOfLine /\ Stay
     \/ ch = "H" /\ Break([Begin(ps) EXCEPT !.state = "s_res_H"], mark, data)
     \/ ch \notin EndOfLine \cup {"H"} /\ Fail("HPE_INVALID_CONSTANT")

StatusFits(code) == code <= 999

s_res_status_code ==
  /\ At({"s_res_first_status_code", "s_res_status_code"})
  /\ LET first == ps.state = "s_res_first_status_code"
         code  == IF first THEN DigitVal(ch) ELSE ps.status * 10 + DigitVal(ch) IN
     \/ ch \in Digits /\ StatusFits(code) /\ Break([To("s_res_status_code") EXCEPT !.status = code], mark, data)
     \/ ch \in Digits /\ ~StatusFits(code) /\ Fail("HPE_INVALID_STATUS")
     \/ ch = "SP" /\ Goto(IF first THEN ps.state ELSE "s_res_status_start")
     \/ ch \in EndOfLine /\ ~first /\ REEXECUTE(To("s_res_status_start"), mark, data)
     \/ ch \notin Digits \cup {"SP"} /\ (ch \in EndOfLine => first) /\ Fail("HPE_INVALID_STATUS")

s_res_status ==
  \/ /\ At({"s_res_status_start"})
     /\ IF ch \in EndOfLine THEN REEXECUTE(To("s_res_status"), MARK("status", mark), data)
        ELSE Break(To("s_res_status"), MARK("status", mark), data)
  \/ /\ At({"s_res_status"})
     /\ \/ ch = "CR" /\ CALLBACK_DATA("status", To("s_res_line_almost_done"), Break)
        \/ ch = "LF" /\ CALLBACK_DATA("status", To("s_header_field_start"), Break)
        \/ ch \notin EndOfLine /\ Stay
  \/ At({"s_res_line_almost_done"}) /\ Expect("LF", "s_header_field_start", "HPE_STRICT")

-----------------------------------------------------------------------------
(***************************************************************************)
(* Header lines.  header_state recognises the names and the values that    *)
(* frame the message; a name or value is one or two units.                 *)
(***************************************************************************)
NameStart(c) ==
  CASE c = "Con" -> "h_CON" [] c = "Proxy-" -> "h_matching_proxy_connection"
    [] c = "Transfer-" -> "h_matching_transfer_encoding" [] c = "Up" -> "h_matching_upgrade"
    [] OTHER -> "h_general"

NameNext(hs, c) ==
  CASE hs = "h_CON" /\ c = "nection" -> "h_connection"
    [] hs = "h_CON" /\ c = "tent-Length" -> "h_content_length"
    [] hs = "h_matching_proxy_connection" /\ c = "Connection" -> "h_connection"
    [] hs = "h_matching_transfer_encoding" /\ c = "Encoding" -> "h_transfer_encoding"
    [] hs = "h_matching_upgrade" /\ c = "grade" -> "h_upgrade"
    [] OTHER -> "h_general"

ConnectionStart(c) ==
  CASE c = "keep" -> "h_matching_connection_keep_alive" [] c = "clo" -> "h_matching_connection_close"
    [] c = "up" -> "h_matching_connection_upgrade" [] OTHER -> "h_matching_connection_token"

\* The flag that a completed value sets, as a set.
ValueFlag(hs) ==
  CASE hs = "h_connection_keep_alive" -> {"KEEP_ALIVE"} [] hs = "h_connection_close" -> {"CLOSE"}
    [] hs = "h_connection_upgrade" -> {"CONN_UPGRADE"} [] hs = "h_transfer_encoding_chunked" -> {"CHUNKED"}
    [] OTHER -> {}

s_header_field_start ==
  /\ At({"s_header_field_start"})
  /\ \/ ch = "CR" /\ Goto("s_headers_almost_done")
     \/ ch = "LF" /\ REEXECUTE(To("s_headers_almost_done"), mark, data)
     \/ TOKEN(ch) /\ Break([To("s_header_field") EXCEPT !.hs = NameStart(ch)],
                           MARK("header_field", mark), data)
     \/ ch \notin EndOfLine /\ ~TOKEN(ch) /\ Fail("HPE_INVALID_HEADER_TOKEN")

s_header_field ==
  /\ At({"s_header_field"})
  /\ \/ TOKEN(ch) /\ Break([ps EXCEPT !.hs = NameNext(@, ch)], mark, data)
     \/ ch = ":" /\ CALLBACK_DATA("header_field", To("s_header_value_discard_ws"), Break)
     \/ ~TOKEN(ch) /\ ch # ":" /\ Fail("HPE_INVALID_HEADER_TOKEN")

\* The first unit of a value.
ValueStart ==
  LET Go(r) == Break([r EXCEPT !.state = "s_header_value"], MARK("header_value", mark), data)
      num   == ps.hs = "h_content_length" IN
  \/ num /\ ch \notin Digits /\ Fail("HPE_INVALID_CONTENT_LENGTH")
  \/ num /\ ch \in Digits /\ "CONTENTLENGTH" \in ps.flags /\ Fail("HPE_UNEXPECTED_CONTENT_LENGTH")
  \/ /\ num /\ ch \in Digits /\ "CONTENTLENGTH" \notin ps.flags
     /\ Go([ps EXCEPT !.flags = @ \cup {"CONTENTLENGTH"}, !.content_length = DigitVal(ch),
                      !.hs = "h_content_length_num"])
  \/ ps.hs = "h_upgrade" /\ Go([ps EXCEPT !.flags = @ \cup {"UPGRADE"}, !.hs = "h_general"])
  \/ ps.hs = "h_connection" /\ Go([ps EXCEPT !.hs = ConnectionStart(ch)])
  \/ ps.hs \in {"h_content_length_ws", "h_matching_connection_token_start"} /\ Go(ps)
  \/ /\ ps.hs \notin {"h_content_length", "h_upgrade", "h_connection", "h_content_length_ws",
                      "h_matching_connection_token_start"}
     /\ Go([ps EXCEPT !.hs = IF @ = "h_transfer_encoding" /\ ch = "chun"
                             THEN "h_matching_transfer_encoding_chunked" ELSE "h_general"])

s_header_value_start ==
  /\ At({"s_header_value_start", "s_header_value_discard_ws"})
  /\ LET discard == ps.state = "s_header_value_discard_ws" IN
     \/ discard /\ ch \in Blank /\ Stay
     \/ discard /\ ch = "CR" /\ Goto("s_header_value_discard_ws_almost_done")
     \/ discard /\ ch = "LF" /\ Goto("s_header_value_discard_lws")
     \/ (discard => ch \notin Blank \cup EndOfLine) /\ ValueStart

\* The header_state after a further unit of a value.
ValueNext(hs, c) ==
  CASE hs = "h_content_length_num" /\ c = "SP" -> "h_content_length_ws"
    [] hs = "h_matching_transfer_encoding_chunked" /\ c = "ked" -> "h_transfer_encoding_chunked"
    [] hs = "h_transfer_encoding_chunked" /\ c = "SP" -> hs
    [] hs = "h_matching_connection_keep_alive" /\ c = "-alive" -> "h_connection_keep_alive"
    [] hs = "h_matching_connection_close" /\ c = "se" -> "h_connection_close"
    [] hs = "h_matching_connection_upgrade" /\ c = "grade" -> "h_connection_upgrade"
    [] hs \in {"h_matching_connection_keep_alive", "h_matching_connection_close",
               "h_matching_connection_upgrade"} -> "h_matching_connection_token"
    [] hs \in {"h_connection_keep_alive", "h_connection_close", "h_connection_upgrade",
               "h_matching_connection_token"} ->
         IF c = "," THEN "h_matching_connection_token_start"
         ELSE IF c = "SP" THEN hs ELSE "h_matching_connection_token"
    [] hs = "h_matching_connection_token_start" ->
         IF c \in Blank THEN hs ELSE IF TOKEN(c) THEN ConnectionStart(c) ELSE "h_general"
    [] hs \in {"h_content_length_num", "h_content_length_ws"} -> hs
    [] OTHER -> "h_general"

\* Overflow?  A conservative limit, as the source calls it, for one more digit.
TooLongNone(n, base) == LenMax \div base < n        \* mutant: the limit that just avoids wrapping
TooLong(n, base) == (LenMax - base) \div base < n

s_header_value ==
  /\ At({"s_header_value"})
  /\ LET isNum == ps.hs = "h_content_length_num" /\ ch \in Digits
         big   == TooLong(ps.content_length, 10) IN
     \/ ch = "CR" /\ CALLBACK_DATA("header_value", To("s_header_almost_done"), Break)
     \/ ch = "LF" /\ CALLBACK_DATA("header_value", To("s_header_almost_done"), REEXECUTE)
     \/ ~IS_HEADER_CHAR(ch) /\ Fail("HPE_INVALID_HEADER_TOKEN")
     \/ isNum /\ ~big /\ Break([ps EXCEPT !.content_length = @ * 10 + DigitVal(ch)], mark, data)
     \/ /\ \/ isNum /\ big
           \/ /\ ps.hs \in {"h_content_length_num", "h_content_length_ws"} /\ ~isNum
              /\ ch \notin EndOfLine \cup {"SP", "CTL"}
        /\ Fail("HPE_INVALID_CONTENT_LENGTH")
     \/ /\ ch \notin EndOfLine /\ IS_HEADER_CHAR(ch)
        /\ ps.hs \in {"h_content_length_num", "h_content_length_ws"} => ch = "SP"
        /\ Break([ps EXCEPT !.hs = ValueNext(@, ch),
                            !.flags = IF ch = "," /\ ps.hs # "h_transfer_encoding_chunked"
                                      THEN @ \cup ValueFlag(ps.hs) ELSE @], mark, data)

s_header_value_lws ==
  \/ At({"s_header_almost_done"}) /\ Expect("LF", "s_header_value_lws", "HPE_LF_EXPECTED")
  \/ /\ At({"s_header_value_lws"})
     /\ \/ /\ ch \in Blank
           /\ REEXECUTE([To("s_header_value_start") EXCEPT
                           !.hs = IF @ = "h_content_length_num" THEN "h_content_length_ws" ELSE @],
                        mark, data)
        \/ /\ ch \notin Blank
           /\ REEXECUTE([To("s_header_field_start") EXCEPT !.flags = @ \cup ValueFlag(ps.hs)], mark, data)

\* An empty value, and what follows its line end.
s_header_value_discard_lws ==
  \/ At({"s_header_value_discard_ws_almost_done"})
       /\ Expect("LF", "s_header_value_discard_lws", "HPE_STRICT")
  \/ /\ At({"s_header_value_discard_lws"})
     /\ \/ ch \in Blank /\ Goto("s_header_value_discard_ws")
        \/ ch \notin Blank /\ ps.hs = "h_content_length" /\ Fail("HPE_INVALID_CONTENT_LENGTH")
        \/ /\ ch \notin Blank /\ ps.hs # "h_content_length"
           /\ REEXECUTE([To("s_header_field_start") EXCEPT !.flags = @ \cup ValueFlag(ps.hs)],
                        mark, OnData("header_value", <<>>, data))

(***************************************************************************)
(* The end of the headers decides how the body is framed.                  *)
(***************************************************************************)
HeadersComplete(d) == [d EXCEPT !.version = <<ps.major, ps.minor>>,
                                !.method = IF ps.type = "request" THEN ps.method ELSE @,
                                !.status = IF ps.type = "response" THEN ps.status ELSE @]

FramedTwiceAllowed(flags) == FALSE                   \* mutant
FramedTwice(flags) == {"CHUNKED", "CONTENTLENGTH"} \subseteq flags

s_headers_almost_done ==
  /\ At({"s_headers_almost_done"})
  /\ LET both == FramedTwice(ps.flags) IN
     \/ ch # "LF" /\ Fail("HPE_STRICT")
     \/ ch = "LF" /\ "TRAILING" \in ps.flags /\ REEXECUTE(To("s_message_done"), mark, data)
     \/ ch = "LF" /\ "TRAILING" \notin ps.flags /\ both /\ Fail("HPE_UNEXPECTED_CONTENT_LENGTH")
     \/ /\ ch = "LF" /\ "TRAILING" \notin ps.flags /\ ~both
        /\ REEXECUTE([To("s_headers_done") EXCEPT
                        !.upgrade = IF {"UPGRADE", "CONN_UPGRADE"} \subseteq ps.flags
                                    THEN ps.type = "request" \/ ps.status = 101
                                    ELSE ps.method = "CONNECT"],
                     mark, HeadersComplete(data))

HasBodyOfZero(r) == r.content_length # LenMax        \* mutant: a length of 0 has a body
HasBody(r) == "CHUNKED" \in r.flags \/ (r.content_length > 0 /\ r.content_length # LenMax)

HeadersRead == [ps EXCEPT !.nread = 0]

s_headers_done ==
  /\ At({"s_headers_done"})
  /\ LET r       == HeadersRead
         chunked == "CHUNKED" \in ps.flags
         hasBody == HasBody(ps)
         leaves  == ps.upgrade /\ (ps.method = "CONNECT" \/ ~hasBody) IN
     \/ leaves /\ RETURN(NewMessage(r), Complete(data))
     \/ ~leaves /\ chunked /\ Break([r EXCEPT !.state = "s_chunk_size_start"], mark, data)
     \/ ~leaves /\ ~chunked /\ hasBody /\ Break([r EXCEPT !.state = "s_body_identity"], mark, data)
     \/ /\ ~leaves /\ ~hasBody
        /\ IF http_message_needs_eof(r)
           THEN Break([r EXCEPT !.state = "s_body_identity_eof"], mark, data)
           ELSE Break(NewMessage(r), mark, Complete(data))

(***************************************************************************)
(* Bodies.                                                                 *)
(***************************************************************************)
s_body_identity ==
  /\ At({"s_body_identity"})
  /\ LET m    == MARK("body", mark)
         left == ps.content_length - 1 IN
     \/ left > 0 /\ Break([ps EXCEPT !.content_length = left], m, data)
     \/ /\ left = 0
        /\ REEXECUTE([To("s_message_done") EXCEPT !.content_length = 0], [m EXCEPT !["body"] = NoMark],
                     OnData("body", Append(m["body"], ch), data))

s_body_identity_eof == At({"s_body_identity_eof"}) /\ Break(ps, MARK("body", mark), data)

s_message_done ==
  /\ At({"s_message_done"})
  /\ IF ps.upgrade THEN RETURN(NewMessage(ps), Complete(data))
     ELSE Break(NewMessage(ps), mark, Complete(data))

Hex == Digits \cup {"a"}
unhex(c) == IF c = "a" THEN 10 ELSE DigitVal(c)

s_chunk_size ==
  \/ /\ At({"s_chunk_size_start"})
     /\ \/ ch \in Hex /\ Break([To("s_chunk_size") EXCEPT !.content_length = unhex(ch)], mark, data)
        \/ ch \notin Hex /\ Fail("HPE_INVALID_CHUNK_SIZE")
  \/ /\ At({"s_chunk_size"})
     /\ LET big == TooLong(ps.content_length, 16) IN
        \/ ch = "CR" /\ Goto("s_chunk_size_almost_done")
        \/ ch \in {";", "SP"} /\ Goto("s_chunk_parameters")
        \/ ch \in Hex /\ big /\ Fail("HPE_INVALID_CONTENT_LENGTH")
        \/ ch \in Hex /\ ~big /\ Break([ps EXCEPT !.content_length = @ * 16 + unhex(ch)], mark, data)
        \/ ch \notin Hex \cup {"CR", ";", "SP"} /\ Fail("HPE_INVALID_CHUNK_SIZE")
  \/ /\ At({"s_chunk_parameters"})
     /\ IF ch = "CR" THEN Goto("s_chunk_size_almost_done") ELSE Stay

s_chunk_size_almost_done ==
  /\ At({"s_chunk_size_almost_done"})
  /\ \/ ch # "LF" /\ Fail("HPE_STRICT")
     \/ /\ ch = "LF"
        /\ Break(IF ps.content_length = 0
                 THEN [To("s_header_field_start") EXCEPT !.nread = 0, !.flags = @ \cup {"TRAILING"}]
                 ELSE [To("s_chunk_data") EXCEPT !.nread = 0], mark, data)

s_chunk_data ==
  \/ /\ At({"s_chunk_data"})
     /\ LET left == ps.content_length - 1 IN
        Break([ps EXCEPT !.content_length = left,
                         !.state = IF left = 0 THEN "s_chunk_data_almost_done" ELSE @],
              MARK("body", mark), data)
  \/ /\ At({"s_chunk_data_almost_done"})
     /\ \/ ch = "CR" /\ CALLBACK_DATA("body", To("s_chunk_data_done"), Break)
        \/ ch # "CR" /\ Fail("HPE_STRICT")
  \/ /\ At({"s_chunk_data_done"})
     /\ \/ ch = "LF" /\ Break([To("s_chunk_size_start") EXCEPT !.nread = 0], mark, data)
        \/ ch # "LF" /\ Fail("HPE_STRICT")

ParserStep ==
  \/ NextByte \/ BufferEnd
  \/ s_dead \/ s_start_req \/ s_req_method \/ s_req_spaces_before_url \/ s_req_url
  \/ s_req_http_start \/ s_http_literal \/ s_http_version \/ s_req_http_end
  \/ s_start_res \/ s_res_status_code \/ s_res_status
  \/ s_header_field_start \/ s_header_field \/ s_header_value_start \/ s_header_value
  \/ s_header_value_lws \/ s_header_value_discard_lws
  \/ s_headers_almost_done \/ s_headers_done
  \/ s_body_identity \/ s_body_identity_eof \/ s_message_done
  \/ s_chunk_size \/ s_chunk_size_almost_done \/ s_chunk_data
=============================================================================
