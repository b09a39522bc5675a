------------------------------ MODULE HttpUrl ------------------------------
(***************************************************************************)
(* The URL grammar of http_parser.c: parse_url_char, the automaton that    *)
(* http_parser_execute runs over a request target, and                     *)
(* http_parser_parse_url, which splits a complete target into its fields   *)
(* and checks its host and its port.                                       *)
(*                                                                         *)
(* The unit of input is a byte, or a run of letters that no state of the   *)
(* parser tells apart inside: "CR", "LF", "SP", "TAB", "CTL" (any other    *)
(* control byte), the punctuation marks, the digits, and words.            *)
(***************************************************************************)
EXTENDS Integers, Sequences, FiniteSetsExt

Digits == {"0", "1", "2", "3", "4", "5", "6", "7", "8", "9"}

DigitVal(c) == CASE c = "0" -> 0 [] c = "1" -> 1 [] c = "2" -> 2 [] c = "3" -> 3
                 [] c = "4" -> 4 [] c = "5" -> 5 [] c = "6" -> 6 [] c = "7" -> 7
                 [] c = "8" -> 8 [] OTHER -> 9

Blank == {"SP", "TAB"}

EndOfLine == {"CR", "LF"}

Punctuation == {"/", ":", "?", "#", "@", "[", "]", ",", ";", ".", "-", "*", "%"}

\* The C macro IS_ALPHA; every other unit is a word of letters.
IS_ALPHA(c) == c \notin Digits \cup Blank \cup EndOfLine \cup Punctuation \cup {"CTL"}

IS_URL_CHAR(c) == c \notin Blank \cup EndOfLine \cup {"CTL", "?", "#"}

IS_USERINFO_CHAR(c) == IS_ALPHA(c) \/ c \in Digits \cup {":", ";", ",", ".", "-", "*", "%"}

IS_HOST_CHAR(c) == IS_ALPHA(c) \/ c \in Digits \cup {".", "-"}

\* A header name is made of these: the table tokens[], without the space.
TOKEN(c) == IS_ALPHA(c) \/ c \in Digits \cup {".", "-", "#", "*", "%"}

IS_HEADER_CHAR(c) == c # "CTL"

(***************************************************************************)
(* parse_url_char: the state after one more unit of the target; s_dead is  *)
(* an error.                                                               *)
(***************************************************************************)
UrlServer(c) == CASE c = "/" -> "s_req_path"
                  [] c = "?" -> "s_req_query_string_start"
                  [] c = "@" -> "s_req_server_with_at"
                  [] IS_USERINFO_CHAR(c) \/ c \in {"[", "]"} -> "s_req_server"
                  [] OTHER -> "s_dead"

UrlTail(s, c, inner) == CASE IS_URL_CHAR(c) -> inner
                          [] c = "?" /\ s = "s_req_path" -> "s_req_query_string_start"
                          [] c = "?" -> inner
                          [] c = "#" /\ inner = "s_req_fragment" -> s
                          [] c = "#" -> "s_req_fragment_start"
                          [] OTHER -> "s_dead"

parse_url_char(s, c) ==
  CASE c \in Blank \cup EndOfLine -> "s_dead"
    [] s = "s_req_spaces_before_url" /\ c \in {"/", "*"} -> "s_req_path"
    [] s \in {"s_req_spaces_before_url", "s_req_schema"} /\ IS_ALPHA(c) -> "s_req_schema"
    [] s = "s_req_schema" /\ c = ":" -> "s_req_schema_slash"
    [] s = "s_req_schema_slash" /\ c = "/" -> "s_req_schema_slash_slash"
    [] s = "s_req_schema_slash_slash" /\ c = "/" -> "s_req_server_start"
    [] s = "s_req_server_with_at" /\ c = "@" -> "s_dead"
    [] s \in {"s_req_server_start", "s_req_server", "s_req_server_with_at"} -> UrlServer(c)
    [] s = "s_req_path" -> UrlTail(s, c, "s_req_path")
    [] s \in {"s_req_query_string_start", "s_req_query_string"} -> UrlTail(s, c, "s_req_query_string")
    [] s \in {"s_req_fragment_start", "s_req_fragment"} -> UrlTail(s, c, "s_req_fragment")
    [] OTHER -> "s_dead"

(***************************************************************************)
(* http_parse_host_char and http_parse_host: the authority of an absolute  *)
(* target.                                                                 *)
(***************************************************************************)
http_parse_host_char(s, c) ==
  CASE s \in {"userinfo", "userinfo_start"} ->
         IF c = "@" THEN "host_start" ELSE IF IS_USERINFO_CHAR(c) THEN "userinfo" ELSE "dead"
    [] s = "host_start" /\ c = "[" -> "v6_start"
    [] s \in {"host_start", "host"} /\ IS_HOST_CHAR(c) -> "host"
    [] s \in {"host", "v6_end"} /\ c = ":" -> "port_start"
    [] s \in {"v6", "zone"} /\ c = "]" -> "v6_end"
    [] s \in {"v6_start", "v6"} /\ c \in Digits \cup {":", ".", "a"} -> "v6"
    [] s = "v6" /\ c = "%" -> "zone_start"
    [] s \in {"zone_start", "zone"} /\ (IS_HOST_CHAR(c) \/ c = "%") -> "zone"
    [] s \in {"port", "port_start"} /\ c \in Digits -> "port"
    [] OTHER -> "dead"

\* The states an automaton goes through over the units of a text.  (The set of one element has TLC
\* evaluate a state once and not at each of its uses.)
Trace(Next(_, _), s0, text) ==
  LET st[i \in 0 .. Len(text)] ==
        IF i = 0 THEN s0 ELSE CHOOSE s \in {Next(t, text[i]) : t \in {st[i - 1]}} : TRUE
  IN  st

\* The units read in one of the given states; a field is contiguous.
Field(text, st, states) ==
  LET at == {i \in 1 .. Len(text) : st[i] \in states}
  IN  IF at = {} THEN <<>> ELSE SubSeq(text, Min(at), Max(at))

Number(text) == LET v[i \in 0 .. Len(text)] == IF i = 0 THEN 0 ELSE v[i - 1] * 10 + DigitVal(text[i])
                IN  v[Len(text)]

PortMax == 65535

http_parse_host(host) ==
  LET start == IF \E i \in 1 .. Len(host) : host[i] = "@" THEN "userinfo_start" ELSE "host_start" IN
  \E st \in {Trace(http_parse_host_char, start, host)} :
    /\ \A i \in 1 .. Len(host) : st[i] # "dead"
    /\ st[Len(host)] \in {"host", "v6_end", "port"}
    /\ \A port \in {Field(host, st, {"port"})} : Number(port) <= PortMax

(***************************************************************************)
(* http_parser_parse_url with is_connect = 0, as on_request_url_cb calls   *)
(* it: whether a target is accepted, and its fields.                       *)
(***************************************************************************)
UrlTrace(url) == Trace(parse_url_char, "s_req_spaces_before_url", url)

http_parser_parse_url(url) ==
  /\ url # <<>>
  /\ \E st \in {UrlTrace(url)} :
       /\ \A i \in 1 .. Len(url) : st[i] # "s_dead"
       /\ \E host \in {Field(url, st, {"s_req_server", "s_req_server_with_at"})} :
            /\ Field(url, st, {"s_req_schema"}) # <<>> => host # <<>>
            /\ host # <<>> => http_parse_host(host)

UrlField(url, state) == Field(url, UrlTrace(url), {state})
=============================================================================
