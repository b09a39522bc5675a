------------------------------ MODULE HttpProofs ------------------------------
(***************************************************************************)
(* Theorems about the parser and the loop around it, for any messages --   *)
(* every unit may come in every state --, any division into reads and any  *)
(* limits.  Every step of the machine keeps SessionInv: which values the   *)
(* fields of the parser may have in which state, and which text may be     *)
(* open in it.                                                             *)
(***************************************************************************)
EXTENDS HttpSession, TLAPS, FiniteSetTheorems, SequenceTheorems

-----------------------------------------------------------------------------
(* The parser: what its fields may be in which state.                      *)

Fields == {"type", "state", "hs", "index", "flags", "nread", "content_length", "major", "minor", "status",
           "method", "errno", "upgrade"}

IsParser(r) == r = [f \in Fields |-> r[f]]

ChunkStates == {"s_chunk_size_start", "s_chunk_size", "s_chunk_parameters", "s_chunk_size_almost_done",
                "s_chunk_data", "s_chunk_data_almost_done", "s_chunk_data_done"}

\* The states in which the framing of the message has been settled.
FramedStates == ChunkStates \cup {"s_headers_done", "s_body_identity", "s_body_identity_eof"}

\* The states that ask nothing of the fields.
Plain(s) == s \notin FramedStates \cup {"s_header_value"}

Sound(r) ==
  /\ IsParser(r)
  /\ r.content_length \in 0 .. LenMax /\ r.nread \in 0 .. HeaderMax + 1 /\ r.status \in 0 .. 999
  /\ r.errno = "HPE_OK" => r.nread <= HeaderMax
  /\ r.state \in ChunkStates => "CHUNKED" \in r.flags
  /\ r.state \in FramedStates => ~("CHUNKED" \in r.flags /\ "CONTENTLENGTH" \in r.flags)
  /\ r.state \in {"s_body_identity", "s_chunk_data"} => r.content_length \notin {0, LenMax}
  /\ r.state = "s_chunk_data_almost_done" => r.content_length = 0
  /\ r.state = "s_header_value" => r.hs \notin {"h_connection", "h_transfer_encoding"}
  /\ "CONTENTLENGTH" \in r.flags => r.content_length < LenMax
  /\ r.state \in ChunkStates \ {"s_chunk_size_start"} => r.content_length < LenMax

\* The text that may be open in a state: at most one.
May(k, s) ==
  \/ k = "url" /\ s \in UrlStates
  \/ k = "header_field" /\ s = "s_header_field"
  \/ k = "header_value" /\ s = "s_header_value"
  \/ k = "status" /\ s = "s_res_status"
  \/ k = "body" /\ s \in {"s_body_identity", "s_body_identity_eof", "s_chunk_data", "s_chunk_data_almost_done"}

Chars == Units \cup {NoChar}

Marked(m, s) == m \in [Kinds -> Seq(Chars)] /\ \A k \in Kinds : m[k] # NoMark => May(k, s)

ParserInv ==
  /\ pc \in {"recv", "exec", "return", "handle", "closed"} /\ ch \in Chars /\ buf \in Seq(Units)
  /\ Sound(ps) /\ Marked(mark, ps.state)
  /\ pc # "exec" => ch = NoChar /\ mark = NoMarks
  /\ pc \in {"recv", "exec", "handle"} => ps.errno = "HPE_OK"
  /\ ps.state = "s_chunk_size_start" /\ ps.errno = "HPE_OK" => ps.nread = IF ch = NoChar THEN 0 ELSE 1

\* What the peer has to send.
PeerInv ==
  /\ sent \in Nat /\ Len(script) \in Nat /\ wire \in Seq(Units)
  /\ \A i \in 1 .. Len(script) : script[i].units \in Seq(Units)

SessionInv == ParserInv /\ PeerInv

-----------------------------------------------------------------------------
(* How a step ends.                                                        *)

\* No text is open.
LEMMA NoMarksMarked == \A s : Marked(NoMarks, s)
BY DEF NoMarks, Marked, NoMark, Kinds, NoChar, Chars

\* The cursor moves on.
LEMMA AdvanceMarked ==
  ASSUME NEW s, NEW m, Marked(m, s), ch \in Chars
  PROVE  Marked(Advance(m), s)
<1>1. \A k \in Kinds : m[k] \in Seq(Chars) /\ Append(m[k], ch) \in Seq(Chars)
  BY AppendProperties DEF Marked
<1>2. NoMark \in Seq(Chars)
  BY DEF NoMark, NoChar, Chars
<1>3. QED
  BY <1>1, <1>2 DEF Marked, Advance

\* A text is begun.
LEMMA MarkMarked ==
  ASSUME NEW s, NEW t, NEW m, Marked(m, s), NEW k \in Kinds, May(k, t), \A j \in Kinds : May(j, s) => May(j, t)
  PROVE  Marked(MARK(k, m), t)
BY DEF Marked, MARK, Kinds

\* A text is handed over.
LEMMA UnmarkMarked ==
  ASSUME NEW s, NEW t, NEW m, Marked(m, s), NEW k \in Kinds, May(k, s)
  PROVE  Marked([m EXCEPT ![k] = NoMark], t)
<1>1. NoMark \in Seq(Chars)
  BY DEF NoMark, NoChar, Chars
<1>2. \A j \in Kinds : May(j, s) => j = k
  BY DEF May, Kinds, UrlStates
<1>3. QED
  BY <1>1, <1>2 DEF Marked

\* break
LEMMA BreakKeeps ==
  ASSUME ParserInv, pc = "exec", NEW r, NEW m, NEW d, Break(r, m, d), Sound(r), r.errno = "HPE_OK",
         Marked(m, r.state), r.state = "s_chunk_size_start" => r.nread = 0
  PROVE  ParserInv'
<1>1. Marked(Advance(m), r.state)
  BY AdvanceMarked DEF ParserInv
<1>2. ps' = r /\ mark' = Advance(m) /\ ch' = NoChar /\ buf' = buf /\ pc' = pc
  BY DEF Break
<1>3. NoChar \in Chars
  BY DEF Chars
<1>4. QED
  BY <1>1, <1>2, <1>3 DEF ParserInv

\* goto reexecute
LEMMA ReexecuteKeeps ==
  ASSUME ParserInv, pc = "exec", NEW r, NEW m, NEW d, REEXECUTE(r, m, d), Sound(r), r.errno = "HPE_OK",
         Marked(m, r.state), r.state # "s_chunk_size_start"
  PROVE  ParserInv'
BY DEF ParserInv, REEXECUTE

\* The call returns, with or without an error.
LEMMA ReturnKeeps ==
  ASSUME ParserInv, pc = "exec", NEW r, NEW d, RETURN(r, d), Sound(r),
         r.errno = "HPE_OK" /\ r.state = "s_chunk_size_start" => r.nread = 0
  PROVE  ParserInv'
<1>1. <<>> \in Seq(Units) /\ NoChar \in Chars
  BY DEF Chars
<1>2. QED
  BY <1>1, NoMarksMarked DEF ParserInv, RETURN

\* goto error
LEMMA FailKeeps ==
  ASSUME ParserInv, pc = "exec", NEW e, e # "HPE_OK", Fail(e)
  PROVE  ParserInv'
<1>1. PICK r : r = [ps EXCEPT !.errno = e] /\ RETURN(r, data)
  BY DEF Fail
<1>2. /\ IsParser(r) /\ r.content_length = ps.content_length /\ r.nread = ps.nread /\ r.status = ps.status
      /\ r.errno = e /\ r.flags = ps.flags /\ r.state = ps.state /\ r.hs = ps.hs
  BY <1>1 DEF ParserInv, Sound, IsParser, Fields
<1>3. Sound(r)
  BY <1>2 DEF ParserInv, Sound
<1>4. QED
  BY <1>1, <1>2, <1>3, ReturnKeeps

\* A new state that asks nothing of the fields.
LEMMA ToPlain ==
  ASSUME Sound(ps), NEW s, Plain(s)
  PROVE  Sound(To(s)) /\ To(s).state = s /\ To(s).errno = ps.errno
BY DEF Sound, IsParser, Fields, To, Plain, ChunkStates, FramedStates

\* Only these fields matter.
Same(r, p) == /\ IsParser(r) /\ r.content_length = p.content_length /\ r.nread = p.nread /\ r.status = p.status
              /\ r.errno = p.errno /\ r.flags = p.flags /\ r.hs = p.hs

\* A step that keeps the counters and flags and does not enter a state that is spoken of keeps Sound.
LEMMA SameSound ==
  ASSUME NEW p, NEW r, Sound(p), Same(r, p), r.state = p.state \/ Plain(r.state)
  PROVE  Sound(r)
BY DEF Sound, Same, Plain, ChunkStates, FramedStates

\* break, with a new state only.
LEMMA GotoKeeps ==
  ASSUME ParserInv, pc = "exec", NEW s, Plain(s), Goto(s), \A k \in Kinds : ~May(k, ps.state)
  PROVE  ParserInv'
<1>1. Marked(mark, s)
  BY DEF ParserInv, Marked
<1>2. QED
  BY <1>1, ToPlain, BreakKeeps DEF Goto, ParserInv, Plain, ChunkStates, FramedStates

\* break, and nothing else.
LEMMA StayKeeps ==
  ASSUME ParserInv, pc = "exec", Stay, ps.state # "s_chunk_size_start"
  PROVE  ParserInv'
BY BreakKeeps DEF Stay, ParserInv

\* One unit is expected.
LEMMA ExpectKeeps ==
  ASSUME ParserInv, pc = "exec", NEW c, NEW s, NEW e, Expect(c, s, e), Plain(s), e # "HPE_OK",
         \A k \in Kinds : ~May(k, ps.state)
  PROVE  ParserInv'
BY GotoKeeps, FailKeeps DEF Expect

\* A text goes to its callback, and the state that follows asks nothing of the fields.
LEMMA CallbackKeeps ==
  ASSUME ParserInv, pc = "exec", NEW k \in Kinds, May(k, ps.state), NEW s, Plain(s),
         CALLBACK_DATA(k, To(s), Break) \/ CALLBACK_DATA(k, To(s), REEXECUTE)
  PROVE  ParserInv'
<1>1. Marked([mark EXCEPT ![k] = NoMark], s)
  BY UnmarkMarked DEF ParserInv
<1>2. Sound(To(s)) /\ To(s).state = s /\ To(s).errno = "HPE_OK" /\ s # "s_chunk_size_start"
  BY ToPlain DEF ParserInv, Plain, ChunkStates, FramedStates
<1>3. QED
  BY <1>1, <1>2, BreakKeeps, ReexecuteKeeps DEF CALLBACK_DATA

\* The target goes to its callback, which may refuse it.
LEMMA CallbackUrlKeeps ==
  ASSUME ParserInv, pc = "exec", ps.state \in UrlStates, NEW r, Sound(r), r.errno = "HPE_OK", Plain(r.state),
         CALLBACK_URL(r)
  PROVE  ParserInv'
<1>1. Sound([r EXCEPT !.errno = "HPE_CB_url"]) /\ [r EXCEPT !.errno = "HPE_CB_url"].errno # "HPE_OK"
  BY DEF Sound, IsParser, Fields, ChunkStates, FramedStates
<1>2. "url" \in Kinds /\ May("url", ps.state)
  BY DEF Kinds, May
<1>3. Marked([mark EXCEPT !["url"] = NoMark], r.state)
  BY <1>2, UnmarkMarked DEF ParserInv
<1>4. QED
  BY <1>1, <1>3, ReturnKeeps, BreakKeeps DEF CALLBACK_URL, CALLBACK_DATA, Plain, ChunkStates, FramedStates

\* parse_url_char stays in the target.
LEMMA UrlStays == \A s, c : parse_url_char(s, c) \in UrlStates \cup {"s_dead"}
BY DEF parse_url_char, UrlServer, UrlTail, UrlStates

\* One more unit of the target.
LEMMA UrlStepKeeps ==
  ASSUME ParserInv, pc = "exec", NEW from, NEW m, \A s \in UrlStates : Marked(m, s), UrlStep(from, m)
  PROVE  ParserInv'
<1> DEFINE s == parse_url_char(from, ch)
<1>1. s \in UrlStates \cup {"s_dead"}
  BY UrlStays
<1>2. (s = "s_dead" /\ Fail("HPE_INVALID_URL")) \/ (s # "s_dead" /\ Break(To(s), m, data))
  BY DEF UrlStep
<1> HIDE DEF s
<1>3. CASE s = "s_dead" /\ Fail("HPE_INVALID_URL")
  BY <1>3, FailKeeps
<1>4. CASE s \in UrlStates /\ Break(To(s), m, data)
  <2>1. Plain(s) /\ s # "s_chunk_size_start"
    BY <1>4 DEF Plain, ChunkStates, FramedStates, UrlStates
  <2>2. Sound(To(s)) /\ To(s).state = s /\ To(s).errno = "HPE_OK"
    BY <2>1, ToPlain DEF ParserInv
  <2>3. QED
    BY <1>4, <2>1, <2>2, BreakKeeps
<1>5. QED
  BY <1>1, <1>2, <1>3, <1>4

-----------------------------------------------------------------------------
(* The request line and the status line.                                   *)

\* In the state of a step no text is open, unless it is one of those that May names.
LEMMA NothingOpen ==
  ASSUME NEW s, s \notin UrlStates, s \notin {"s_header_field", "s_header_value", "s_res_status", "s_body_identity",
         "s_body_identity_eof", "s_chunk_data", "s_chunk_data_almost_done"}
  PROVE  \A k \in Kinds : ~May(k, s)
BY DEF May

\* The method.
LEMMA MethodKeeps ==
  ASSUME ParserInv, s_dead \/ s_start_req \/ s_req_method
  PROVE  ParserInv'
<1>0. pc = "exec" /\ Sound(ps) /\ ps.errno = "HPE_OK" /\ Marked(mark, ps.state)
  BY ZenonT(40) DEF ParserInv, s_dead, s_start_req, s_req_method, At
<1>1. CASE s_dead
  BY <1>0, <1>1, StayKeeps, FailKeeps DEF s_dead, At
<1>2. CASE s_start_req
  <2>1. ASSUME NEW m PROVE
        LET r == [Begin(ps) EXCEPT !.method = m, !.index = 1, !.state = "s_req_method"]
        IN  Sound(r) /\ r.state = "s_req_method" /\ r.errno = "HPE_OK"
    <3> DEFINE r == [Begin(ps) EXCEPT !.method = m, !.index = 1, !.state = "s_req_method"]
    <3>1. /\ IsParser(r) /\ r.content_length = LenMax /\ r.nread = ps.nread /\ r.status = ps.status
          /\ r.errno = ps.errno /\ r.flags = {} /\ r.state = "s_req_method"
      BY ZenonT(40), <1>0 DEF Sound, IsParser, Fields, Begin
    <3> HIDE DEF r
    <3>2. Sound(r)
      BY <1>0, <3>1, BoundsAssumption DEF Sound, ChunkStates, FramedStates
    <3>3. QED
      BY <1>0, <3>1, <3>2 DEF r
  <2>2. Marked(mark, "s_req_method")
    BY <1>0, <1>2, NothingOpen DEF s_start_req, At, Marked, UrlStates
  <2>3. QED
    BY ZenonT(40), <1>0, <1>2, <2>1, <2>2, StayKeeps, FailKeeps, BreakKeeps DEF s_start_req, At
<1>3. CASE s_req_method
  <2>1. ASSUME NEW m PROVE
        LET r == [ps EXCEPT !.method = m, !.index = 2]
        IN  Sound(r) /\ r.state = ps.state /\ r.errno = "HPE_OK"
    <3> DEFINE r == [ps EXCEPT !.method = m, !.index = 2]
    <3>1. Same(r, ps) /\ r.state = ps.state /\ r.errno = ps.errno
      BY ZenonT(40), <1>0 DEF Sound, IsParser, Fields, Same
    <3> HIDE DEF r
    <3>2. QED
      BY <1>0, <3>1, SameSound DEF r
  <2>2. LET r == [ps EXCEPT !.index = 2]
        IN  Sound(r) /\ r.state = ps.state /\ r.errno = "HPE_OK"
    BY <1>0 DEF Sound, IsParser, Fields, ChunkStates, FramedStates
  <2>3. ps.state = "s_req_method"
    BY ZenonT(40), <1>3 DEF s_req_method, At
  <2>4. \A k \in Kinds : ~May(k, ps.state)
    BY <2>3, NothingOpen DEF UrlStates
  <2>5. Plain("s_req_spaces_before_url")
    BY DEF Plain, ChunkStates, FramedStates
  <2>6. QED
    BY ZenonT(40), <1>0, <1>3, <2>1, <2>2, <2>3, <2>4, <2>5, GotoKeeps, FailKeeps, BreakKeeps DEF s_req_method
<1>4. QED
  BY <1>1, <1>2, <1>3

\* The target.
LEMMA TargetKeeps ==
  ASSUME ParserInv, s_req_spaces_before_url \/ s_req_url
  PROVE  ParserInv'
<1>0. pc = "exec" /\ Sound(ps) /\ ps.errno = "HPE_OK" /\ Marked(mark, ps.state)
  BY DEF ParserInv, s_req_spaces_before_url, s_req_url, At
<1>1. CASE s_req_spaces_before_url
  <2>1. ps.state = "s_req_spaces_before_url"
    BY <1>1 DEF s_req_spaces_before_url, At
  <2>2. \A k \in Kinds : ~May(k, ps.state)
    BY <2>1, NothingOpen DEF UrlStates
  <2>3. ASSUME NEW s \in UrlStates PROVE Marked(MARK("url", mark), s)
    <3>1. "url" \in Kinds /\ May("url", s)
      BY DEF Kinds, May
    <3>2. QED
      BY <1>0, <2>2, <3>1, MarkMarked
  <2>4. QED
    BY <1>0, <1>1, <2>1, <2>3, StayKeeps, UrlStepKeeps DEF s_req_spaces_before_url
<1>2. CASE s_req_url
  <2>1. ps.state \in UrlStates
    BY <1>2 DEF s_req_url, At
  <2>2. \A s \in UrlStates : Marked(mark, s)
    BY <1>0, <2>1 DEF Marked, May, UrlStates
  <2>3. ASSUME NEW s \in {"s_req_line_almost_done", "s_header_field_start"} PROVE
        LET r == [To(s) EXCEPT !.major = 0, !.minor = 9]
        IN  Sound(r) /\ r.state = s /\ r.errno = "HPE_OK" /\ Plain(r.state)
    <3> DEFINE r == [To(s) EXCEPT !.major = 0, !.minor = 9]
    <3>1. Same(r, ps) /\ r.state = s /\ r.errno = ps.errno
      BY ZenonT(40), <1>0 DEF Sound, IsParser, Fields, Same, To
    <3>2. Plain(s)
      BY DEF Plain, ChunkStates, FramedStates
    <3> HIDE DEF r
    <3>3. QED
      BY <1>0, <3>1, <3>2, SameSound DEF r
  <2>4. Sound(To("s_req_http_start")) /\ To("s_req_http_start").errno = "HPE_OK"
        /\ Plain(To("s_req_http_start").state)
    BY <1>0, ToPlain DEF Plain, ChunkStates, FramedStates
  <2>5. QED
    BY <1>0, <1>2, <2>1, <2>2, <2>3, <2>4, FailKeeps, CallbackUrlKeeps, UrlStepKeeps DEF s_req_url
<1>3. QED
  BY <1>1, <1>2

\* The version.
LEMMA VersionKeeps ==
  ASSUME ParserInv, s_req_http_start \/ s_http_literal \/ s_http_version \/ s_req_http_end
  PROVE  ParserInv'
<1> DEFINE S == {"s_req_http_start", "s_req_http_H", "s_req_http_HTTP", "s_res_H", "s_res_HTTP", "s_req_http_major",
                 "s_res_http_major", "s_req_http_minor", "s_res_http_minor", "s_req_http_dot", "s_res_http_dot",
                 "s_res_http_end", "s_req_http_end", "s_req_line_almost_done"}
<1>0. pc = "exec" /\ Sound(ps) /\ ps.errno = "HPE_OK" /\ Marked(mark, ps.state) /\ ps.state \in S
  BY DEF ParserInv, s_req_http_start, s_http_literal, s_http_version, s_req_http_end, At
<1>1. \A k \in Kinds : ~May(k, ps.state)
  BY <1>0, NothingOpen DEF UrlStates
<1>2. \A s \in S \cup {"s_header_field_start", "s_res_first_status_code"} : Plain(s)
  BY DEF Plain, ChunkStates, FramedStates
<1>3. ASSUME NEW s \in S, NEW v, NEW r, r = [To(s) EXCEPT !.major = v] \/ r = [To(s) EXCEPT !.minor = v]
      PROVE  Sound(r) /\ r.state = s /\ r.errno = "HPE_OK"
  <2>1. Same(r, ps) /\ r.state = s
    <3>1. CASE r = [To(s) EXCEPT !.major = v]
      BY ZenonT(40), <1>0, <3>1 DEF Sound, IsParser, Fields, Same, To
    <3>2. CASE r = [To(s) EXCEPT !.minor = v]
      BY ZenonT(40), <1>0, <3>2 DEF Sound, IsParser, Fields, Same, To
    <3>3. QED
      BY <1>3, <3>1, <3>2
  <2>2. QED
    BY <1>0, <1>2, <2>1, SameSound DEF Same
<1>4. ASSUME NEW s \in S PROVE Marked(mark, s) /\ s # "s_chunk_size_start"
  BY <1>0, <1>1 DEF Marked
<1>5. CASE s_req_http_start
  BY <1>0, <1>1, <1>2, <1>5, StayKeeps, GotoKeeps, FailKeeps DEF s_req_http_start
<1>6. CASE s_http_literal
  BY <1>0, <1>1, <1>2, <1>6, ExpectKeeps DEF s_http_literal
<1>7. CASE s_http_version
  <2>1. ASSUME NEW s \in S, NEW v, \/ Break([To(s) EXCEPT !.major = v], mark, data)
                                   \/ Break([To(s) EXCEPT !.minor = v], mark, data)
        PROVE  ParserInv'
    <3>1. PICK r : (r = [To(s) EXCEPT !.major = v] \/ r = [To(s) EXCEPT !.minor = v]) /\ Break(r, mark, data)
      BY <2>1
    <3>2. Sound(r) /\ r.state = s /\ r.errno = "HPE_OK"
      BY SMTT(40), <1>3, <3>1
    <3>3. QED
      BY <1>0, <1>4, <3>1, <3>2, BreakKeeps
  <2>2. CASE At({"s_req_http_dot"}) /\ Expect(".", "s_req_http_minor", "HPE_INVALID_VERSION")
    BY <1>0, <1>1, <1>2, <2>2, ExpectKeeps
  <2>3. CASE At({"s_res_http_dot"}) /\ Expect(".", "s_res_http_minor", "HPE_INVALID_VERSION")
    BY <1>0, <1>1, <1>2, <2>3, ExpectKeeps
  <2>4. CASE At({"s_res_http_end"}) /\ Expect("SP", "s_res_first_status_code", "HPE_INVALID_VERSION")
    BY <1>0, <1>1, <1>2, <2>4, ExpectKeeps
  <2>5. CASE Fail("HPE_INVALID_VERSION")
    BY <1>0, <2>5, FailKeeps
  <2>6. QED
    BY <1>7, <2>1, <2>2, <2>3, <2>4, <2>5 DEF s_http_version
<1>8. CASE s_req_http_end
  BY <1>0, <1>1, <1>2, <1>8, ExpectKeeps, GotoKeeps, FailKeeps DEF s_req_http_end
<1>9. QED
  BY <1>5, <1>6, <1>7, <1>8

\* A digit.
LEMMA DigitValRange == \A c : DigitVal(c) \in 0 .. 9
BY DEF DigitVal

\* The status line.
LEMMA StatusKeeps ==
  ASSUME ParserInv, s_start_res \/ s_res_status_code \/ s_res_status
  PROVE  ParserInv'
<1> DEFINE S == {"s_start_res", "s_res_first_status_code", "s_res_status_code", "s_res_status_start",
                 "s_res_line_almost_done"}
           T == S \cup {"s_res_H", "s_res_status", "s_header_field_start"}
<1>0. /\ pc = "exec" /\ Sound(ps) /\ ps.errno = "HPE_OK" /\ Marked(mark, ps.state)
      /\ ps.state \in S \cup {"s_res_status"}
  BY DEF ParserInv, s_start_res, s_res_status_code, s_res_status, At
<1>1. ps.state \in S => \A k \in Kinds : ~May(k, ps.state)
  BY NothingOpen DEF UrlStates
<1>2. \A s \in T : Plain(s) /\ s # "s_chunk_size_start"
  BY DEF Plain, ChunkStates, FramedStates
<1>3. ps.state \in S => \A s \in T : Marked(mark, s)
  BY <1>0, <1>1 DEF Marked
<1>4. \A s \in T : Sound(To(s)) /\ To(s).state = s /\ To(s).errno = "HPE_OK"
  BY <1>0, <1>2, ToPlain
<1>5. CASE s_start_res
  <2>1. ps.state = "s_start_res" /\ ps.state \in S
    BY <1>5 DEF s_start_res, At
  <2>2. ASSUME NEW r, r = [Begin(ps) EXCEPT !.state = "s_res_H"], Break(r, mark, data) PROVE ParserInv'
    <3>1. /\ IsParser(r) /\ r.content_length = LenMax /\ r.nread = ps.nread /\ r.status = ps.status
          /\ r.errno = ps.errno /\ r.flags = {} /\ r.state = "s_res_H"
      BY ZenonT(40), <1>0, <2>2 DEF Sound, IsParser, Fields, Begin
    <3>2. Sound(r)
      BY <1>0, <3>1, BoundsAssumption DEF Sound, ChunkStates, FramedStates
    <3>3. QED
      BY <1>0, <1>3, <2>1, <2>2, <3>1, <3>2, BreakKeeps
  <2>3. QED
    BY <1>0, <1>5, <2>1, <2>2, StayKeeps, FailKeeps DEF s_start_res
<1>6. CASE s_res_status_code
  <2>1. ps.state \in {"s_res_first_status_code", "s_res_status_code"}
    BY <1>6 DEF s_res_status_code, At
  <2>2. ASSUME NEW code \in 0 .. 999, NEW r, r = [To("s_res_status_code") EXCEPT !.status = code],
               Break(r, mark, data)
        PROVE  ParserInv'
    <3>1. /\ IsParser(r) /\ r.content_length = ps.content_length /\ r.nread = ps.nread /\ r.status = code
          /\ r.errno = ps.errno /\ r.flags = ps.flags /\ r.state = "s_res_status_code"
      BY ZenonT(40), <1>0, <2>2 DEF Sound, IsParser, Fields, To
    <3>2. Sound(r)
      BY <1>0, <3>1 DEF Sound, ChunkStates, FramedStates
    <3>3. QED
      BY ZenonT(40), <1>0, <1>3, <2>1, <2>2, <3>1, <3>2, BreakKeeps
  <2> DEFINE first == ps.state = "s_res_first_status_code"
             code  == IF first THEN DigitVal(ch) ELSE ps.status * 10 + DigitVal(ch)
  <2>3. StatusFits(code) => code \in 0 .. 999
    <3>1. ps.status \in 0 .. 999 /\ DigitVal(ch) \in 0 .. 9
      BY <1>0, DigitValRange DEF Sound
    <3>2. CASE first
      BY <3>1, <3>2 DEF StatusFits
    <3>3. CASE ~first
      <4>1. \A n \in 0 .. 999, d \in 0 .. 9 : n * 10 + d <= 999 => n * 10 + d \in 0 .. 999
        OBVIOUS
      <4>2. code = ps.status * 10 + DigitVal(ch)
        BY <3>3
      <4> HIDE DEF code
      <4>3. QED
        BY ZenonT(40), <3>1, <4>1, <4>2 DEF StatusFits
    <3>4. QED
      BY <3>2, <3>3
  <2>4. CASE StatusFits(code) /\ Break([To("s_res_status_code") EXCEPT !.status = code], mark, data)
    BY SMTT(40), <2>2, <2>3, <2>4
  <2>5. CASE Fail("HPE_INVALID_STATUS")
    BY <1>0, <2>5, FailKeeps
  <2>6. CASE Goto(IF first THEN ps.state ELSE "s_res_status_start")
    BY <1>0, <1>1, <1>2, <2>1, <2>6, GotoKeeps
  <2>7. CASE REEXECUTE(To("s_res_status_start"), mark, data)
    BY <1>0, <1>2, <1>3, <1>4, <2>1, <2>7, ReexecuteKeeps
  <2>8. QED
    BY <1>6, <2>4, <2>5, <2>6, <2>7 DEF s_res_status_code
<1>7. CASE s_res_status
  <2>1. CASE At({"s_res_status_start"})
    <3>1. ps.state = "s_res_status_start" /\ "status" \in Kinds /\ May("status", "s_res_status")
      BY <2>1 DEF At, Kinds, May
    <3>2. Marked(MARK("status", mark), "s_res_status")
      BY <1>0, <1>1, <3>1, MarkMarked
    <3>3. \/ REEXECUTE(To("s_res_status"), MARK("status", mark), data)
          \/ Break(To("s_res_status"), MARK("status", mark), data)
      BY <1>7, <3>1 DEF s_res_status, At
    <3>4. QED
      BY <1>0, <1>4, <3>2, <3>3, ReexecuteKeeps, BreakKeeps
  <2>2. CASE At({"s_res_status"})
    <3>1. ps.state = "s_res_status" /\ "status" \in Kinds /\ May("status", "s_res_status")
      BY <2>2 DEF At, Kinds, May
    <3>2. \/ CALLBACK_DATA("status", To("s_res_line_almost_done"), Break)
          \/ CALLBACK_DATA("status", To("s_header_field_start"), Break)
          \/ Stay
      BY <1>7, <3>1 DEF s_res_status, At
    <3>3. CASE Stay
      BY <1>0, <3>1, <3>3, StayKeeps
    <3>4. CASE CALLBACK_DATA("status", To("s_res_line_almost_done"), Break)
      BY <1>0, <1>2, <3>1, <3>4, CallbackKeeps
    <3>5. CASE CALLBACK_DATA("status", To("s_header_field_start"), Break)
      BY <1>0, <1>2, <3>1, <3>5, CallbackKeeps
    <3>6. QED
      BY <3>2, <3>3, <3>4, <3>5
  <2>3. CASE At({"s_res_line_almost_done"})
    <3>1. ps.state = "s_res_line_almost_done"
      BY <2>3 DEF At
    <3>2. Expect("LF", "s_header_field_start", "HPE_STRICT")
      BY <1>7, <3>1 DEF s_res_status, At
    <3>3. QED
      BY <1>0, <1>1, <1>2, <3>1, <3>2, ExpectKeeps
  <2>4. QED
    BY <1>7, <2>1, <2>2, <2>3 DEF s_res_status
<1>8. QED
  BY <1>5, <1>6, <1>7

-----------------------------------------------------------------------------
(* Header lines.                                                           *)

\* A step that changes the header state, or adds flags other than that of a content length.
Recognised(r, f) ==
  /\ IsParser(r) /\ r.content_length = ps.content_length /\ r.nread = ps.nread /\ r.status = ps.status
  /\ r.errno = ps.errno /\ r.flags = ps.flags \cup f

\* A header that was recognised keeps Sound.
LEMMA RecognisedSound ==
  ASSUME Sound(ps), NEW r, NEW f, Recognised(r, f), "CONTENTLENGTH" \notin f,
         \/ Plain(r.state)
         \/ r.state = "s_header_value" /\ r.hs \notin {"h_connection", "h_transfer_encoding"}
  PROVE  Sound(r)
BY DEF Sound, Recognised, Plain, ChunkStates, FramedStates

\* The names.
LEMMA NameKeeps ==
  ASSUME ParserInv, s_header_field_start \/ s_header_field
  PROVE  ParserInv'
<1>0. pc = "exec" /\ Sound(ps) /\ ps.errno = "HPE_OK" /\ Marked(mark, ps.state)
  BY DEF ParserInv, s_header_field_start, s_header_field, At
<1>1. \A s \in {"s_headers_almost_done", "s_header_field", "s_header_value_discard_ws"} :
        Plain(s) /\ s # "s_chunk_size_start"
  BY DEF Plain, ChunkStates, FramedStates
<1>2. "header_field" \in Kinds /\ May("header_field", "s_header_field")
  BY DEF Kinds, May
<1>3. ASSUME NEW r, NEW h, r = [To("s_header_field") EXCEPT !.hs = h] \/ r = [ps EXCEPT !.hs = h]
      PROVE  Recognised(r, {}) /\ r.hs = h
  <2>1. CASE r = [To("s_header_field") EXCEPT !.hs = h]
    BY ZenonT(40), <1>0, <2>1 DEF Sound, IsParser, Fields, To, Recognised
  <2>2. CASE r = [ps EXCEPT !.hs = h]
    BY <1>0, <2>2 DEF Sound, IsParser, Fields, Recognised
  <2>3. QED
    BY <1>3, <2>1, <2>2
<1>4. CASE s_header_field_start
  <2>1. ps.state = "s_header_field_start"
    BY <1>4 DEF s_header_field_start, At
  <2>2. \A k \in Kinds : ~May(k, ps.state)
    BY <2>1, NothingOpen DEF UrlStates
  <2>3. Marked(MARK("header_field", mark), "s_header_field")
    BY <1>0, <1>2, <2>2, MarkMarked
  <2>4. ASSUME NEW r, r = [To("s_header_field") EXCEPT !.hs = NameStart(ch)],
               Break(r, MARK("header_field", mark), data)
        PROVE  ParserInv'
    <3>1. r.state = "s_header_field"
      BY <1>0, <2>4 DEF Sound, IsParser, Fields, To
    <3>2. Sound(r) /\ r.errno = "HPE_OK"
      BY <1>0, <1>1, <1>3, <2>4, <3>1, RecognisedSound DEF Recognised
    <3>3. QED
      BY <1>0, <2>3, <2>4, <3>1, <3>2, BreakKeeps
  <2>5. CASE Goto("s_headers_almost_done")
    BY <1>0, <1>1, <2>2, <2>5, GotoKeeps
  <2>6. CASE REEXECUTE(To("s_headers_almost_done"), mark, data)
    <3>1. Marked(mark, "s_headers_almost_done")
      BY <1>0, <2>2 DEF Marked
    <3>2. QED
      BY <1>0, <1>1, <2>6, <3>1, ToPlain, ReexecuteKeeps
  <2>7. CASE Fail("HPE_INVALID_HEADER_TOKEN")
    BY <1>0, <2>7, FailKeeps
  <2>8. QED
    BY <1>4, <2>4, <2>5, <2>6, <2>7 DEF s_header_field_start
<1>5. CASE s_header_field
  <2>1. ps.state = "s_header_field"
    BY <1>5 DEF s_header_field, At
  <2>2. ASSUME NEW r, r = [ps EXCEPT !.hs = NameNext(@, ch)], Break(r, mark, data)
        PROVE  ParserInv'
    <3>1. r.state = "s_header_field"
      BY <1>0, <2>1, <2>2 DEF Sound, IsParser, Fields
    <3>2. Sound(r) /\ r.errno = "HPE_OK"
      BY <1>0, <1>1, <1>3, <2>2, <3>1, RecognisedSound DEF Recognised
    <3>3. QED
      BY <1>0, <2>1, <2>2, <3>1, <3>2, BreakKeeps
  <2>3. CASE CALLBACK_DATA("header_field", To("s_header_value_discard_ws"), Break)
    BY <1>0, <1>1, <1>2, <2>1, <2>3, CallbackKeeps
  <2>4. CASE Fail("HPE_INVALID_HEADER_TOKEN")
    BY <1>0, <2>4, FailKeeps
  <2>5. QED
    BY <1>5, <2>2, <2>3, <2>4 DEF s_header_field
<1>6. QED
  BY <1>4, <1>5

\* The flags that a value sets, and the header states it goes through.
LEMMA ValueFacts ==
  /\ \A h : "CONTENTLENGTH" \notin ValueFlag(h)
  /\ \A c : ConnectionStart(c) \notin {"h_connection", "h_transfer_encoding"}
  /\ \A h, c : h \notin {"h_connection", "h_transfer_encoding"} =>
               ValueNext(h, c) \notin {"h_connection", "h_transfer_encoding"}
<1>1. \A h : "CONTENTLENGTH" \notin ValueFlag(h)
  BY DEF ValueFlag
<1>2. \A c : ConnectionStart(c) \notin {"h_connection", "h_transfer_encoding"}
  BY DEF ConnectionStart
<1>3. \A h, c : h \notin {"h_connection", "h_transfer_encoding"} =>
               ValueNext(h, c) \notin {"h_connection", "h_transfer_encoding"}
  BY ZenonT(40), <1>2 DEF ValueNext
<1>4. QED
  BY <1>1, <1>2, <1>3

\* The first unit of a value.
LEMMA ValueStartKeeps ==
  ASSUME ParserInv, pc = "exec", ps.state \in {"s_header_value_start", "s_header_value_discard_ws"}, ValueStart
  PROVE  ParserInv'
<1>0. Sound(ps) /\ ps.errno = "HPE_OK" /\ Marked(mark, ps.state)
  BY DEF ParserInv
<1>1. "header_value" \in Kinds /\ May("header_value", "s_header_value")
  BY DEF Kinds, May
<1>2. \A k \in Kinds : ~May(k, ps.state)
  BY NothingOpen DEF UrlStates
<1>3. Marked(MARK("header_value", mark), "s_header_value")
  BY <1>0, <1>1, <1>2, MarkMarked
<1> DEFINE Go(r) == Break([r EXCEPT !.state = "s_header_value"], MARK("header_value", mark), data)
<1>4. ASSUME NEW r, Sound(r), r.state = "s_header_value", r.errno = "HPE_OK",
             Break(r, MARK("header_value", mark), data)
      PROVE  ParserInv'
  BY <1>0, <1>3, <1>4, BreakKeeps
<1>5. CASE Fail("HPE_INVALID_CONTENT_LENGTH") \/ Fail("HPE_UNEXPECTED_CONTENT_LENGTH")
  BY <1>5, FailKeeps
<1>6. CASE Go([ps EXCEPT !.flags = @ \cup {"CONTENTLENGTH"}, !.content_length = DigitVal(ch),
                         !.hs = "h_content_length_num"])
  <2>1. PICK r : /\ r = [[ps EXCEPT !.flags = @ \cup {"CONTENTLENGTH"}, !.content_length = DigitVal(ch),
                                    !.hs = "h_content_length_num"] EXCEPT !.state = "s_header_value"]
                 /\ Break(r, MARK("header_value", mark), data)
    BY <1>6
  <2>2. /\ IsParser(r) /\ r.content_length = DigitVal(ch) /\ r.nread = ps.nread /\ r.status = ps.status
        /\ r.errno = ps.errno /\ r.hs = "h_content_length_num" /\ r.state = "s_header_value"
    BY ZenonT(40), <1>0, <2>1 DEF Sound, IsParser, Fields
  <2>3. Sound(r)
    <3>1. DigitVal(ch) \in 0 .. LenMax /\ DigitVal(ch) < LenMax
      BY DigitValRange, BoundsAssumption
    <3>2. QED
      BY <1>0, <2>2, <3>1 DEF Sound, ChunkStates, FramedStates
  <2>4. QED
    BY <1>0, <1>4, <2>1, <2>2, <2>3
<1>7. ASSUME NEW r, NEW f, Recognised(r, f), "CONTENTLENGTH" \notin f, r.state = "s_header_value",
             r.hs \notin {"h_connection", "h_transfer_encoding"}, Break(r, MARK("header_value", mark), data)
      PROVE  ParserInv'
  <2>1. Sound(r) /\ r.errno = "HPE_OK"
    BY <1>0, <1>7, RecognisedSound DEF Recognised
  <2>2. QED
    BY <1>4, <1>7, <2>1
<1>8. CASE Go([ps EXCEPT !.flags = @ \cup {"UPGRADE"}, !.hs = "h_general"])
  <2>1. PICK r : /\ r = [[ps EXCEPT !.flags = @ \cup {"UPGRADE"}, !.hs = "h_general"] EXCEPT !.state = "s_header_value"]
                 /\ Break(r, MARK("header_value", mark), data)
    BY <1>8
  <2>2. Recognised(r, {"UPGRADE"}) /\ r.hs = "h_general" /\ r.state = "s_header_value"
    BY ZenonT(40), <1>0, <2>1 DEF Sound, IsParser, Fields, Recognised
  <2>3. QED
    BY <1>7, <2>1, <2>2
<1>9. ASSUME NEW h, h \notin {"h_connection", "h_transfer_encoding"}, Go([ps EXCEPT !.hs = h])
      PROVE  ParserInv'
  <2>1. PICK r : /\ r = [[ps EXCEPT !.hs = h] EXCEPT !.state = "s_header_value"]
                 /\ Break(r, MARK("header_value", mark), data)
    BY <1>9
  <2>2. Recognised(r, {}) /\ r.hs = h /\ r.state = "s_header_value"
    BY ZenonT(40), <1>0, <2>1 DEF Sound, IsParser, Fields, Recognised
  <2>3. QED
    BY <1>7, <1>9, <2>1, <2>2
<1>10. CASE ps.hs \in {"h_content_length_ws", "h_matching_connection_token_start"} /\ Go(ps)
  <2>1. PICK r : r = [ps EXCEPT !.state = "s_header_value"] /\ Break(r, MARK("header_value", mark), data)
    BY <1>10
  <2>2. Recognised(r, {}) /\ r.hs = ps.hs /\ r.state = "s_header_value"
    BY <1>0, <2>1 DEF Sound, IsParser, Fields, Recognised
  <2>3. QED
    BY <1>7, <1>10, <2>1, <2>2
<1>11. CASE Go([ps EXCEPT !.hs = ConnectionStart(ch)])
  BY ZenonT(40), <1>9, <1>11, ValueFacts
<1>12. CASE Go([ps EXCEPT !.hs = IF @ = "h_transfer_encoding" /\ ch = "chun"
                                 THEN "h_matching_transfer_encoding_chunked" ELSE "h_general"])
  <2>1. PICK h : /\ h = IF ps.hs = "h_transfer_encoding" /\ ch = "chun"
                        THEN "h_matching_transfer_encoding_chunked" ELSE "h_general"
                 /\ Go([ps EXCEPT !.hs = h])
    BY ZenonT(40), <1>12
  <2>2. h \notin {"h_connection", "h_transfer_encoding"}
    BY <2>1
  <2> HIDE DEF Go
  <2>3. QED
    BY <1>9, <2>1, <2>2
<1>13. QED
  BY <1>5, <1>6, <1>8, <1>10, <1>11, <1>12 DEF ValueStart

\* A length that takes one more digit stays below the value for "no length".
LEMMA TooLongBounds ==
  ASSUME NEW n \in Nat
  PROVE  /\ ~TooLong(n, 10) => \A d \in 0 .. 9 : n * 10 + d \in 0 .. LenMax /\ n * 10 + d < LenMax
         /\ ~TooLong(n, 16) => \A d \in 0 .. 10 : n * 16 + d \in 0 .. LenMax /\ n * 16 + d < LenMax
<1>1. ASSUME ~TooLong(n, 10) PROVE n * 10 <= LenMax - 10
  BY <1>1, BoundsAssumption DEF TooLong
<1>2. ASSUME ~TooLong(n, 16) PROVE n * 16 <= LenMax - 16
  BY <1>2, BoundsAssumption DEF TooLong
<1>3. QED
  BY <1>1, <1>2, BoundsAssumption

\* The values.
LEMMA ValueKeeps ==
  ASSUME ParserInv, s_header_value_start \/ s_header_value
  PROVE  ParserInv'
<1>0. pc = "exec" /\ Sound(ps) /\ ps.errno = "HPE_OK" /\ Marked(mark, ps.state)
  BY DEF ParserInv, s_header_value_start, s_header_value, At
<1>1. \A s \in {"s_header_value_discard_ws_almost_done", "s_header_value_discard_lws", "s_header_almost_done"} :
        Plain(s)
  BY DEF Plain, ChunkStates, FramedStates
<1>2. CASE s_header_value_start
  <2>1. ps.state \in {"s_header_value_start", "s_header_value_discard_ws"}
    BY <1>2 DEF s_header_value_start, At
  <2>2. \A k \in Kinds : ~May(k, ps.state)
    BY <2>1, NothingOpen DEF UrlStates
  <2>3. QED
    BY <1>0, <1>1, <1>2, <2>1, <2>2, StayKeeps, GotoKeeps, ValueStartKeeps DEF s_header_value_start
<1>3. CASE s_header_value
  <2>1. ps.state = "s_header_value" /\ ps.hs \notin {"h_connection", "h_transfer_encoding"}
    BY <1>0, <1>3 DEF s_header_value, At, Sound
  <2>2. "header_value" \in Kinds /\ May("header_value", ps.state)
    BY <2>1 DEF Kinds, May
  <2>3. CASE CALLBACK_DATA("header_value", To("s_header_almost_done"), Break)
    BY <1>0, <1>1, <2>2, <2>3, CallbackKeeps
  <2>4. CASE CALLBACK_DATA("header_value", To("s_header_almost_done"), REEXECUTE)
    BY <1>0, <1>1, <2>2, <2>4, CallbackKeeps
  <2>5. CASE Fail("HPE_INVALID_HEADER_TOKEN") \/ Fail("HPE_INVALID_CONTENT_LENGTH")
    BY <1>0, <2>5, FailKeeps
  <2>6. CASE /\ ~TooLong(ps.content_length, 10)
             /\ Break([ps EXCEPT !.content_length = @ * 10 + DigitVal(ch)], mark, data)
    <3>1. PICK n : /\ n = ps.content_length * 10 + DigitVal(ch)
                   /\ Break([ps EXCEPT !.content_length = n], mark, data)
      BY <2>6
    <3>2. n \in 0 .. LenMax /\ n < LenMax
      <4>1. ps.content_length \in Nat
        BY <1>0, BoundsAssumption DEF Sound
      <4>2. QED
        BY <2>6, <3>1, <4>1, TooLongBounds, DigitValRange
    <3>3. PICK r : r = [ps EXCEPT !.content_length = n] /\ Break(r, mark, data)
      BY <3>1
    <3>4. /\ IsParser(r) /\ r.content_length = n /\ r.nread = ps.nread /\ r.status = ps.status
          /\ r.errno = ps.errno /\ r.flags = ps.flags /\ r.state = ps.state /\ r.hs = ps.hs
      BY <1>0, <3>3 DEF Sound, IsParser, Fields
    <3>5. Sound(r)
      BY <1>0, <2>1, <3>2, <3>4 DEF Sound, ChunkStates, FramedStates
    <3>6. QED
      BY <1>0, <2>1, <3>3, <3>4, <3>5, BreakKeeps
  <2>7. CASE Break([ps EXCEPT !.hs = ValueNext(@, ch),
                              !.flags = IF ch = "," /\ ps.hs # "h_transfer_encoding_chunked"
                                        THEN @ \cup ValueFlag(ps.hs) ELSE @], mark, data)
    <3>1. PICK r : /\ r = [ps EXCEPT !.hs = ValueNext(@, ch),
                                     !.flags = IF ch = "," /\ ps.hs # "h_transfer_encoding_chunked"
                                               THEN @ \cup ValueFlag(ps.hs) ELSE @]
                   /\ Break(r, mark, data)
      BY <2>7
    <3>2. PICK f : f = IF ch = "," /\ ps.hs # "h_transfer_encoding_chunked" THEN ValueFlag(ps.hs) ELSE {}
      OBVIOUS
    <3>3. Recognised(r, f) /\ r.hs = ValueNext(ps.hs, ch) /\ r.state = ps.state
      <4>1. IsParser(ps) /\ r = [ps EXCEPT !.hs = ValueNext(ps.hs, ch), !.flags = ps.flags \cup f]
        BY ZenonT(40), <1>0, <3>1, <3>2 DEF Sound
      <4>2. QED
        BY <4>1 DEF IsParser, Fields, Recognised
    <3>4. "CONTENTLENGTH" \notin f /\ r.hs \notin {"h_connection", "h_transfer_encoding"}
      BY ZenonT(40), <2>1, <3>2, <3>3, ValueFacts
    <3>5. Sound(r) /\ r.errno = "HPE_OK"
      BY <1>0, <2>1, <3>3, <3>4, RecognisedSound DEF Recognised
    <3>6. QED
      BY <1>0, <2>1, <3>1, <3>3, <3>5, BreakKeeps
  <2>8. QED
    BY <1>3, <2>3, <2>4, <2>5, <2>6, <2>7 DEF s_header_value
<1>4. QED
  BY <1>2, <1>3

\* What follows a value.
LEMMA AfterValueKeeps ==
  ASSUME ParserInv, s_header_value_lws \/ s_header_value_discard_lws
  PROVE  ParserInv'
<1> DEFINE S == {"s_header_almost_done", "s_header_value_lws", "s_header_value_discard_ws_almost_done",
                 "s_header_value_discard_lws"}
           T == S \cup {"s_header_value_start", "s_header_field_start", "s_header_value_discard_ws"}
<1>0. pc = "exec" /\ Sound(ps) /\ ps.errno = "HPE_OK" /\ Marked(mark, ps.state) /\ ps.state \in S
  BY DEF ParserInv, s_header_value_lws, s_header_value_discard_lws, At
<1>1. \A k \in Kinds : ~May(k, ps.state)
  BY <1>0, NothingOpen DEF UrlStates
<1>2. \A s \in T : Plain(s) /\ s # "s_chunk_size_start" /\ Marked(mark, s)
  BY <1>0, <1>1 DEF Plain, ChunkStates, FramedStates, Marked
<1>3. ASSUME NEW r, NEW d, NEW f, Recognised(r, f), "CONTENTLENGTH" \notin f, r.state \in T, REEXECUTE(r, mark, d)
      PROVE  ParserInv'
  <2>1. Sound(r) /\ r.errno = "HPE_OK"
    BY <1>0, <1>2, <1>3, RecognisedSound DEF Recognised
  <2>2. QED
    BY <1>0, <1>2, <1>3, <2>1, ReexecuteKeeps
<1>4. ASSUME NEW d, REEXECUTE([To("s_header_field_start") EXCEPT !.flags = @ \cup ValueFlag(ps.hs)], mark, d)
      PROVE  ParserInv'
  <2>1. PICK r : /\ r = [To("s_header_field_start") EXCEPT !.flags = @ \cup ValueFlag(ps.hs)]
                 /\ REEXECUTE(r, mark, d)
    BY <1>4
  <2>2. Recognised(r, ValueFlag(ps.hs)) /\ r.state \in T
    BY ZenonT(40), <1>0, <2>1 DEF Sound, IsParser, Fields, To, Recognised
  <2>3. QED
    BY <1>3, <2>1, <2>2, ValueFacts
<1>5. CASE REEXECUTE([To("s_header_value_start") EXCEPT
                        !.hs = IF @ = "h_content_length_num" THEN "h_content_length_ws" ELSE @], mark, data)
  <2>1. PICK r : /\ r = [To("s_header_value_start") EXCEPT
                           !.hs = IF @ = "h_content_length_num" THEN "h_content_length_ws" ELSE @]
                 /\ REEXECUTE(r, mark, data)
    BY <1>5
  <2>2. Recognised(r, {}) /\ r.state \in T
    <3>1. IsParser(ps)
      BY <1>0 DEF Sound
    <3>2. QED
      BY <2>1, <3>1 DEF IsParser, Fields, To, Recognised
  <2>3. QED
    BY <1>3, <2>1, <2>2
<1>6. CASE s_header_value_lws
  <2>1. CASE Expect("LF", "s_header_value_lws", "HPE_LF_EXPECTED")
    BY <1>0, <1>1, <1>2, <2>1, ExpectKeeps
  <2>2. QED
    BY <1>4, <1>5, <1>6, <2>1 DEF s_header_value_lws
<1>7. CASE s_header_value_discard_lws
  <2>1. CASE Expect("LF", "s_header_value_discard_lws", "HPE_STRICT")
    BY <1>0, <1>1, <1>2, <2>1, ExpectKeeps
  <2>2. CASE Goto("s_header_value_discard_ws")
    BY <1>0, <1>1, <1>2, <2>2, GotoKeeps
  <2>3. CASE Fail("HPE_INVALID_CONTENT_LENGTH")
    BY <1>0, <2>3, FailKeeps
  <2>4. QED
    BY <1>4, <1>7, <2>1, <2>2, <2>3 DEF s_header_value_discard_lws
<1>8. QED
  BY <1>6, <1>7

-----------------------------------------------------------------------------
(* The end of the headers, and the body.                                   *)

\* The states after a message.
LEMMA NewMessageSound ==
  ASSUME NEW p, Sound(p)
  PROVE  /\ Sound(NewMessage(p)) /\ NewMessage(p).errno = p.errno
         /\ NewMessage(p).state \in {"s_start_req", "s_start_res", "s_dead"}
<1>1. PICK s : s = IF http_should_keep_alive(p) THEN http_parser_init(p.type).state ELSE "s_dead"
  OBVIOUS
<1>2. s \in {"s_start_req", "s_start_res", "s_dead"}
  BY <1>1 DEF http_parser_init
<1>3. PICK r : r = [p EXCEPT !.state = s]
  OBVIOUS
<1>4. Same(r, p) /\ r.state = s
  BY <1>3 DEF Sound, IsParser, Fields, Same
<1>5. Sound(r)
  BY <1>2, <1>4, SameSound DEF Plain, ChunkStates, FramedStates
<1>6. NewMessage(p) = r
  BY <1>1, <1>3 DEF NewMessage
<1>7. QED
  BY <1>2, <1>4, <1>5, <1>6 DEF Same

\* A message is complete.
LEMMA CompleteKeeps ==
  ASSUME ParserInv, pc = "exec", NEW p, Sound(p), p.errno = "HPE_OK", NEW d, NEW m, \A s : Marked(m, s),
         Break(NewMessage(p), m, d) \/ RETURN(NewMessage(p), d)
  PROVE  ParserInv'
BY NewMessageSound, BreakKeeps, ReturnKeeps

\* The end of the headers.
LEMMA HeadersEndKeeps ==
  ASSUME ParserInv, s_headers_almost_done \/ s_headers_done
  PROVE  ParserInv'
<1>0. /\ pc = "exec" /\ Sound(ps) /\ ps.errno = "HPE_OK" /\ Marked(mark, ps.state)
      /\ ps.state \in {"s_headers_almost_done", "s_headers_done"}
  BY DEF ParserInv, s_headers_almost_done, s_headers_done, At
<1>1. \A s : Marked(mark, s)
  BY <1>0, NothingOpen DEF Marked, UrlStates
<1>2. CASE s_headers_almost_done
  <2>1. CASE Fail("HPE_STRICT") \/ Fail("HPE_UNEXPECTED_CONTENT_LENGTH")
    BY <1>0, <2>1, FailKeeps
  <2>2. CASE REEXECUTE(To("s_message_done"), mark, data)
    <3>1. Plain("s_message_done")
      BY DEF Plain, ChunkStates, FramedStates
    <3>2. QED
      BY <1>0, <1>1, <2>2, <3>1, ToPlain, ReexecuteKeeps
  <2>3. ASSUME NEW u, NEW d, ~FramedTwice(ps.flags), REEXECUTE([To("s_headers_done") EXCEPT !.upgrade = u], mark, d)
        PROVE  ParserInv'
    <3>1. PICK r : r = [To("s_headers_done") EXCEPT !.upgrade = u] /\ REEXECUTE(r, mark, d)
      BY <2>3
    <3>2. Same(r, ps) /\ r.state = "s_headers_done"
      BY ZenonT(40), <1>0, <3>1 DEF Sound, IsParser, Fields, To, Same
    <3>3. Sound(r) /\ r.errno = "HPE_OK"
      BY <1>0, <2>3, <3>2 DEF Sound, Same, ChunkStates, FramedStates, FramedTwice
    <3>4. QED
      BY <1>0, <1>1, <3>1, <3>2, <3>3, ReexecuteKeeps
  <2>4. QED
    BY <1>2, <2>1, <2>2, <2>3 DEF s_headers_almost_done
<1>3. CASE s_headers_done
  <2>0. ps.state = "s_headers_done"
    BY <1>3 DEF s_headers_done, At
  <2>1. PICK p : p = HeadersRead
    OBVIOUS
  <2>2. /\ IsParser(p) /\ p.content_length = ps.content_length /\ p.nread = 0 /\ p.status = ps.status
        /\ p.errno = ps.errno /\ p.flags = ps.flags /\ p.state = ps.state
    BY <1>0, <2>1 DEF HeadersRead, Sound, IsParser, Fields
  <2>3. Sound(p)
    BY <1>0, <2>2, BoundsAssumption DEF Sound, ChunkStates, FramedStates
  <2>4. ASSUME NEW s, s \in {"s_chunk_size_start", "s_body_identity", "s_body_identity_eof"},
               s = "s_chunk_size_start" => "CHUNKED" \in ps.flags,
               s = "s_body_identity" => ps.content_length \notin {0, LenMax},
               Break([p EXCEPT !.state = s], mark, data)
        PROVE  ParserInv'
    <3>1. PICK r : r = [p EXCEPT !.state = s] /\ Break(r, mark, data)
      BY <2>4
    <3>2. /\ IsParser(r) /\ r.content_length = ps.content_length /\ r.nread = 0 /\ r.status = ps.status
          /\ r.errno = ps.errno /\ r.flags = ps.flags /\ r.state = s
      BY <2>2, <3>1 DEF IsParser, Fields
    <3>3. /\ ps.content_length \in 0 .. LenMax /\ ps.status \in 0 .. 999
          /\ ~("CHUNKED" \in ps.flags /\ "CONTENTLENGTH" \in ps.flags)
          /\ "CONTENTLENGTH" \in ps.flags => ps.content_length < LenMax
      BY <1>0, <2>0 DEF Sound, FramedStates
    <3>4. s \notin {"s_chunk_data", "s_chunk_data_almost_done", "s_header_value"}
          /\ s \notin ChunkStates \ {"s_chunk_size_start"}
      BY <2>4 DEF ChunkStates
    <3>5. Sound(r)
      BY <2>4, <3>2, <3>3, <3>4, BoundsAssumption DEF Sound
    <3>6. QED
      BY <1>0, <1>1, <3>1, <3>2, <3>5, BreakKeeps
  <2>5. CASE RETURN(NewMessage(p), Complete(data)) \/ Break(NewMessage(p), mark, Complete(data))
    BY <1>0, <1>1, <2>2, <2>3, <2>5, CompleteKeeps
  <2>6. CASE "CHUNKED" \in ps.flags /\ Break([p EXCEPT !.state = "s_chunk_size_start"], mark, data)
    BY <2>4, <2>6
  <2>7. CASE "CHUNKED" \notin ps.flags /\ HasBody(ps) /\ Break([p EXCEPT !.state = "s_body_identity"], mark, data)
    <3>1. ps.content_length \notin {0, LenMax}
      BY <1>0, <2>7 DEF HasBody, Sound
    <3>2. QED
      BY <2>4, <2>7, <3>1
  <2>8. CASE Break([p EXCEPT !.state = "s_body_identity_eof"], mark, data)
    BY <2>4, <2>8
  <2>9. QED
    BY <1>3, <2>1, <2>5, <2>6, <2>7, <2>8 DEF s_headers_done
<1>4. QED
  BY <1>2, <1>3

\* A body that is not chunked.
LEMMA BodyKeeps ==
  ASSUME ParserInv, s_body_identity \/ s_body_identity_eof \/ s_message_done
  PROVE  ParserInv'
<1>0. /\ pc = "exec" /\ Sound(ps) /\ ps.errno = "HPE_OK" /\ Marked(mark, ps.state)
  BY DEF ParserInv, s_body_identity, s_body_identity_eof, s_message_done, At
<1>1. CASE s_body_identity
  <2>1. ps.state = "s_body_identity" /\ "body" \in Kinds /\ May("body", ps.state)
    BY <1>1 DEF s_body_identity, At, Kinds, May
  <2>2. Marked(MARK("body", mark), ps.state)
    BY <1>0, <2>1, MarkMarked
  <2>3. PICK left : left = ps.content_length - 1
    OBVIOUS
  <2>4. left \in 0 .. LenMax /\ left < LenMax
    BY <1>0, <2>1, <2>3, BoundsAssumption DEF Sound
  <2>5. CASE left > 0 /\ Break([ps EXCEPT !.content_length = left], MARK("body", mark), data)
    <3>1. PICK r : r = [ps EXCEPT !.content_length = left] /\ Break(r, MARK("body", mark), data)
      BY <2>5
    <3>2. /\ IsParser(r) /\ r.content_length = left /\ r.nread = ps.nread /\ r.status = ps.status
          /\ r.errno = ps.errno /\ r.flags = ps.flags /\ r.state = ps.state
      BY <1>0, <3>1 DEF Sound, IsParser, Fields
    <3>3. Sound(r)
      BY <1>0, <2>1, <2>4, <2>5, <3>2, BoundsAssumption DEF Sound, ChunkStates, FramedStates
    <3>4. QED
      BY <1>0, <2>1, <2>2, <3>1, <3>2, <3>3, BreakKeeps
  <2>6. ASSUME NEW d, REEXECUTE([To("s_message_done") EXCEPT !.content_length = 0],
                                [MARK("body", mark) EXCEPT !["body"] = NoMark], d)
        PROVE  ParserInv'
    <3>1. PICK r : /\ r = [To("s_message_done") EXCEPT !.content_length = 0]
                   /\ REEXECUTE(r, [MARK("body", mark) EXCEPT !["body"] = NoMark], d)
      BY <2>6
    <3>2. /\ IsParser(r) /\ r.content_length = 0 /\ r.nread = ps.nread /\ r.status = ps.status
          /\ r.errno = ps.errno /\ r.flags = ps.flags /\ r.state = "s_message_done"
      BY ZenonT(40), <1>0, <3>1 DEF Sound, IsParser, Fields, To
    <3>3. Sound(r)
      BY <1>0, <3>2, BoundsAssumption DEF Sound, ChunkStates, FramedStates
    <3>4. Marked([MARK("body", mark) EXCEPT !["body"] = NoMark], r.state)
      BY <2>1, <2>2, UnmarkMarked
    <3>5. QED
      BY <1>0, <3>1, <3>2, <3>3, <3>4, ReexecuteKeeps
  <2>7. QED
    BY <1>1, <2>3, <2>5, <2>6 DEF s_body_identity
<1>2. CASE s_body_identity_eof
  <2>1. ps.state = "s_body_identity_eof" /\ "body" \in Kinds /\ May("body", ps.state)
    BY <1>2 DEF s_body_identity_eof, At, Kinds, May
  <2>2. Marked(MARK("body", mark), ps.state)
    BY <1>0, <2>1, MarkMarked
  <2>3. QED
    BY <1>0, <1>2, <2>1, <2>2, BreakKeeps DEF s_body_identity_eof
<1>3. CASE s_message_done
  <2>1. \A s : Marked(mark, s)
    BY <1>0, <1>3, NothingOpen DEF s_message_done, At, Marked, UrlStates
  <2>2. QED
    BY <1>0, <1>3, <2>1, CompleteKeeps DEF s_message_done
<1>4. QED
  BY <1>1, <1>2, <1>3

\* From one state of a chunked body to the next, with a length that fits it.
LEMMA ChunkSound ==
  ASSUME Sound(ps), ps.state \in ChunkStates, NEW r, IsParser(r), r.flags = ps.flags, r.status = ps.status,
         r.errno = ps.errno, r.nread = ps.nread \/ r.nread = 0, r.state \in ChunkStates,
         r.content_length \in 0 .. LenMax, r.content_length < LenMax,
         r.state = "s_chunk_data" => r.content_length # 0,
         r.state = "s_chunk_data_almost_done" => r.content_length = 0
  PROVE  Sound(r)
BY BoundsAssumption DEF Sound, ChunkStates, FramedStates

\* A hexadecimal digit.
LEMMA UnhexRange == \A c : unhex(c) \in 0 .. 10
BY DigitValRange DEF unhex

\* The size of a chunk.
LEMMA ChunkSizeKeeps ==
  ASSUME ParserInv, s_chunk_size
  PROVE  ParserInv'
<1> DEFINE S == {"s_chunk_size_start", "s_chunk_size", "s_chunk_parameters"}
<1>0. /\ pc = "exec" /\ Sound(ps) /\ ps.errno = "HPE_OK" /\ Marked(mark, ps.state) /\ ps.state \in S
      /\ ps.state \in ChunkStates
  BY ZenonT(40) DEF ParserInv, s_chunk_size, At, ChunkStates, FramedStates
<1>1. \A s : Marked(mark, s)
  BY <1>0, NothingOpen DEF Marked, UrlStates
<1>2. ps.state # "s_chunk_size_start" => ps.content_length \in 0 .. LenMax /\ ps.content_length < LenMax
  BY <1>0 DEF Sound
<1>3. ASSUME NEW s, s \in {"s_chunk_parameters", "s_chunk_size_almost_done"}, ps.state # "s_chunk_size_start", Goto(s)
      PROVE  ParserInv'
  <2>1. PICK r : r = To(s) /\ Break(r, mark, data)
    BY <1>3 DEF Goto
  <2>2. Same(r, ps) /\ r.state = s
    BY <1>0, <2>1 DEF Sound, IsParser, Fields, To, Same
  <2>3. Sound(r)
    BY <1>0, <1>2, <1>3, <2>2, ChunkSound DEF Same, ChunkStates, FramedStates
  <2>4. QED
    BY <1>0, <1>1, <1>3, <2>1, <2>2, <2>3, BreakKeeps DEF Same
<1>4. ASSUME NEW n \in 0 .. LenMax, n < LenMax, NEW r, IsParser(r), r.flags = ps.flags, r.status = ps.status,
             r.errno = ps.errno, r.nread = ps.nread, r.state = "s_chunk_size", r.content_length = n,
             Break(r, mark, data)
      PROVE  ParserInv'
  <2>1. Sound(r)
    BY <1>0, <1>4, ChunkSound DEF ChunkStates, FramedStates
  <2>2. QED
    BY <1>0, <1>1, <1>4, <2>1, BreakKeeps
<1>5. CASE At({"s_chunk_size_start"})
  <2>1. CASE Break([To("s_chunk_size") EXCEPT !.content_length = unhex(ch)], mark, data)
    <3>1. PICK n : n = unhex(ch)
      OBVIOUS
    <3>2. n \in 0 .. LenMax /\ n < LenMax
      BY <3>1, UnhexRange, BoundsAssumption
    <3>3. PICK r : r = [To("s_chunk_size") EXCEPT !.content_length = n] /\ Break(r, mark, data)
      BY <2>1, <3>1
    <3>4. /\ IsParser(r) /\ r.flags = ps.flags /\ r.status = ps.status /\ r.errno = ps.errno
          /\ r.nread = ps.nread /\ r.state = "s_chunk_size" /\ r.content_length = n
      BY ZenonT(40), <1>0, <3>3 DEF Sound, IsParser, Fields, To
    <3>5. QED
      BY <1>4, <3>2, <3>3, <3>4
  <2>2. CASE Fail("HPE_INVALID_CHUNK_SIZE")
    BY <1>0, <2>2, FailKeeps
  <2>3. QED
    BY ZenonT(40), <1>5, <2>1, <2>2 DEF s_chunk_size, At
<1>6. CASE At({"s_chunk_size"})
  <2>0. ps.state = "s_chunk_size"
    BY <1>6 DEF At
  <2>1. CASE Goto("s_chunk_size_almost_done") \/ Goto("s_chunk_parameters")
    BY <1>3, <2>0, <2>1
  <2>2. CASE Fail("HPE_INVALID_CONTENT_LENGTH") \/ Fail("HPE_INVALID_CHUNK_SIZE")
    BY <1>0, <2>2, FailKeeps
  <2>3. CASE /\ ~TooLong(ps.content_length, 16)
             /\ Break([ps EXCEPT !.content_length = @ * 16 + unhex(ch)], mark, data)
    <3>1. PICK n : n = ps.content_length * 16 + unhex(ch)
      OBVIOUS
    <3>2. n \in 0 .. LenMax /\ n < LenMax
      <4>1. ps.content_length \in Nat
        BY <1>0, BoundsAssumption DEF Sound
      <4>2. QED
        BY <2>3, <3>1, <4>1, TooLongBounds, UnhexRange
    <3>3. PICK r : r = [ps EXCEPT !.content_length = n] /\ Break(r, mark, data)
      BY <2>3, <3>1
    <3>4. /\ IsParser(r) /\ r.flags = ps.flags /\ r.status = ps.status /\ r.errno = ps.errno
          /\ r.nread = ps.nread /\ r.state = "s_chunk_size" /\ r.content_length = n
      BY <1>0, <2>0, <3>3 DEF Sound, IsParser, Fields
    <3>5. QED
      BY <1>4, <3>2, <3>3, <3>4
  <2>4. QED
    BY ZenonT(40), <1>6, <2>0, <2>1, <2>2, <2>3 DEF s_chunk_size, At
<1>7. CASE At({"s_chunk_parameters"})
  <2>0. ps.state = "s_chunk_parameters"
    BY <1>7 DEF At
  <2>1. Goto("s_chunk_size_almost_done") \/ Stay
    BY <1>7, <2>0 DEF s_chunk_size, At
  <2>2. QED
    BY <1>0, <1>3, <2>0, <2>1, StayKeeps
<1>8. QED
  BY ZenonT(40), <1>5, <1>6, <1>7 DEF s_chunk_size

\* The data of a chunk.
LEMMA ChunkDataKeeps ==
  ASSUME ParserInv, s_chunk_size_almost_done \/ s_chunk_data
  PROVE  ParserInv'
<1>0. /\ pc = "exec" /\ Sound(ps) /\ ps.errno = "HPE_OK" /\ Marked(mark, ps.state) /\ ps.state \in ChunkStates
      /\ ps.state # "s_chunk_size_start" /\ ps.content_length \in 0 .. LenMax /\ ps.content_length < LenMax
  BY DEF ParserInv, s_chunk_size_almost_done, s_chunk_data, At, ChunkStates, FramedStates, Sound
<1>1. CASE Fail("HPE_STRICT")
  BY <1>0, <1>1, FailKeeps
<1>2. CASE s_chunk_size_almost_done /\ ~Fail("HPE_STRICT")
  <2>1. \A s : Marked(mark, s)
    BY <1>0, <1>2, NothingOpen DEF s_chunk_size_almost_done, At, Marked, UrlStates
  <2>2. CASE /\ ps.content_length = 0
             /\ Break([To("s_header_field_start") EXCEPT !.nread = 0, !.flags = @ \cup {"TRAILING"}], mark, data)
    <3>1. PICK r : /\ r = [To("s_header_field_start") EXCEPT !.nread = 0, !.flags = @ \cup {"TRAILING"}]
                   /\ Break(r, mark, data)
      BY <2>2
    <3>2. /\ IsParser(r) /\ r.content_length = ps.content_length /\ r.nread = 0 /\ r.status = ps.status
          /\ r.errno = ps.errno /\ r.flags = ps.flags \cup {"TRAILING"} /\ r.state = "s_header_field_start"
      BY ZenonT(40), <1>0, <3>1 DEF Sound, IsParser, Fields, To
    <3>3. Sound(r)
      BY <1>0, <3>2, BoundsAssumption DEF Sound, ChunkStates, FramedStates
    <3>4. QED
      BY <1>0, <2>1, <3>1, <3>2, <3>3, BreakKeeps
  <2>3. CASE ps.content_length # 0 /\ Break([To("s_chunk_data") EXCEPT !.nread = 0], mark, data)
    <3>1. PICK r : r = [To("s_chunk_data") EXCEPT !.nread = 0] /\ Break(r, mark, data)
      BY <2>3
    <3>2. /\ IsParser(r) /\ r.content_length = ps.content_length /\ r.nread = 0 /\ r.status = ps.status
          /\ r.errno = ps.errno /\ r.flags = ps.flags /\ r.state = "s_chunk_data"
      BY ZenonT(40), <1>0, <3>1 DEF Sound, IsParser, Fields, To
    <3>3. Sound(r)
      BY <1>0, <2>3, <3>2, ChunkSound DEF ChunkStates, FramedStates
    <3>4. QED
      BY <1>0, <2>1, <3>1, <3>2, <3>3, BreakKeeps
  <2>4. QED
    BY <1>2, <2>2, <2>3 DEF s_chunk_size_almost_done
<1>3. CASE At({"s_chunk_data"}) /\ s_chunk_data
  <2>1. ps.state = "s_chunk_data" /\ "body" \in Kinds /\ ps.content_length # 0
    BY <1>0, <1>3 DEF At, Kinds, Sound
  <2>2. PICK left : left = ps.content_length - 1
    OBVIOUS
  <2>3. left \in 0 .. LenMax /\ left < LenMax
    BY <1>0, <2>1, <2>2, BoundsAssumption
  <2>4. PICK r : /\ r = [ps EXCEPT !.content_length = left,
                                   !.state = IF left = 0 THEN "s_chunk_data_almost_done" ELSE @]
                 /\ Break(r, MARK("body", mark), data)
    BY <1>3, <2>1, <2>2 DEF s_chunk_data, At
  <2>5. /\ IsParser(r) /\ r.content_length = left /\ r.nread = ps.nread /\ r.status = ps.status
        /\ r.errno = ps.errno /\ r.flags = ps.flags
        /\ r.state = IF left = 0 THEN "s_chunk_data_almost_done" ELSE "s_chunk_data"
    <3>1. IsParser(ps)
      BY <1>0 DEF Sound
    <3>2. QED
      BY <2>1, <2>4, <3>1 DEF IsParser, Fields
  <2>6. Sound(r)
    BY <1>0, <2>3, <2>5, ChunkSound DEF ChunkStates, FramedStates
  <2>7. May("body", r.state) /\ \A j \in Kinds : May(j, ps.state) => May(j, r.state)
    BY <2>1, <2>5 DEF May, UrlStates
  <2>8. Marked(MARK("body", mark), r.state)
    BY <1>0, <2>1, <2>7, MarkMarked
  <2>9. r.state # "s_chunk_size_start" /\ r.errno = "HPE_OK"
    BY <1>0, <2>5
  <2>10. QED
    BY <1>0, <2>4, <2>6, <2>8, <2>9, BreakKeeps
<1>4. CASE At({"s_chunk_data_almost_done"}) /\ s_chunk_data /\ ~Fail("HPE_STRICT")
  <2>1. /\ ps.state = "s_chunk_data_almost_done" /\ "body" \in Kinds /\ May("body", ps.state)
        /\ CALLBACK_DATA("body", To("s_chunk_data_done"), Break)
    BY <1>4 DEF s_chunk_data, At, Kinds, May
  <2>2. PICK r : r = To("s_chunk_data_done") /\ Break(r, [mark EXCEPT !["body"] = NoMark],
                                                      OnData("body", mark["body"], data))
    BY <2>1 DEF CALLBACK_DATA
  <2>3. Same(r, ps) /\ r.state = "s_chunk_data_done"
    BY <1>0, <2>2 DEF Sound, IsParser, Fields, To, Same
  <2>4. Sound(r)
    BY <1>0, <2>3, ChunkSound DEF Same, ChunkStates, FramedStates
  <2>5. Marked([mark EXCEPT !["body"] = NoMark], r.state)
    BY <1>0, <2>1, UnmarkMarked
  <2>6. QED
    BY <1>0, <2>2, <2>3, <2>4, <2>5, BreakKeeps DEF Same
<1>5. CASE At({"s_chunk_data_done"}) /\ s_chunk_data /\ ~Fail("HPE_STRICT")
  <2>1. ps.state = "s_chunk_data_done"
    BY <1>5 DEF At
  <2>2. PICK r : r = [To("s_chunk_size_start") EXCEPT !.nread = 0] /\ Break(r, mark, data)
    BY <1>5, <2>1 DEF s_chunk_data, At
  <2>3. /\ IsParser(r) /\ r.content_length = ps.content_length /\ r.nread = 0 /\ r.status = ps.status
        /\ r.errno = ps.errno /\ r.flags = ps.flags /\ r.state = "s_chunk_size_start"
    BY ZenonT(40), <1>0, <2>2 DEF Sound, IsParser, Fields, To
  <2>4. Sound(r)
    BY <1>0, <2>3, ChunkSound DEF ChunkStates, FramedStates
  <2>5. Marked(mark, r.state)
    BY <1>0, <2>1, NothingOpen DEF Marked, UrlStates
  <2>6. QED
    BY <1>0, <2>2, <2>3, <2>4, <2>5, BreakKeeps
<1>6. QED
  BY <1>1, <1>2, <1>3, <1>4, <1>5 DEF s_chunk_data

-----------------------------------------------------------------------------
(* The loop around the machine.                                            *)

\* The head of the loop.
LEMMA NextByteKeeps ==
  ASSUME ParserInv, NextByte
  PROVE  ParserInv'
<1>0. /\ pc = "exec" /\ ch = NoChar /\ Sound(ps) /\ ps.errno = "HPE_OK" /\ Marked(mark, ps.state)
      /\ buf \in Seq(Units) /\ buf # <<>> /\ ps.nread \in 0 .. HeaderMax
  BY BoundsAssumption DEF ParserInv, NextByte, Sound
<1>1. PICK n : n = IF PARSING_HEADER(ps.state) THEN ps.nread + 1 ELSE ps.nread
  OBVIOUS
<1>2. n \in 0 .. HeaderMax + 1
  BY <1>0, <1>1, BoundsAssumption
<1>3. CASE RETURN([ps EXCEPT !.nread = n, !.errno = "HPE_HEADER_OVERFLOW"], data)
  <2>1. PICK r : r = [ps EXCEPT !.nread = n, !.errno = "HPE_HEADER_OVERFLOW"] /\ RETURN(r, data)
    BY <1>3
  <2>2. /\ IsParser(r) /\ r.content_length = ps.content_length /\ r.nread = n /\ r.status = ps.status
        /\ r.errno = "HPE_HEADER_OVERFLOW" /\ r.flags = ps.flags /\ r.state = ps.state /\ r.hs = ps.hs
    BY ZenonT(40), <1>0, <2>1 DEF Sound, IsParser, Fields
  <2>3. Sound(r)
    BY <1>0, <1>2, <2>2 DEF Sound, ChunkStates, FramedStates
  <2>4. QED
    BY <1>0, <2>1, <2>2, <2>3, ReturnKeeps
<1>4. CASE /\ n <= HeaderMax \/ ~PARSING_HEADER(ps.state)
           /\ ps' = [ps EXCEPT !.nread = n] /\ ch' = Head(buf) /\ buf' = Tail(buf)
           /\ UNCHANGED <<mark, data, pc>>
  <2>1. PICK r : r = [ps EXCEPT !.nread = n] /\ ps' = r
    BY <1>4
  <2>2. /\ IsParser(r) /\ r.content_length = ps.content_length /\ r.nread = n /\ r.status = ps.status
        /\ r.errno = ps.errno /\ r.flags = ps.flags /\ r.state = ps.state /\ r.hs = ps.hs
    BY SMTT(40), <1>0, <2>1 DEF Sound, IsParser, Fields
  <2>3. n <= HeaderMax
    BY <1>0, <1>1, <1>4
  <2>4. Sound(r)
    BY <1>0, <1>2, <2>2, <2>3 DEF Sound, ChunkStates, FramedStates
  <2>5. Head(buf) \in Units /\ Tail(buf) \in Seq(Units)
    BY <1>0, HeadTailProperties
  <2>6. Head(buf) # NoChar /\ Head(buf) \in Chars
    BY <2>5, ScriptsAssumption DEF Chars
  <2>7. ps.state = "s_chunk_size_start" => n = 1
    BY <1>0, <1>1 DEF ParserInv, PARSING_HEADER
  <2>8. Marked(mark, r.state) /\ mark' = mark /\ pc' = pc
    BY <1>0, <1>4, <2>2
  <2>9. QED
    BY <1>0, <1>4, <2>1, <2>2, <2>4, <2>5, <2>6, <2>7, <2>8 DEF ParserInv
<1>5. QED
  BY <1>1, <1>3, <1>4 DEF NextByte

\* After the loop.
LEMMA BufferEndKeeps ==
  ASSUME ParserInv, BufferEnd
  PROVE  ParserInv'
<1>0. /\ pc = "exec" /\ ch = NoChar /\ Sound(ps) /\ ps.errno = "HPE_OK"
      /\ (ps.state = "s_chunk_size_start" => ps.nread = 0)
  BY DEF ParserInv, BufferEnd
<1>1. ASSUME NEW d, RETURN(ps, d) PROVE ParserInv'
  BY <1>0, <1>1, ReturnKeeps
<1>2. CASE RETURN([ps EXCEPT !.errno = "HPE_CB_url"], data)
  BY <1>0, <1>2, FailKeeps DEF Fail
<1>3. QED
  BY <1>1, <1>2 DEF BufferEnd

\* Every step of the parser.
LEMMA ParserStepKeeps ==
  ASSUME ParserInv, ParserStep
  PROVE  ParserInv'
BY NextByteKeeps, BufferEndKeeps, MethodKeeps, TargetKeeps, VersionKeeps, StatusKeeps, NameKeeps, ValueKeeps,
   AfterValueKeeps, HeadersEndKeeps, BodyKeeps, ChunkSizeKeeps, ChunkDataKeeps DEF ParserStep

-----------------------------------------------------------------------------
(* The session.                                                            *)

\* A new parser.
LEMMA InitSound ==
  ASSUME NEW t
  PROVE  /\ Sound(http_parser_init(t)) /\ http_parser_init(t).errno = "HPE_OK"
         /\ http_parser_init(t).state \in {"s_start_req", "s_start_res"}
<1>1. PICK r : r = http_parser_init(t)
  OBVIOUS
<1>2. /\ IsParser(r) /\ r.content_length = 0 /\ r.nread = 0 /\ r.status = 0 /\ r.errno = "HPE_OK" /\ r.flags = {}
      /\ r.state \in {"s_start_req", "s_start_res"}
  BY <1>1 DEF http_parser_init, IsParser, Fields
<1>3. Sound(r)
  BY <1>2, BoundsAssumption DEF Sound, ChunkStates, FramedStates
<1>4. QED
  BY <1>1, <1>2, <1>3

\* A call of execute begins.
LEMMA EnterKeeps ==
  ASSUME ParserInv, NEW units \in Seq(Units), Enter(units)
  PROVE  ParserInv'
<1>1. ASSUME NEW k \in Kinds, May(k, ps.state) PROVE Marked(MARK(k, NoMarks), ps.state)
  BY <1>1, NoMarksMarked, MarkMarked
<1>2. Marked(mark', ps.state)
  <2>1. CASE ps.state = "s_header_field"
    <3>1. "header_field" \in Kinds /\ May("header_field", ps.state)
      BY <2>1 DEF Kinds, May
    <3>2. QED
      BY <1>1, <2>1, <3>1 DEF Enter, UrlStates
  <2>2. CASE ps.state = "s_header_value"
    <3>1. "header_value" \in Kinds /\ May("header_value", ps.state)
      BY <2>2 DEF Kinds, May
    <3>2. QED
      BY <1>1, <2>2, <3>1 DEF Enter, UrlStates
  <2>3. CASE ps.state \in UrlStates
    <3>1. "url" \in Kinds /\ May("url", ps.state)
      BY <2>3 DEF Kinds, May
    <3>2. ps.state \notin {"s_header_field", "s_header_value", "s_res_status"}
      BY <2>3 DEF UrlStates
    <3>3. QED
      BY <1>1, <2>3, <3>1, <3>2 DEF Enter
  <2>4. CASE ps.state = "s_res_status"
    <3>1. "status" \in Kinds /\ May("status", ps.state)
      BY <2>4 DEF Kinds, May
    <3>2. QED
      BY <1>1, <2>4, <3>1 DEF Enter, UrlStates
  <2>5. CASE ps.state \notin UrlStates \cup {"s_header_field", "s_header_value", "s_res_status"}
    BY <2>5, NoMarksMarked DEF Enter
  <2>6. QED
    BY <2>1, <2>2, <2>3, <2>4, <2>5
<1>3. NoChar \in Chars
  BY DEF Chars
<1>4. QED
  BY <1>2, <1>3 DEF ParserInv, Enter

\* The parts of the parser's invariant that the session can disturb.
LEMMA CallerKeeps ==
  ASSUME ParserInv, UNCHANGED <<ps, ch, buf, mark>>, pc # "exec",
         pc' \in {"recv", "return", "handle", "closed"}, pc' \in {"recv", "handle"} => ps.errno = "HPE_OK"
  PROVE  ParserInv'
BY DEF ParserInv

\* Initially.
LEMMA InitInv == Init => SessionInv
<1> SUFFICES ASSUME Init PROVE SessionInv
  OBVIOUS
<1>1. PeerInv
  BY ScriptsAssumption DEF Init, PeerInv
<1>2. <<>> \in Seq(Units) /\ NoChar \in Chars
  BY DEF Chars
<1>3. ParserInv
  BY <1>2, InitSound, NoMarksMarked DEF Init, ParserInv
<1>4. QED
  BY <1>1, <1>3 DEF SessionInv

\* Every step.
LEMMA NextInv == SessionInv /\ [Next]_vars => SessionInv'
<1> SUFFICES ASSUME SessionInv, [Next]_vars PROVE SessionInv'
  OBVIOUS
<1> USE DEF SessionInv
<1>1. CASE PeerSend
  <2>1. PeerInv'
    BY <1>1 DEF PeerSend, PeerInv
  <2>2. ParserInv'
    BY <1>1, CallerKeeps DEF PeerSend, ParserInv
  <2>3. QED
    BY <2>1, <2>2
<1>2. ASSUME NEW keep \in BOOLEAN, PeerClose(keep) PROVE SessionInv'
  <2>1. PeerInv'
    BY <1>2 DEF PeerClose, PeerInv
  <2>2. ParserInv'
    BY <1>2, CallerKeeps DEF PeerClose, ParserInv
  <2>3. QED
    BY <2>1, <2>2
<1>3. ASSUME NEW n \in 1 .. BufferSize, Recv(n) PROVE SessionInv'
  <2>1. wire \in Seq(Units) /\ n \in 1 .. Len(wire)
    BY <1>3 DEF Recv, PeerInv
  <2>2. SubSeq(wire, 1, n) \in Seq(Units) /\ SubSeq(wire, n + 1, Len(wire)) \in Seq(Units)
    BY <2>1, SubSeqProperties
  <2>3. PeerInv'
    BY <1>3, <2>2 DEF Recv, PeerInv
  <2>4. ParserInv'
    BY <1>3, <2>2, EnterKeeps DEF Recv
  <2>5. QED
    BY <2>3, <2>4
<1>4. CASE RecvFails
  <2>1. PeerInv'
    BY <1>4 DEF RecvFails, PeerInv, peerVars
  <2>2. ParserInv'
    BY <1>4, CallerKeeps DEF RecvFails, ParserInv
  <2>3. QED
    BY <2>1, <2>2
<1>5. CASE AfterExecute
  <2>1. PeerInv'
    BY <1>5 DEF AfterExecute, PeerInv
  <2>2. ParserInv'
    BY <1>5, CallerKeeps DEF AfterExecute, ParserInv, hasError
  <2>3. QED
    BY <2>1, <2>2
<1>6. CASE Handle
  <2>1. PeerInv'
    BY <1>6 DEF Handle, PeerInv, peerVars
  <2>2. ParserInv'
    BY <1>6, InitSound, NoMarksMarked DEF Handle, ParserInv
  <2>3. QED
    BY <2>1, <2>2
<1>7. CASE ParserRuns
  BY <1>7, ParserStepKeeps DEF ParserRuns, PeerInv, peerVars
<1>8. CASE Done \/ UNCHANGED vars
  BY <1>8 DEF Done, vars, peerVars, ParserInv, PeerInv
<1>9. QED
  BY <1>1, <1>2, <1>3, <1>4, <1>5, <1>6, <1>7, <1>8 DEF Next, Peer, Server

\* The invariant says that the assertions hold.
LEMMA InvAssertions == SessionInv => ParserAssertions
<1> SUFFICES ASSUME SessionInv PROVE ParserAssertions
  OBVIOUS
<1>1. TypeOK
  BY DEF SessionInv, ParserInv, Sound, TypeOK, Marked, Chars
<1>2. Cardinality(Open) <= 1
  <2>1. \A j, k \in Open : j = k
    BY DEF SessionInv, ParserInv, Marked, Open, May, UrlStates
  <2>2. CASE Open = {}
    BY <2>2, FS_EmptySet
  <2>3. CASE Open # {}
    <3>1. PICK k : Open = {k}
      BY <2>1, <2>3
    <3>2. QED
      BY <3>1, FS_Singleton
  <2>4. QED
    BY <2>2, <2>3
<1>3. QED
  BY <1>1, <1>2 DEF SessionInv, ParserInv, Sound, ParserAssertions, At, ChunkStates, FramedStates

\* The assertions of http_parser_execute hold whenever they are evaluated, its counters stay in their
\* range, and no length becomes the value for "no length" or wraps -- whatever a peer sends, in
\* whatever reads it arrives, with whatever limits.
THEOREM ParserIsSafe == Spec => []ParserAssertions
<1>1. Init => SessionInv
  BY InitInv
<1>2. SessionInv /\ [Next]_vars => SessionInv'
  BY NextInv
<1>3. SessionInv => ParserAssertions
  BY InvAssertions
<1>4. QED
  BY <1>1, <1>2, <1>3, PTL DEF Spec
=============================================================================
