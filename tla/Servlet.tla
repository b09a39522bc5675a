------------------------------ MODULE Servlet ------------------------------
(***************************************************************************)
(* gxh::http::ServletDispatch (http/servlet.cc): exact paths, then glob    *)
(* patterns in the order of their registration, then the default.  Every   *)
(* operation holds m_mutex, so it is one operator on the table.            *)
(***************************************************************************)
EXTENDS Naturals, Sequences, SequencesExt, FiniteSetsExt

\* A new dispatcher: nothing registered, NotFoundServlet by default.
ServletDispatch == [datas |-> <<>>, globs |-> <<>>, default |-> "NotFoundServlet"]

addServlet(d, uri, slt) ==
  [d EXCEPT !.datas = [u \in DOMAIN @ \cup {uri} |-> IF u = uri THEN slt ELSE @[u]]]

\* The first entry with the pattern is erased.
delGlobServlet(d, pattern) ==
  LET same == {i \in 1..Len(d.globs) : d.globs[i][1] = pattern}
  IN  IF same = {} THEN d ELSE [d EXCEPT !.globs = RemoveAt(@, Min(same))]

\* A pattern that is registered again moves to the end.
addGlobServlet(d, pattern, slt) ==
  [delGlobServlet(d, pattern) EXCEPT !.globs = Append(@, <<pattern, slt>>)]

\* Fnmatch is the relation of the library's fnmatch with no flags.
getMatchedServlet(d, uri, Fnmatch) ==
  LET hits == {i \in 1..Len(d.globs) : <<d.globs[i][1], uri>> \in Fnmatch}
  IN  IF uri \in DOMAIN d.datas THEN d.datas[uri] ELSE IF hits # {} THEN d.globs[Min(hits)][2] ELSE d.default
=============================================================================
