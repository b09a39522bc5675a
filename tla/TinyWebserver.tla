--------------------------- MODULE TinyWebserver ---------------------------
(***************************************************************************)
(* The web application (web/tiny_webserver.cc): one fiber per client,      *)
(* static pages, registration and login over the connection pool, and a    *)
(* table of logged-in users that timers empty.  main() runs everything on  *)
(* an IOManager of one thread: a handler is interrupted only where its     *)
(* fiber is suspended, in recv and in a statement to the database.         *)
(***************************************************************************)
EXTENDS MysqlPool, Servlet

CONSTANTS Requests,     \* what a client may ask: [path, user, password, close]
          Quoting,      \* the texts with a quote or a backslash in them
          Spliced,      \* the rows that such a text may speak of
          Files,        \* the page files that can be read
          Keepalive,    \* m_isKeepalive
          Empty,        \* the empty string: what getParam returns of a parameter that is not there
          MaxRequests   \* bound: requests in a behaviour

ASSUME WebAssumption ==
  /\ Empty \in Names /\ Empty \in Passwords /\ Spliced \subseteq Names \X Passwords
  /\ Requests \subseteq [path : STRING, user : Names, password : Passwords, close : BOOLEAN]

VARIABLES page,         \* fiber |-> where its handler is
          req,          \* fiber |-> the request it handles
          rsp,          \* fiber |-> the response it has prepared
          m_userpass,   \* user |-> the password it has logged in with, or Nil
          timers,       \* user |-> timers that will log it out
          asked         \* requests so far

webVars == <<page, req, rsp, m_userpass, timers, asked>>
vars == <<allPoolVars, webVars>>

(***************************************************************************)
(* The routes of the constructor, in its order.                            *)
(***************************************************************************)
m_dispatch ==
  LET d0 == addGlobServlet(ServletDispatch, "/*", "main_page")
      d1 == addServlet(d0, "/gxh/xx", "echo")
      d2 == addServlet(d1, "/", "main_page")
      d3 == addServlet(d2, "/register", "register_page")
      d4 == addServlet(d3, "/log", "log_page")
      d5 == addServlet(d4, "/check_register", "check_register_page")
      d6 == addServlet(d5, "/check_log", "check_log_page")
      d7 == addServlet(d6, "/picture/1", "picture_1_page")
      d8 == addServlet(d7, "/video/1", "video_1_page")
      d9 == addServlet(d8, "/video/xxx.mp4", "video_1_resource")
      d10 == addServlet(d9, "/picture/xxx.jpg", "picture_1_resource")
  IN  addServlet(d10, "/favicon.ico", "favicon_1_resource")

\* fnmatch of the pattern "/*": every path but the asterisk form.
Fnmatch == {<<"/*", r.path>> : r \in {q \in Requests : q.path # "*"}}

\* The file each page handler reads.
FileOf == [main_page |-> "judge", register_page |-> "register", log_page |-> "log",
           picture_1_page |-> "picture", video_1_page |-> "video",
           picture_1_resource |-> "jpg", video_1_resource |-> "mp4", favicon_1_resource |-> "ico"]

\* readFromFile, setBody: the body is empty if the file cannot be read; the status is 200 all the same.
Body(file) == [status |-> 200, body |-> IF file \in Files THEN file ELSE "empty"]

Init ==
  /\ PoolInit
  /\ page = [f \in Fibers |-> "recv"]
  /\ req = [f \in Fibers |-> Nil] /\ rsp = [f \in Fibers |-> Nil]
  /\ m_userpass = [u \in Names |-> Nil] /\ timers = [u \in Names |-> 0] /\ asked = 0

\* The handler leaves rsp for sendResponse.
Respond(f, file) ==
  /\ page' = [page EXCEPT ![f] = "send"] /\ rsp' = [rsp EXCEPT ![f] = Body(file)]

\* The handler makes one of the statements S and waits for it at w.
Ask(f, S, w) ==
  /\ (\E s \in S : Call(f, s)) /\ page' = [page EXCEPT ![f] = w]
  /\ UNCHANGED rsp

\* The parameters are put into the text of the statement as they are, between quotes.  One that has a
\* quote itself goes on as it likes: the select answers with any rows, the insert adds any.
Select(u) ==
  IF u \notin Quoting THEN {[op |-> "select", name |-> u]}
  ELSE {[op |-> "values", rows |-> R] : R \in SUBSET Spliced}
InsertUser(q) ==
  IF {q.user, q.password} \cap Quoting = {}
  THEN {[op |-> "insert", name |-> q.user, passwd |-> q.password]}
  ELSE {[op |-> "add", rows |-> R] : R \in SUBSET Spliced}

(***************************************************************************)
(* The handlers, up to their first statement.  known is a history of what  *)
(* the table held when the request came.                                   *)
(***************************************************************************)
check_register_page(f, q) ==
  /\ Ask(f, Select(q.user), "reg_select")
  /\ UNCHANGED <<m_userpass, timers>>

\* A user in m_userpass is checked against it; any other against the table.
check_log_page(f, q) ==
  /\ UNCHANGED <<m_userpass, timers>>
  /\ IF q.user = Empty \/ q.password = Empty
     THEN Respond(f, "logError") /\ UNCHANGED allPoolVars
     ELSE IF m_userpass[q.user] # Nil
     THEN /\ Respond(f, IF m_userpass[q.user] = q.password THEN "welcome" ELSE "logError")
          /\ UNCHANGED allPoolVars
     ELSE Ask(f, Select(q.user), "log_select")

StaticPage(f, slt) ==
  /\ page' = [page EXCEPT ![f] = "send"]
  /\ rsp' = [rsp EXCEPT ![f] = CASE slt = "NotFoundServlet" -> [status |-> 404, body |-> "notfound"]
                                 [] slt = "echo" -> [status |-> 200, body |-> "request"]
                                 [] OTHER -> Body(FileOf[slt])]
  /\ UNCHANGED <<allPoolVars, m_userpass, timers>>

\* recvRequest returns a request, and the dispatcher calls its servlet.
HandleRequest(f, q) ==
  /\ init = "up" /\ page[f] = "recv" /\ On(f) /\ asked < MaxRequests
  /\ req' = [req EXCEPT ![f] = [asks |-> q, known |-> Of(q.user) # {}]]
  /\ asked' = asked + 1
  /\ \E slt \in {getMatchedServlet(m_dispatch, q.path, Fnmatch)} :
       \/ slt = "check_register_page" /\ check_register_page(f, q)
       \/ slt = "check_log_page" /\ check_log_page(f, q)
       \/ slt \notin {"check_register_page", "check_log_page"} /\ StaticPage(f, slt)

\* recvRequest returns nullptr: the client is gone.
RecvFails(f) ==
  /\ page[f] = "recv" /\ On(f)
  /\ page' = [page EXCEPT ![f] = "closed"]
  /\ UNCHANGED <<allPoolVars, req, rsp, m_userpass, timers, asked>>

(***************************************************************************)
(* The handlers after a statement.                                         *)
(***************************************************************************)
Back(f, where) == page[f] = where /\ pc[f] = "out" /\ On(f)

RegisterSelected(f) ==
  /\ Back(f, "reg_select")
  /\ IF res[f].ok /\ res[f].rows = {}
     THEN Ask(f, InsertUser(req[f].asks), "reg_insert")
     ELSE Respond(f, "registerError") /\ UNCHANGED allPoolVars
  /\ UNCHANGED <<req, m_userpass, timers, asked>>

RegisterInserted(f) ==
  /\ Back(f, "reg_insert")
  /\ Respond(f, IF res[f].ok THEN "log" ELSE "registerError")
  /\ UNCHANGED <<allPoolVars, req, m_userpass, timers, asked>>

\* Mutant: no timer is added.
LoginNoTimer(f, q) ==
  /\ Respond(f, "welcome")
  /\ UNCHANGED timers
  /\ m_userpass' = [m_userpass EXCEPT ![q.user] = q.password]

\* addTimer(5000, erase), then the entry.
Login(f, q) ==
  /\ Respond(f, "welcome")
  /\ timers' = [timers EXCEPT ![q.user] = @ + 1]
  /\ m_userpass' = [m_userpass EXCEPT ![q.user] = q.password]

Refuse(f) == Respond(f, "logError") /\ UNCHANGED <<m_userpass, timers>>

\* Mutant: the password of another row is good enough for the cache.
LogSelectedUnchecked(f) ==
  /\ Back(f, "log_select")
  /\ IF res[f].ok /\ res[f].rows # {} THEN Login(f, req[f].asks) ELSE Refuse(f)
  /\ UNCHANGED <<allPoolVars, req, asked>>

\* The first row counts; with two rows of one name the database may return either first.
LogSelected(f) ==
  /\ Back(f, "log_select")
  /\ LET q == req[f].asks
     IN  \/ /\ res[f].ok /\ \E r \in res[f].rows : r[2] = q.password
            /\ Login(f, q)
         \/ /\ ~res[f].ok \/ res[f].rows = {} \/ \E r \in res[f].rows : r[2] # q.password
            /\ Refuse(f)
  /\ UNCHANGED <<allPoolVars, req, asked>>

\* The timer of a login: erase.
Expire(u) ==
  /\ timers[u] > 0 /\ \E t \in Threads : runs[t] = Nil
  /\ timers' = [timers EXCEPT ![u] = @ - 1] /\ m_userpass' = [m_userpass EXCEPT ![u] = Nil]
  /\ UNCHANGED <<allPoolVars, page, req, rsp, asked>>

(***************************************************************************)
(* The loop of handleClient.                                               *)
(***************************************************************************)
SendResponse(f) ==
  /\ page[f] = "send" /\ On(f)
  /\ page' = [page EXCEPT ![f] = IF Keepalive /\ ~req[f].asks.close THEN "recv" ELSE "closed"]
  /\ UNCHANGED <<allPoolVars, req, rsp, m_userpass, timers, asked>>

\* The fiber waits for the next request, or has closed its client; a closed one stands for the next
\* client that is accepted.
LeaveThread(f) ==
  /\ page[f] \in {"recv", "closed"} /\ Yield(f)
  /\ page' = [page EXCEPT ![f] = "recv"] /\ req' = [req EXCEPT ![f] = Nil] /\ rsp' = [rsp EXCEPT ![f] = Nil]
  /\ UNCHANGED <<m_userpass, timers, asked>>

\* A request has come, or the database has answered.
Wake(t, f) ==
  /\ init = "up" /\ (page[f] # "recv" \/ asked < MaxRequests)
  /\ Resume(t, f)
  /\ UNCHANGED webVars

Handler(f) ==
  \/ RegisterSelected(f) \/ RegisterInserted(f) \/ LogSelected(f) \/ SendResponse(f)
  \/ (PoolStep(f) /\ UNCHANGED webVars)

Done == /\ init = "exit" \/ (asked = MaxRequests /\ \A f \in Fibers : page[f] = "recv" /\ ~On(f))
        /\ \A u \in Names : timers[u] = 0
        /\ UNCHANGED vars

Next ==
  \/ Setup /\ UNCHANGED webVars
  \/ \E f \in Fibers : \/ \E q \in Requests : HandleRequest(f, q)
                       \/ RecvFails(f) \/ LeaveThread(f) \/ Handler(f)
                       \/ Suspend(f) /\ UNCHANGED webVars
                       \/ \E t \in Threads : Wake(t, f)
  \/ \E u \in Names : Expire(u)
  \/ Done

\* The thread runs the fiber it has, and fibers that can go on are resumed in the order they became ready.
Fairness ==
  /\ WF_vars(Setup /\ UNCHANGED webVars)
  /\ \A f \in Fibers : /\ WF_vars(Handler(f) \/ LeaveThread(f))
                       /\ SF_vars(page[f] # "recv" /\ \E t \in Threads : Wake(t, f))

Spec == Init /\ [][Next]_vars

FairSpec == Spec /\ Fairness

-----------------------------------------------------------------------------
TypeOK ==
  /\ PoolTypeOK
  /\ page \in [Fibers -> {"recv", "reg_select", "reg_insert", "log_select", "send", "closed"}]
  /\ m_userpass \in [Names -> Passwords \cup {Nil}] /\ timers \in [Names -> Nat]

\* The page that the response shows: that of a file that can be read.
Shown(f, file) == page[f] = "send" /\ file \in Files /\ rsp[f] = Body(file)

\* Whoever is welcomed has given a name and a password that the table holds, also when the answer
\* came from the table of logged-in users (tiny_webserver.cc:264, 278), and whatever rows others have
\* added with names and passwords that have a quote.  Of a name that has a quote it does not hold: the
\* name is spliced into the select (tiny_webserver.cc:260).
WelcomeIsEarned ==
  \A f \in Fibers : Shown(f, "welcome") /\ req[f].asks.user \notin Quoting =>
    <<req[f].asks.user, req[f].asks.password>> \in rows

\* A user whose registration is confirmed is in the table with the password given, and the name was
\* free when the request came (tiny_webserver.cc:190-200); unless name or password have a quote.
RegistrationIsReal ==
  \A f \in Fibers :
    /\ Shown(f, "log") /\ req[f].asks.path = "/check_register"
    /\ {req[f].asks.user, req[f].asks.password} \cap Quoting = {}
    => <<req[f].asks.user, req[f].asks.password>> \in rows /\ ~req[f].known

\* Each path gets its own page although the glob "/*" was registered first, and a page only appears
\* for its path (tiny_webserver.cc:28, servlet.cc:118).
PageOfItsPath ==
  \A f \in Fibers : page[f] = "send" =>
    /\ Shown(f, "welcome") => req[f].asks.path = "/check_log"
    /\ Shown(f, "registerError") => req[f].asks.path = "/check_register"
    /\ rsp[f].status = 404 <=> req[f].asks.path = "*"
    /\ Shown(f, "jpg") <=> req[f].asks.path = "/picture/xxx.jpg" /\ "jpg" \in Files

\* What a client is shown is so: the welcome and the confirmed registration of names and passwords
\* without a quote, and the page of its path.
AnswersAreEarned == WelcomeIsEarned /\ RegistrationIsReal /\ PageOfItsPath

\* Whoever is logged in will be logged out: a timer is pending for every entry, however the logins of
\* one user and the timers of earlier ones overlap (tiny_webserver.cc:267-270).
LoginExpires == TypeOK /\ \A u \in Names : m_userpass[u] # Nil => timers[u] > 0

\* Every request is answered, whether the statements succeed or fail, also when failed ones have used
\* up the pool: the one thread that runs every fiber is not left in sem_wait (mysql_pool.cc:40, 43).
\* The database answers or the connection breaks in the end, and no SIGPIPE ends the process.
EveryRequestAnswered ==
  \A f \in Fibers : page[f] \in {"reg_select", "reg_insert", "log_select"} ~> page[f] = "send"
=============================================================================
