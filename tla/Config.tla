------------------------------- MODULE Config -------------------------------
(***************************************************************************)
(* gxh::ConfigVar and gxh::Config (config.h, config.cc): values under a    *)
(* reader-writer lock, listeners, and the loading of a directory of files  *)
(* that were modified since the last time; with the two listeners of the   *)
(* program: LogIniter (log.cpp), which sets the loggers up, and MysqlInit  *)
(* (db/mysql_pool.cc), which rebuilds the pool of connections.             *)
(***************************************************************************)
EXTENDS Naturals, FiniteSets

CONSTANTS Loader,        \* the thread that calls LoadFromConfDir
          Coder,         \* a thread that uses "db" from code
          LogValues,     \* texts of "logs": functions from logger names to [level, appenders]
          DbValues,      \* values of "db": records of the fields that matter
          Loggers,       \* names of loggers
          Daemon,        \* the program runs with -d
          MaxEdits,      \* bound: how often a file is edited
          MaxCalls,      \* bound: calls of the coder
          Nil

Unnamed == "unnamed"     \* the key of a definition that has no name

ASSUME ConfigAssumption ==
  /\ Nil \notin DbValues /\ Loader # Coder /\ MaxEdits \in Nat /\ MaxCalls \in Nat
  /\ \A text \in LogValues : DOMAIN text \subseteq Loggers \cup {Unnamed}

Threads == {Loader, Coder}
Vars == {"logs", "db"}
Values(v) == IF v = "logs" THEN LogValues ELSE DbValues
Files == Vars            \* one file for each

VARIABLES file,          \* file |-> [mtime, content]; content is Nil in a file that cannot be read
          s_file2modifytime,
          m_val,         \* variable |-> value
          m_cbs,         \* variable |-> its listeners, by id
          readers,       \* variable |-> threads that hold its m_mutex for reading
          pc,            \* thread |-> where it is
          forced,        \* the argument force of the call
          todo,          \* files the loader has still to look at
          at,            \* thread |-> the variable it works on
          newv,          \* thread |-> the value it sets
          calls,         \* thread |-> listeners it has still to call
          loggers,       \* logger |-> [level, appenders]
          came,          \* history: the definition each logger came into the value with, by name
          pool,          \* what MysqlInit has built the pool with
          was,           \* history: the value of "db" before the last assignment
          fault,         \* a null logger was dereferenced
          edits, coded   \* counters of the bounds

vars == <<file, s_file2modifytime, m_val, m_cbs, readers, pc, forced, todo, at, newv, calls, loggers, came, pool,
          was, fault, edits, coded>>
loadVars == <<file, s_file2modifytime, forced, todo, edits, coded>>
logVars == <<loggers, came, pool, fault>>

DbDefault == [url |-> "192.168.138.128"]
NewLogger == [level |-> "INFO", appenders |-> {}]
Off == [level |-> "NOTSET", appenders |-> {}]

Init ==
  /\ file \in [Files -> {[mtime |-> 1, content |-> Nil]}]
  /\ s_file2modifytime = [f \in Files |-> 0]
  /\ m_val = [v \in Vars |-> IF v = "logs" THEN <<>> ELSE DbDefault]
  /\ m_cbs = [v \in Vars |-> IF v = "logs" THEN {"LogIniter"} ELSE {"MysqlInit"}]
  /\ readers = [v \in Vars |-> {}]
  /\ pc = [t \in Threads |-> "idle"] /\ forced = FALSE /\ todo = {} /\ at = [t \in Threads |-> "db"]
  /\ newv = [t \in Threads |-> Nil] /\ calls = [t \in Threads |-> {}]
  /\ loggers = [n \in Loggers |-> IF n = "root" THEN [level |-> "INFO", appenders |-> {"stdout"}] ELSE NewLogger]
  /\ came = <<>> /\ pool = DbDefault /\ was = DbDefault /\ fault = FALSE /\ edits = 0 /\ coded = 0

(***************************************************************************)
(* LexicalCast: a logger without a name throws, an appender of an unknown  *)
(* or a missing type is left out.  A text of "db" that lacks a field       *)
(* throws as well, and counts as one that cannot be read.                  *)
(***************************************************************************)
LexicalCast(v, text) ==
  IF text = Nil \/ (v = "logs" /\ Unnamed \in DOMAIN text) THEN Nil
  ELSE IF v = "db" THEN text
  ELSE [n \in DOMAIN text |-> [text[n] EXCEPT !.appenders = @ \cap {"stdout", "file"}]]

(***************************************************************************)
(* RWMutex is a pthread_rwlock with default attributes: readers are let in *)
(* while a writer waits, and a writer's section is one step here, so that  *)
(* a reader never waits.                                                   *)
(***************************************************************************)
CanWrite(v) == readers[v] = {}

Goto(t, where) == pc' = [pc EXCEPT ![t] = where]

(***************************************************************************)
(* LoadFromConfDir.                                                        *)
(***************************************************************************)
\* Someone edits a file; its time of modification is a new one.
Edit(f, c) ==
  /\ edits < MaxEdits /\ edits' = edits + 1
  /\ file' = [file EXCEPT ![f] = [mtime |-> @.mtime + 1, content |-> c]]
  /\ UNCHANGED <<s_file2modifytime, m_val, was, m_cbs, readers, pc, forced, todo, at, newv, calls, logVars, coded>>

Load(force) ==
  /\ pc[Loader] = "idle" /\ ~fault
  /\ forced' = force /\ todo' = Files /\ Goto(Loader, "next")
  /\ UNCHANGED <<file, s_file2modifytime, m_val, was, m_cbs, readers, at, newv, calls, logVars, edits, coded>>

\* Under s_mutex: a file that was not modified is skipped; the time of any other is recorded.
Stat(f) ==
  /\ pc[Loader] = "next" /\ f \in todo
  /\ todo' = todo \ {f}
  /\ at' = [at EXCEPT ![Loader] = f]
  /\ IF ~forced /\ s_file2modifytime[f] = file[f].mtime
     THEN Goto(Loader, "next") /\ UNCHANGED s_file2modifytime
     ELSE /\ s_file2modifytime' = [s_file2modifytime EXCEPT ![f] = file[f].mtime]
          /\ Goto(Loader, "read")
  /\ UNCHANGED <<file, forced, m_val, was, m_cbs, readers, newv, calls, logVars, edits, coded>>

\* Mutant: a file that cannot be converted is tried again.
ReadFileRetries ==
  LET f == at[Loader]
      x == LexicalCast(f, file[f].content)
  IN  /\ pc[Loader] = "read"
      /\ newv' = [newv EXCEPT ![Loader] = x]
      /\ Goto(Loader, IF x = Nil THEN "next" ELSE "compare")
      /\ IF x = Nil
         THEN todo' = todo \cup {f} /\ s_file2modifytime' = [s_file2modifytime EXCEPT ![f] = 0]
         ELSE UNCHANGED <<todo, s_file2modifytime>>
      /\ UNCHANGED <<file, forced, edits, coded, m_val, was, m_cbs, readers, at, calls, logVars>>

\* YAML::LoadFile, ListAllMember, LookupBase and the conversion of fromString: what throws is caught,
\* and the file counts as loaded.
ReadFile ==
  LET x == LexicalCast(at[Loader], file[at[Loader]].content)
  IN  /\ pc[Loader] = "read"
      /\ newv' = [newv EXCEPT ![Loader] = x]
      /\ Goto(Loader, IF x = Nil THEN "next" ELSE "compare")
      /\ UNCHANGED <<loadVars, m_val, was, m_cbs, readers, at, calls, logVars>>

LoadDone ==
  /\ pc[Loader] = "next" /\ todo = {}
  /\ Goto(Loader, "idle") /\ forced' = FALSE /\ newv' = [newv EXCEPT ![Loader] = Nil]
  /\ UNCHANGED <<file, s_file2modifytime, todo, edits, coded, m_val, was, m_cbs, readers, at, calls, logVars>>

(***************************************************************************)
(* ConfigVar::setValue.                                                    *)
(***************************************************************************)
\* operator== of the values.  LogDefine compares appenders with itself: they never differ.
SameDefine(d, e) == d.level = e.level
Same(v, a, b) ==
  IF v = "logs" THEN DOMAIN a = DOMAIN b /\ \A n \in DOMAIN a : SameDefine(a[n], b[n]) ELSE a = b

After(t) == IF t = Loader THEN "next" ELSE "idle"

\* Mutant: the lock is given up before the listeners are called.
CompareUnlocks(t) ==
  LET v == at[t]
  IN  /\ pc[t] = "compare"
      /\ IF Same(v, newv[t], m_val[v])
         THEN Goto(t, After(t)) /\ UNCHANGED <<readers, calls>>
         ELSE UNCHANGED readers /\ calls' = [calls EXCEPT ![t] = m_cbs[v]] /\ Goto(t, "notify")
      /\ UNCHANGED <<loadVars, m_val, was, m_cbs, at, newv, logVars>>

\* The read lock is taken; an equal value ends the call.
Compare(t) ==
  LET v == at[t]
  IN  /\ pc[t] = "compare"
      /\ IF Same(v, newv[t], m_val[v])
         THEN Goto(t, After(t)) /\ UNCHANGED <<readers, calls>>
         ELSE /\ readers' = [readers EXCEPT ![v] = @ \cup {t}]
              /\ calls' = [calls EXCEPT ![t] = m_cbs[v]] /\ Goto(t, "notify")
      /\ UNCHANGED <<loadVars, m_val, was, m_cbs, at, newv, logVars>>

\* A logger is set up with the appenders of its definition; under -d none writes to the terminal.
SetUp(d) == [level |-> d.level, appenders |-> d.appenders \ (IF Daemon THEN {"stdout"} ELSE {})]

\* The listener of "logs": new loggers are set up, loggers that are gone are emptied; for a logger
\* whose level has changed the pointer was compared, not assigned, and is null.
LogIniter(old, new) ==
  IF \E n \in DOMAIN new \cap DOMAIN old : ~SameDefine(new[n], old[n])
  THEN fault' = TRUE /\ UNCHANGED <<loggers, came>>
  ELSE /\ loggers' = [n \in Loggers |->
                        IF n \in DOMAIN new \ DOMAIN old THEN SetUp(new[n])
                        ELSE IF n \in DOMAIN old \ DOMAIN new THEN Off
                        ELSE loggers[n]]
       /\ came' = [n \in DOMAIN came \cup DOMAIN new |->
                     IF n \in DOMAIN new \ DOMAIN old THEN new[n] ELSE came[n]]
       /\ UNCHANGED fault

\* One listener is called.  MysqlInit reads the variable, under a second read lock of its own: the
\* value that is about to be replaced.
Notify(t, l) ==
  LET v == at[t]
  IN  /\ pc[t] = "notify" /\ l \in calls[t]
      /\ calls' = [calls EXCEPT ![t] = @ \ {l}]
      /\ CASE l = "LogIniter" -> LogIniter(m_val[v], newv[t]) /\ UNCHANGED pool
           [] l = "MysqlInit" -> pool' = m_val[v] /\ UNCHANGED <<loggers, came, fault>>
           [] OTHER -> UNCHANGED logVars
      /\ UNCHANGED <<loadVars, m_val, was, m_cbs, readers, pc, at, newv>>

Unlock(t) ==
  /\ pc[t] = "notify" /\ calls[t] = {} /\ ~fault
  /\ readers' = [readers EXCEPT ![at[t]] = @ \ {t}] /\ Goto(t, "assign")
  /\ UNCHANGED <<loadVars, m_val, was, m_cbs, at, newv, calls, logVars>>

\* Mutant: the time of the file is recorded when it is done.
AssignRecords(t) ==
  /\ pc[t] = "assign" /\ CanWrite(at[t])
  /\ m_val' = [m_val EXCEPT ![at[t]] = newv[t]] /\ Goto(t, After(t))
  /\ was' = IF at[t] = "db" THEN m_val["db"] ELSE was
  /\ s_file2modifytime' = [s_file2modifytime EXCEPT ![at[t]] = file[at[t]].mtime]
  /\ UNCHANGED <<file, forced, todo, edits, coded, m_cbs, readers, at, newv, calls, logVars>>

Assign(t) ==
  /\ pc[t] = "assign" /\ CanWrite(at[t])
  /\ m_val' = [m_val EXCEPT ![at[t]] = newv[t]] /\ Goto(t, After(t))
  /\ was' = IF at[t] = "db" THEN m_val["db"] ELSE was
  /\ UNCHANGED <<loadVars, m_cbs, readers, at, newv, calls, logVars>>

(***************************************************************************)
(* The coder uses "db".                                                    *)
(***************************************************************************)
Coded == pc[Coder] = "idle" /\ coded < MaxCalls /\ coded' = coded + 1 /\ ~fault

SetByCode(x) ==
  /\ Coded /\ newv' = [newv EXCEPT ![Coder] = x] /\ Goto(Coder, "compare")
  /\ UNCHANGED <<file, s_file2modifytime, forced, todo, edits, m_val, was, m_cbs, readers, at, calls, logVars>>

addListener(l) ==
  /\ Coded /\ CanWrite("db") /\ m_cbs' = [m_cbs EXCEPT !["db"] = @ \cup {l}]
  /\ UNCHANGED <<file, s_file2modifytime, forced, todo, edits, m_val, was, readers, pc, at, newv, calls, logVars>>

delListener(l) ==
  /\ Coded /\ CanWrite("db") /\ l \in m_cbs["db"] /\ m_cbs' = [m_cbs EXCEPT !["db"] = @ \ {l}]
  /\ UNCHANGED <<file, s_file2modifytime, forced, todo, edits, m_val, was, readers, pc, at, newv, calls, logVars>>

Setting(t) == Compare(t) \/ Unlock(t) \/ Assign(t) \/ \E l \in {"LogIniter", "MysqlInit", "other"} : Notify(t, l)

Loading == LoadDone \/ ReadFile \/ \E f \in Files : Stat(f)

Stopped == fault /\ UNCHANGED vars

Next ==
  \/ \E f \in Files : \E c \in Values(f) \cup {Nil} : Edit(f, c)
  \/ (\E force \in BOOLEAN : Load(force)) \/ Loading
  \/ \E t \in Threads : Setting(t)
  \/ \E x \in DbValues : SetByCode(x)
  \/ addListener("other") \/ delListener("other")
  \/ Stopped

Spec == Init /\ [][Next]_vars

\* The threads run.
Fairness == WF_vars(Loading) /\ \A t \in Threads : WF_vars(Setting(t))

FairSpec == Spec /\ Fairness

-----------------------------------------------------------------------------
TypeOK ==
  /\ \A v \in Vars : readers[v] \subseteq Threads
  /\ m_val["db"] \in DbValues \cup {DbDefault}
  /\ m_val["logs"] \in {LexicalCast("logs", c) : c \in LogValues} \cup {<<>>}
  /\ DOMAIN m_val["logs"] \subseteq DOMAIN came
  /\ todo \subseteq Files /\ \A t \in Threads : calls[t] \subseteq m_cbs[at[t]]

\* While a setter calls the listeners, the value they were told is the old one stays the value: no
\* other setter assigns in between, and no listener is added or removed (config.h:390-398).
OldIsCurrent == [][\A t \in Threads : pc[t] = "notify" /\ pc'[t] = "notify" =>
                     m_val'[at[t]] = m_val[at[t]] /\ m_cbs'[at[t]] = m_cbs[at[t]]]_vars

\* "db" is changed by its file alone: no code has set it.
ByFileOnly == newv[Coder] = Nil

Settled(f) == pc[Loader] \in {"idle", "next"} \/ at[Loader] # f

\* A file that was not modified since the time recorded for it holds what its variable has, unless it
\* could not be converted: an edit that falls between lstat and the reading of the file is not missed
\* (config.cc:82-93 records the time before it reads).  Two texts of "logs" that only differ in their
\* appenders count as the same (log.cpp:603).
NothingMissed ==
  \A f \in Files :
    LET x == LexicalCast(f, file[f].content)
    IN  Settled(f) /\ (f = "db" => ByFileOnly) /\ s_file2modifytime[f] = file[f].mtime /\ x # Nil =>
          Same(f, m_val[f], x)

\* When no change is under way, every logger of the value has its level, and the appenders of the
\* definition it came into the value with, which is not what the value says once they were edited
\* alone (log.cpp:603); one that was in an earlier value and is no longer is off (log.cpp:710-741).
\* Loggers that no value has named, root too, stay as the program made them, although the comment at
\* log.cpp:733 says that they are switched off.
LoggersMatch ==
  Settled("logs") =>
    \A n \in DOMAIN came :
      IF n \in DOMAIN m_val["logs"]
      THEN loggers[n] = SetUp(came[n]) /\ came[n].level = m_val["logs"][n].level
      ELSE loggers[n] = Off

\* Under -d no logger that a value has named, root included, writes to the terminal from then on
\* (log.cpp:718).
DaemonIsQuiet ==
  Daemon => \A n \in DOMAIN came : "stdout" \notin loggers[n].appenders

\* Only a changed level of a logger that stays in the value dereferences the null logger (log.cpp:705).
FaultIsALevel ==
  fault => \E n \in DOMAIN newv[Loader] \cap DOMAIN m_val["logs"] : newv[Loader][n].level # m_val["logs"][n].level

\* The pool of connections is one change behind: MysqlInit reads the variable before the new value is
\* assigned (mysql_pool.cc:16, config.h:395-400), so that with no change under way the pool was built
\* with the value before the last one.
PoolIsBehind == ByFileOnly /\ Settled("db") => pool = was

\* What becomes of an edit: it is not missed, and the loggers and the pool follow the value as far as
\* the code takes them.
EditsApplied == TypeOK /\ NothingMissed /\ LoggersMatch /\ DaemonIsQuiet /\ FaultIsALevel /\ PoolIsBehind

\* The loading of the directory ends, however it meets other readers and setters -- also a listener
\* that reads its variable while a writer waits -- unless a null logger has ended the program.
LoadReturns == pc[Loader] # "idle" ~> (pc[Loader] = "idle" \/ fault)
=============================================================================
