------------------------------ MODULE MCConfig ------------------------------
(***************************************************************************)
(* Two loggers that come and go and change, and a file for "db".           *)
(***************************************************************************)
EXTENDS Config

Define(l, a) == [level |-> l, appenders |-> a]

mc_LogValues ==
  { [x \in {"root"} |-> Define("INFO", {"stdout"})],
    [x \in {"root", "system"} |-> IF x = "root" THEN Define("INFO", {"file"}) ELSE Define("ERROR", {"stdout", "file", "typo"})],
    [x \in {"system"} |-> Define("ERROR", {"file"})],
    [x \in {"system"} |-> Define("INFO", {"file"})],
    [x \in {Unnamed} |-> Define("INFO", {"file"})] }
mc_DbValues == {[url |-> "a"], [url |-> "b"]}
=============================================================================
