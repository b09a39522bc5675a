-------------------------- MODULE MCTinyWebserver --------------------------
(***************************************************************************)
(* Registrations and logins of one user with two passwords and of one      *)
(* whose name has a quote, and the pages.                                  *)
(***************************************************************************)
EXTENDS TinyWebserver

CONSTANTS n1, q1, p1, p2

Form(path, u, p) == [path |-> path, user |-> u, password |-> p, close |-> TRUE]

mc_Requests ==
  {Form("/check_register", n1, p) : p \in {p1, p2}} \cup
  {Form("/check_log", n1, p) : p \in {p1, p2}} \cup {Form("/check_log", n1, Empty)} \cup
  {Form(path, q1, p1) : path \in {"/check_register", "/check_log"}} \cup
  {Form(path, Empty, Empty) : path \in {"*", "/picture/xxx.jpg"}}

mc_Names == {n1, q1, Empty}
mc_Passwords == {p1, p2, Empty}
mc_Spliced == {<<n1, p1>>}
=============================================================================
