------------------------------ MODULE MCHookIO ------------------------------
(* The calls of an instance of HookIO: a receive without a timeout, a send *)
(* and a connect with one.                                                 *)
EXTENDS HookIO

CONSTANTS r, w, k

TheCalls == {r, w, k}
TheTimed == {w, k}
TheKinds == [c \in TheCalls |-> CASE c = r -> "READ" [] c = w -> "WRITE"
                                   [] c = k -> "CONNECT"]
=============================================================================
