------------------------------ MODULE MCProcesses ------------------------------
(* Small instances of Processes for TLC. *)
EXTENDS Processes, TLC

CONSTANTS p1, p2

T(by, from, kind, says, may) ==
  [by |-> by, stdin |-> from, kind |-> kind, says |-> says, may |-> may]
None == T("none", "nil", "deaf", <<>>, {})
Two(a, b) == p1 :> a @@ p2 :> b

A == Two(T("new", "nil", "deaf", <<"text", "nl", "text">>, {}), None)
B == Two(T("run", "text", "filter", <<>>, {"crash"}), T("run", "doubled", "filter", <<"text">>, {}))
C == Two(T("new", "nil", "deaf", <<>>, {}), T("run", "nil", "deaf", <<>>, {}))
D == Two(T("run", "nil", "deaf", <<"text">>, {"complain", "crash", "leave"}), None)
E == Two(T("new", "false", "filter", <<"text">>, {"complain"}), T("new", "directive", "filter", <<>>, {}))
F == Two(T("run", "text", "talker", <<"text">>, {"crash"}), T("run", "nil", "talker", <<"text", "nl">>, {}))
SmallTasks == {A, B, C, D, E, F}
===============================================================================
