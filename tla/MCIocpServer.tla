---------------------------- MODULE MCIocpServer ----------------------------
(***************************************************************************)
(* The instance of IocpServer that TLC checks: two workers, as in the      *)
(* code; three clients, a good request in two segments, a bad one and one  *)
(* that sends nothing; v4_1 posts two accepts.                             *)
(***************************************************************************)
EXTENDS IocpServer

CONSTANTS c1, c2, c3

MCRequest ==
    [x \in {c1, c2, c3} |->
        CASE x = c1 -> [kind |-> "good", segments |-> 2]
          [] x = c2 -> [kind |-> "bad", segments |-> 1]
          [] x = c3 -> [kind |-> "endless", segments |-> 0]]
=============================================================================
