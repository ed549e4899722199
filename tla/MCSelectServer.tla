--------------------------- MODULE MCSelectServer ---------------------------
(***************************************************************************)
(* The instance of SelectServer that TLC checks: sets of three and three   *)
(* sockets, so that a set can be full without the listening socket; three  *)
(* clients, one with a request in two segments and two that send nothing,  *)
(* so that others come while one is idle; select fails once.               *)
(***************************************************************************)
EXTENDS SelectServer

CONSTANTS c1, c2, c3

MCRequest ==
    [x \in {c1, c2, c3} |->
        CASE x = c1 -> [kind |-> "good", segments |-> 2]
          [] x = c2 -> [kind |-> "endless", segments |-> 0]
          [] x = c3 -> [kind |-> "endless", segments |-> 0]]
=============================================================================
