---------------------------- MODULE MCPoolServer ----------------------------
(***************************************************************************)
(* The instance of PoolServer that TLC checks: three clients with a        *)
(* request of each kind, the good one in two segments and the endless one  *)
(* of a client that sends nothing; two sockets, so that accept runs out of *)
(* numbers and uses them again; two workers.                               *)
(***************************************************************************)
EXTENDS PoolServer

CONSTANTS c1, c2, c3

MCRequest ==
    [x \in {c1, c2, c3} |->
        CASE x = c1 -> [kind |-> "good", segments |-> 2]
          [] x = c2 -> [kind |-> "bad", segments |-> 1]
          [] x = c3 -> [kind |-> "endless", segments |-> 0]]
=============================================================================
