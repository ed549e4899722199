--------------------------- MODULE MCDirectServer ---------------------------
(***************************************************************************)
(* The instance of DirectServer that TLC checks: three clients with a      *)
(* request of each kind and two sockets, so that two leaks use up the      *)
(* numbers; accept fails once for want of a number; a thread for each      *)
(* connection and for that failure.                                        *)
(***************************************************************************)
EXTENDS DirectServer

CONSTANTS c1, c2, c3

MCRequest ==
    [x \in {c1, c2, c3} |->
        CASE x = c1 -> [kind |-> "good", segments |-> 1]
          [] x = c2 -> [kind |-> "bad", segments |-> 1]
          [] x = c3 -> [kind |-> "endless", segments |-> 0]]
=============================================================================
