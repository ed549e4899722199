--------------------------- MODULE MCEpollServer ---------------------------
(***************************************************************************)
(* The instance of EpollServer that TLC checks.  One worker is what the    *)
(* Linux build has: getCPULogicCoresNumber returns 0 there, and the pool   *)
(* has 2 * 0 + 1 threads.  The request of c1 comes in two segments, which   *)
(* can be two events and so two tasks for one socket; c3 connects and sends*)
(* nothing; with two sockets the third connection has a number used before.*)
(* Two sockets and the listen queue can be ready at once, and MAX_EVENTS is*)
(* 2, so one of the three may have to wait for the next batch.             *)
(***************************************************************************)
EXTENDS EpollServer

CONSTANTS c1, c2, c3

MCRequest ==
    [x \in {c1, c2, c3} |->
        CASE x = c1 -> [kind |-> "good", segments |-> 2]
          [] x = c2 -> [kind |-> "good", segments |-> 1]
          [] x = c3 -> [kind |-> "endless", segments |-> 0]]
=============================================================================
