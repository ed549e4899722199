----------------------------- MODULE MCReactor -----------------------------
(***************************************************************************)
(* The instance of Reactor that TLC checks: sets of three, so that with    *)
(* the listening socket they hold two connections, and three clients, so   *)
(* that the sets fill up and sockets are used again.  Two connections are  *)
(* the fewest for which an index skips one.                                *)
(***************************************************************************)
EXTENDS Reactor

CONSTANTS c1, c2, c3

MCRequest ==
    [x \in {c1, c2, c3} |->
        CASE x = c1 -> [kind |-> "good", segments |-> 2]
          [] x = c2 -> [kind |-> "bad", segments |-> 1]
          [] x = c3 -> [kind |-> "good", segments |-> 1]]
=============================================================================
