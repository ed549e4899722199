------------------------------ MODULE MCLogger ------------------------------
(***************************************************************************)
(* The instance of Logger that TLC checks: two threads that log and may    *)
(* exit, the first of which gets SIGINT.  Three messages each are the      *)
(* fewest with which a thread can log one, be interrupted in a second      *)
(* inside safeExit, and still log the "exit" of the handler.               *)
(***************************************************************************)
EXTENDS Logger
=============================================================================
