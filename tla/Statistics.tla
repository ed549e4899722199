----------------------------- MODULE Statistics -----------------------------
(***************************************************************************)
(* HttpServer::recordStatisticInfoBySecond: a thread of every server that  *)
(* writes a line to stat.txt each second, with the responses since the     *)
(* last one.  It reads the counters without their mutexes (an aligned      *)
(* 32-bit word: a read returns the value before or after a change), and    *)
(* reads totalRespondedRequestNumber twice in a round.                     *)
(***************************************************************************)
EXTENDS HttpServer

VARIABLES
    recorder,                          \* where the thread is
    lastTotalRespondedRequestNumber,   \* its local variable
    recorded                           \* the sum of the Responded_delta column

statVars == <<recorder, lastTotalRespondedRequestNumber, recorded>>

StatTypeOK ==
    /\ recorder \in {"start", "write", "save", "ended"}
    /\ lastTotalRespondedRequestNumber \in Nat
    /\ recorded \in Nat

StatInit ==
    /\ recorder = "start"
    /\ lastTotalRespondedRequestNumber = 0
    /\ recorded = 0

\* The thread may first run after responses were counted.  stat.txt is created,
\* or the thread ends.
OpenFile ==
    /\ recorder = "start"
    /\ \/ /\ recorder' = "write"
          /\ lastTotalRespondedRequestNumber' = totalRespondedRequestNumber
       \/ /\ recorder' = "ended"
          /\ UNCHANGED lastTotalRespondedRequestNumber
    /\ UNCHANGED recorded

\* After a second of sleep: the line with the difference.
WriteLine ==
    /\ recorder = "write"
    /\ recorded' = recorded + totalRespondedRequestNumber
                            - lastTotalRespondedRequestNumber
    /\ recorder' = "save"
    /\ UNCHANGED lastTotalRespondedRequestNumber

\* Mutant: the last number is not brought up to date.
ForgetLast ==
    /\ recorder = "save"
    /\ recorder' = "write"
    /\ UNCHANGED <<lastTotalRespondedRequestNumber, recorded>>

\* The second read.
SaveLast ==
    /\ recorder = "save"
    /\ lastTotalRespondedRequestNumber' = totalRespondedRequestNumber
    /\ recorder' = "write"
    /\ UNCHANGED recorded

RecorderStep == OpenFile \/ WriteLine \/ SaveLast
=============================================================================
