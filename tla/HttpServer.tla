----------------------------- MODULE HttpServer -----------------------------
(***************************************************************************)
(* The counters of the base class HttpServer (include/http/HttpServer.h).  *)
(* Each is changed under a mutex of its own, so two of them are never      *)
(* changed in one step.  An unsigned counter that would go below zero      *)
(* wraps; here it would become negative.                                   *)
(***************************************************************************)
EXTENDS Integers

VARIABLES
    currentConnectionNumber,
    totalConnectionNumber,
    totalReceivedRequestNumber,
    totalRespondedRequestNumber

counters == <<currentConnectionNumber, totalConnectionNumber,
              totalReceivedRequestNumber, totalRespondedRequestNumber>>

CountersInit ==
    /\ currentConnectionNumber = 0
    /\ totalConnectionNumber = 0
    /\ totalReceivedRequestNumber = 0
    /\ totalRespondedRequestNumber = 0

\* addCurrentConnectionNumber, its two halves
addCurrentConnectionNumber ==
    /\ currentConnectionNumber' = currentConnectionNumber + 1
    /\ UNCHANGED <<totalConnectionNumber, totalReceivedRequestNumber,
                   totalRespondedRequestNumber>>

addTotalConnectionNumber ==
    /\ totalConnectionNumber' = totalConnectionNumber + 1
    /\ UNCHANGED <<currentConnectionNumber, totalReceivedRequestNumber,
                   totalRespondedRequestNumber>>

addTotalReceivedRequestNumber ==
    /\ totalReceivedRequestNumber' = totalReceivedRequestNumber + 1
    /\ UNCHANGED <<currentConnectionNumber, totalConnectionNumber,
                   totalRespondedRequestNumber>>

subCurrentConnectionNumber ==
    /\ currentConnectionNumber' = currentConnectionNumber - 1
    /\ UNCHANGED <<totalConnectionNumber, totalReceivedRequestNumber,
                   totalRespondedRequestNumber>>

addTotalRespondedRequestNumber ==
    /\ totalRespondedRequestNumber' = totalRespondedRequestNumber + 1
    /\ UNCHANGED <<currentConnectionNumber, totalConnectionNumber,
                   totalReceivedRequestNumber>>
=============================================================================
