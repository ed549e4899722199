----------------------------- MODULE PoolServer -----------------------------
(***************************************************************************)
(* HttpServer_v1_1: the main thread accepts connections and submits one    *)
(* task for each to the pool; a worker receives, responds, closes and then *)
(* counts.  It composes ThreadPool, HandleRequest, Connections and the     *)
(* counters of HttpServer.                                                 *)
(***************************************************************************)
EXTENDS HttpServer, HandleRequest

ASSUME PoolServerAssumption ==
    /\ Tasks = Sockets
    /\ NoTask = NoSocket
    /\ IsFiniteSet(Workers)

VARIABLES
    main,            \* where the main thread is in the loop of run()
    newConnSocket    \* its local variable

vars == <<connVars, poolVars, requestVars, counters, main, newConnSocket>>

\* The calls of one iteration of run(); After has their order.
Calls == {"accept", "current", "total", "received", "submit"}

TypeOK ==
    /\ ConnectionsTypeOK
    /\ PoolTypeOK
    /\ RequestTypeOK
    /\ currentConnectionNumber \in Nat
    /\ totalConnectionNumber \in Nat
    /\ totalReceivedRequestNumber \in Nat
    /\ totalRespondedRequestNumber \in Nat
    /\ main \in Calls
    /\ newConnSocket \in Sockets \cup {NoSocket}

Init ==
    /\ ConnectionsInit
    /\ PoolInit
    /\ RequestInit
    /\ CountersInit
    /\ main = "accept"
    /\ newConnSocket = NoSocket

\* The call after `call' in an iteration, or the first of the next one.
After(call) ==
    CASE call = "accept"   -> "current"
      [] call = "current"  -> "total"
      [] call = "total"    -> "received"
      [] call = "received" -> "submit"
      [] call = "submit"   -> "accept"

----------------------------------------------------------------------------
\* The main thread

\* accept failed: run() logs the error and calls it again.
AcceptFails ==
    /\ main = "accept"
    /\ AcceptAborted
    /\ UNCHANGED <<poolVars, requestVars, counters, main, newConnSocket>>

\* accept returned a socket.  (For want of a free number it fails, and is
\* called again, without any other effect.)
Accept ==
    /\ main = "accept"
    /\ \E s \in Sockets : AcceptOn(s) /\ newConnSocket' = s
    /\ main' = After(main)
    /\ UNCHANGED <<poolVars, requestVars, counters>>

Count ==
    /\ \/ main = "current" /\ addCurrentConnectionNumber
       \/ main = "total" /\ addTotalConnectionNumber
       \/ main = "received" /\ addTotalReceivedRequestNumber
    /\ main' = After(main)
    /\ UNCHANGED <<connVars, poolVars, requestVars, newConnSocket>>

Submit ==
    /\ main = "submit"
    /\ SubmitTask(newConnSocket)
    /\ newConnSocket' = NoSocket
    /\ main' = After(main)
    /\ UNCHANGED <<connVars, requestVars, counters>>

MainStep == Accept \/ AcceptFails \/ Count \/ Submit

----------------------------------------------------------------------------
\* The workers

\* onTaskFinished, its first call
SubCurrent(w) ==
    /\ step[w] = "callback"
    /\ subCurrentConnectionNumber
    /\ Goto(w, "respond")
    /\ UNCHANGED <<data, connVars, poolVars>>

\* onTaskFinished, its second call, and the end of the task
CountResponded(w) ==
    /\ step[w] = "respond"
    /\ addTotalRespondedRequestNumber
    /\ Finish(w)

WorkerStep(w) ==
    /\ \/ (WorkerStarts(w) /\ UNCHANGED <<requestVars, connVars, counters>>)
       \/ ((Take(w) \/ Handle(w)) /\ UNCHANGED counters)
       \/ SubCurrent(w)
       \/ CountResponded(w)
    /\ UNCHANGED <<main, newConnSocket>>

----------------------------------------------------------------------------
Next ==
    \/ MainStep
    \/ \E w \in Workers : WorkerStep(w)
    \/ /\ \E c \in Clients : ClientStep(c)
       /\ UNCHANGED <<poolVars, requestVars, counters, main, newConnSocket>>

Spec == Init /\ [][Next]_vars

\* The operating system runs every thread; the clients are as ClientFairness
\* has them.
Fairness ==
    /\ WF_vars(MainStep)
    /\ \A w \in Workers : WF_vars(WorkerStep(w))
    /\ ClientFairness

FairSpec == Spec /\ Fairness

----------------------------------------------------------------------------
\* The workers that will still use the socket of their task.
Using(s) == {w \in Workers : task[w] = s /\ step[w] \in {"recv", "send", "close"}}

\* The places of s in the task queue.
Queued(s) == {i \in DOMAIN taskQueue : taskQueue[i] = s}

\* Every open socket is in the hands of exactly one: the main thread until it
\* submits it, the task queue, or one worker until it closes it.  A socket
\* that is not open is in nobody's hands, though its number is used again: no
\* socket leaks, none is closed twice, and no task reads another's connection
\* (HttpServer_v1_1.h, 33-44; HttpResponse.h, 222-234).
OwnedOnce ==
    /\ TypeOK
    /\ \A s \in Sockets :
          Cardinality(Using(s)) + Cardinality(Queued(s))
              + (IF newConnSocket = s THEN 1 ELSE 0)
          = IF s \in Open THEN 1 ELSE 0

\* The current number of connections is off by exactly the connection the
\* main thread has accepted and not counted yet, and by the sockets closed
\* and not discounted yet.  Hence it never goes below zero, which an unsigned
\* counter cannot show (HttpServer.h, 126-145).
CurrentIsExact ==
    /\ currentConnectionNumber =
           Cardinality(Open) + Cardinality({w \in Workers : step[w] = "callback"})
           - (IF main = "current" THEN 1 ELSE 0)
    /\ currentConnectionNumber >= 0

\* Every connection is closed by the server in the end, and by then a good
\* request has been answered unless its client left: the bad and the endless
\* requests of others delay it but cannot keep every worker for good.
EveryoneIsServed ==
    \A c \in Clients :
        c \in connected ~>
            /\ c \in closed
            /\ Request[c].kind = "good" => c \in replied \cup left
=============================================================================
