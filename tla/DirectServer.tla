---------------------------- MODULE DirectServer ----------------------------
(***************************************************************************)
(* The two servers without a pool, HttpServer_v0 and HttpServer_v1.  v0    *)
(* handles each connection in the thread that accepts; v1 starts a thread  *)
(* for each.  The sockets block.  Both count before they look at what      *)
(* accept returned: v0 skips a failed accept then, v1 starts a thread for  *)
(* it.  In v1 an exception skips closeSocket and the counts.               *)
(*                                                                         *)
(* The variable version says which server runs.                            *)
(***************************************************************************)
EXTENDS HttpRequest, Statistics

CONSTANTS Threads,          \* the threads of v1; v0 uses one, for its own
          MaxAcceptErrors   \* bound: how often accept fails for want of a number

\* A thread can always be started.
ASSUME DirectServerAssumption ==
    /\ IsFiniteSet(Clients)
    /\ MaxAcceptErrors \in Nat
    /\ Threads \subseteq Nat /\ IsFiniteSet(Threads)
    /\ Cardinality(Threads) >= Cardinality(Clients) + MaxAcceptErrors

VARIABLES
    version,
    main,                 \* where the main thread is in the loop of run()
    newConnSocket,        \* its local variable; NoSocket is INVALID_SOCKET
    connSocket,           \* connSocket[t]: the socket of thread t
    step,                 \* step[t]: where thread t is
    data,                 \* data[t]: how much of the request its recvData has
    currentWorkerNumber,
    acceptErrors          \* how often accept failed

threadVars == <<connSocket, step, data, currentWorkerNumber>>
mainVars == <<version, main, newConnSocket, acceptErrors>>
vars == <<connVars, counters, statVars, threadVars, mainVars>>

Steps == {"none", "addWorker", "recv", "send", "close", "responded", "sub",
          "subWorker"}

TypeOK ==
    /\ ConnectionsTypeOK
    /\ StatTypeOK
    /\ version \in {"v0", "v1"}
    /\ main \in {"accept", "count", "serve", "wait"}
    /\ newConnSocket \in Sockets \cup {NoSocket}
    /\ connSocket \in [Threads -> Sockets \cup {NoSocket}]
    /\ step \in [Threads -> Steps]
    /\ data \in [Threads -> Nat]
    /\ currentWorkerNumber \in 0..Cardinality(Threads)

Init ==
    /\ ConnectionsInit
    /\ CountersInit
    /\ StatInit
    /\ version \in {"v0", "v1"}
    /\ main = "accept"
    /\ newConnSocket = NoSocket
    /\ connSocket = [t \in Threads |-> NoSocket]
    /\ step = [t \in Threads |-> "none"]
    /\ data = [t \in Threads |-> 0]
    /\ currentWorkerNumber = 0
    /\ acceptErrors = 0

----------------------------------------------------------------------------
\* The main thread

Accept ==
    /\ main = "accept"
    /\ \E s \in Sockets : AcceptOn(s) /\ LowestFree(s) /\ newConnSocket' = s
    /\ main' = "count"
    /\ UNCHANGED <<version, acceptErrors>>

\* The connection was reset, or no number is left.
AcceptFails ==
    /\ main = "accept"
    /\ \/ AcceptAborted
       \/ /\ Open = Sockets
          /\ acceptErrors < MaxAcceptErrors
          /\ UNCHANGED connVars
    /\ acceptErrors' = acceptErrors + 1
    /\ newConnSocket' = NoSocket
    /\ main' = "count"
    /\ UNCHANGED version

\* v1 counts the current connection first and the request last, v0 the other
\* way round: one step here, as no other thread changes or reads the two totals.
Count ==
    /\ main = "count"
    /\ currentConnectionNumber' = currentConnectionNumber + 1
    /\ totalConnectionNumber' = totalConnectionNumber + 1
    /\ totalReceivedRequestNumber' = totalReceivedRequestNumber + 1
    /\ main' = "serve"
    /\ UNCHANGED <<totalRespondedRequestNumber, version, newConnSocket, acceptErrors>>

\* Any thread that does not exist yet: which one makes no difference.
Begin(first) ==
    \E t \in Threads :
        /\ step[t] = "none"
        /\ \A u \in Threads : step[u] = "none" => t <= u
        /\ connSocket' = [connSocket EXCEPT ![t] = newConnSocket]
        /\ step' = [step EXCEPT ![t] = first]

\* v1 starts worker_main, whatever accept returned.
StartThread ==
    /\ version = "v1"
    /\ main = "serve"
    /\ Begin("addWorker")
    /\ newConnSocket' = NoSocket
    /\ main' = "accept"
    /\ UNCHANGED <<version, acceptErrors, data, currentWorkerNumber>>

\* v0 calls HandleRequest, unless accept failed.
HandleHere ==
    /\ version = "v0"
    /\ main = "serve"
    /\ IF newConnSocket = NoSocket
       THEN main' = "accept" /\ UNCHANGED threadVars
       ELSE main' = "wait" /\ Begin("recv") /\ UNCHANGED <<data, currentWorkerNumber>>
    /\ newConnSocket' = NoSocket
    /\ UNCHANGED <<version, acceptErrors>>

MainStep ==
    /\ \/ (Accept \/ AcceptFails) /\ UNCHANGED <<counters, threadVars>>
       \/ Count /\ UNCHANGED <<connVars, threadVars>>
       \/ (StartThread \/ HandleHere) /\ UNCHANGED <<connVars, counters>>
    /\ UNCHANGED statVars

----------------------------------------------------------------------------
\* The thread that handles a connection: worker_main of v1, or HandleRequest
\* and what follows it in run() of v0.

Goto(t, next) == step' = [step EXCEPT ![t] = next]

\* Mutants: v0 has no handler for the exception; v1 counts the connection out
\* that it leaves open.
CaughtLeaves == "subWorker"
CaughtCounts == IF version = "v0" THEN "close" ELSE "sub"

\* After an exception HandleRequest still closes; worker_main only leaves.
Caught == IF version = "v0" THEN "close" ELSE "subWorker"

AddWorkerNumber(t) ==
    /\ step[t] = "addWorker"
    /\ currentWorkerNumber' = currentWorkerNumber + 1
    /\ Goto(t, "recv")
    /\ UNCHANGED <<connVars, counters, connSocket, data>>

Recv(t) ==
    LET s == connSocket[t] c == peer[s] IN
    /\ step[t] = "recv"
    /\ s # NoSocket
    /\ Receive(s)
    /\ data' = [data EXCEPT ![t] = @ + unread[c]]
    /\ Goto(t, IF ~isAllData(c, data'[t]) THEN "recv"
               ELSE IF parseRawDataThrows(c) THEN Caught ELSE "send")
    /\ UNCHANGED <<counters, connSocket, currentWorkerNumber>>

\* Mutant: the end of the client's data is not seen, and recv is called again.
RecvIgnoresEnd(t) ==
    /\ step[t] = "recv"
    /\ connSocket[t] = NoSocket
    /\ Goto(t, Caught)
    /\ UNCHANGED <<connVars, counters, connSocket, data, currentWorkerNumber>>

\* recv returns 0 or fails, as it does at once on INVALID_SOCKET.
RecvThrows(t) ==
    /\ step[t] = "recv"
    /\ ReceiveFails(connSocket[t])
    /\ Goto(t, Caught)
    /\ UNCHANGED <<connVars, counters, connSocket, data, currentWorkerNumber>>

Send(t) ==
    /\ step[t] = "send"
    /\ SendTo(connSocket[t])
    /\ Goto(t, "close")
    /\ UNCHANGED <<counters, connSocket, data, currentWorkerNumber>>

Close(t) ==
    /\ step[t] = "close"
    /\ CloseSocket(connSocket[t])
    /\ Goto(t, "responded")
    /\ UNCHANGED <<counters, connSocket, data, currentWorkerNumber>>

CountResponded(t) ==
    /\ step[t] = "responded"
    /\ addTotalRespondedRequestNumber
    /\ Goto(t, "sub")
    /\ UNCHANGED <<connVars, connSocket, data, currentWorkerNumber>>

\* The end of the thread, or of its life as the handler in v0.
End(t) ==
    /\ connSocket' = [connSocket EXCEPT ![t] = NoSocket]
    /\ data' = [data EXCEPT ![t] = 0]

SubCurrent(t) ==
    /\ step[t] = "sub"
    /\ subCurrentConnectionNumber
    /\ IF version = "v0"
       THEN End(t) /\ Goto(t, "none")
       ELSE UNCHANGED <<connSocket, data>> /\ Goto(t, "subWorker")
    /\ UNCHANGED <<connVars, currentWorkerNumber>>

SubWorkerNumber(t) ==
    /\ step[t] = "subWorker"
    /\ currentWorkerNumber' = currentWorkerNumber - 1
    /\ End(t)
    /\ Goto(t, "none")
    /\ UNCHANGED <<connVars, counters>>

ThreadStep(t) ==
    /\ \/ AddWorkerNumber(t) \/ Recv(t) \/ RecvThrows(t) \/ Send(t) \/ Close(t)
       \/ CountResponded(t) \/ SubCurrent(t) \/ SubWorkerNumber(t)
    /\ main' = IF main = "wait" /\ step'[t] = "none" THEN "accept" ELSE main
    /\ UNCHANGED <<statVars, version, newConnSocket, acceptErrors>>

----------------------------------------------------------------------------
Next ==
    \/ MainStep
    \/ \E t \in Threads : ThreadStep(t)
    \/ RecorderStep /\ UNCHANGED <<connVars, counters, threadVars, mainVars>>
    \/ /\ \E c \in Clients : ClientStep(c)
       /\ UNCHANGED <<counters, statVars, threadVars, mainVars>>

Spec == Init /\ [][Next]_vars

\* The operating system runs every thread; the clients are as ClientFairness
\* has them.
FairSpec ==
    /\ Spec
    /\ WF_vars(MainStep)
    /\ \A t \in Threads : WF_vars(ThreadStep(t))
    /\ ClientFairness

----------------------------------------------------------------------------
\* The open sockets no thread will use or close any more.
Leaked ==
    {s \in Open : s # newConnSocket /\ \A t \in Threads :
        connSocket[t] # s \/ step[t] \notin {"addWorker", "recv", "send", "close"}}

InUse(s) == {t \in Threads : connSocket[t] = s
                             /\ step[t] \in {"addWorker", "recv", "send", "close"}}

\* v0 leaks no socket.  v1 does, after an exception only: what it leaves open
\* had no response.  And no socket is used by two threads or used after it was
\* closed, though numbers are used again (HttpServer_v0.h, 20-27;
\* HttpServer_v1.h, 22-28 and 60-68).
LeakedOnlyByException ==
    /\ version = "v0" => Leaked = {}
    /\ \A s \in Leaked : peer[s] \notin replied
    /\ \A s \in Sockets :
          Cardinality(InUse(s)) <= 1 /\ (InUse(s) # {} => s \in Open)

\* As long as no accept has failed the current connection number is the number
\* of open sockets, the leaked ones among them, but for what a thread has closed
\* and not counted out, or accepted and not counted yet; and it is never below
\* zero, failed accepts or not (HttpServer_v0.h, 20-29; HttpServer_v1.h, 22-24
\* and 60-74).  After a failed accept it is not "the number of connections at
\* present" (HttpServer.h, 26) any more: FailedAcceptsStayCounted.
\* The worker number of v1 is the number of its threads between their first
\* and their last call, exception or not (HttpServer_v1.h, 54 and 74).
CountersAreExact ==
    /\ TypeOK
    /\ currentConnectionNumber \in Nat
    /\ acceptErrors = 0 =>
           currentConnectionNumber =
               Cardinality(Open)
               + Cardinality({t \in Threads : step[t] \in {"responded", "sub"}})
               - (IF main = "count" THEN 1 ELSE 0)
    /\ currentWorkerNumber =
           IF version = "v0" THEN 0
           ELSE Cardinality({t \in Threads : step[t] \notin {"none", "addWorker"}})

\* No response is in two lines of stat.txt, though the total is read twice in
\* a round while other threads count (HttpServer.h, 88 and 92).
RecordedOnce == recorded <= totalRespondedRequestNumber

\* A good request is answered, or its client leaves: in v0 as long as every
\* client before it finishes or leaves, in v1 unless exceptions have leaked
\* every number accept could give.
GoodIsAnswered ==
    \A c \in {x \in Clients : Request[x].kind = "good"} :
        c \in connected ~> c \in replied \cup left \/ Leaked = Sockets
=============================================================================
