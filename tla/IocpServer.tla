----------------------------- MODULE IocpServer -----------------------------
(***************************************************************************)
(* The two servers with an I/O completion port, HttpServer_v4 and          *)
(* HttpServer_v4_1.  Every operation is posted to the kernel with an       *)
(* IO_DATA; its completion is queued at the port with the number of bytes, *)
(* or as a failure; the worker that takes it out continues by the opCode.  *)
(* v4 accepts in the main thread and posts one WSARecv; v4_1 posts         *)
(* AcceptEx for a few sockets and a WSARecv when one completes.            *)
(*                                                                         *)
(* handleRequest sends with HttpResponse::httpSend, which blocks and posts *)
(* nothing (IOCPHttpResponse::httpSend hides it and is never called).  The *)
(* workers' branch for SEND_FINISHED is in the model, as the steps         *)
(* "reply", "sub" and "repost", but as the code is no worker gets there.   *)
(*                                                                         *)
(* The variable version says which server runs.                            *)
(***************************************************************************)
EXTENDS HttpServer, HttpRequest

CONSTANTS Workers,     \* the threads that run t_worker or worker_main
          IoData,      \* the addresses new IO_DATA can return
          NoData,
          nPosted      \* how many sockets v4_1 posts: the cores and one more

\* new and socket() do not fail.
ASSUME IocpServerAssumption ==
    /\ IsFiniteSet(Clients) /\ IsFiniteSet(Workers)
    /\ IoData \subseteq Nat /\ IsFiniteSet(IoData)
    /\ Sockets \subseteq Nat
    /\ NoData \notin IoData
    /\ nPosted \in Nat \ {0}
    /\ Cardinality(IoData) >= nPosted
    /\ Cardinality(IoData) >= Cardinality(Clients)
    /\ Cardinality(Sockets) >= nPosted

VARIABLES
    version,
    main,           \* where the main thread is in run()
    client,         \* its local variable; NoSocket is INVALID_SOCKET
    posted,         \* how many AcceptEx calls v4_1 has made
    allocated,      \* the IO_DATA that exist
    socketOf,       \* socketOf[d]: its field client
    opCode,         \* opCode[d]: its field opCode
    kernel,         \* the IO_DATA of the operations that are pending
    port,           \* the completion port: a queue of completions
    bound,          \* the sockets associated with the port
    step,           \* step[w]: where worker w is
    pIoData,        \* pIoData[w]: its local variable
    size,           \* size[w]: dwIoSize, in segments
    missed          \* auxiliary: the IO_DATA whose operation completed in the
                    \* time between postAccept of their socket and its binding

ioVars == <<allocated, socketOf, opCode, kernel, port, bound>>
workerVars == <<step, pIoData, size>>
mainVars == <<version, main, client, posted>>
vars == <<connVars, counters, ioVars, workerVars, mainVars, missed>>

\* dwIoSize of a completion for which GetQueuedCompletionStatus returns FALSE
Failed == -1

TypeOK ==
    /\ ConnectionsTypeOK
    /\ version \in {"v4", "v4_1"}
    /\ main \in {"accept", "count", "post", "bind", "wait", "exit"}
    /\ client \in Sockets \cup {NoSocket}
    /\ posted \in 0..nPosted
    /\ allocated \subseteq IoData
    /\ socketOf \in [IoData -> Sockets \cup {NoSocket}]
    /\ opCode \in [IoData -> {"NEW_ACCEPT", "RECV_FINISHED", "SEND_FINISHED"}]
    /\ kernel \subseteq allocated
    /\ port \in Seq([data : allocated, size : Nat \cup {Failed}])
    /\ bound \subseteq Sockets
    /\ step \in [Workers -> {"get", "post", "log", "handle", "send", "close",
                             "reply", "sub", "delete", "repost"}]
    /\ pIoData \in [Workers -> IoData \cup {NoData}]
    /\ size \in [Workers -> Nat]
    /\ missed \subseteq IoData

Init ==
    /\ ConnectionsInit
    /\ CountersInit
    /\ \/ version = "v4" /\ main = "accept"
       \/ version = "v4_1" /\ main = "post"
    /\ client = NoSocket
    /\ posted = 0
    /\ allocated = {}
    /\ socketOf = [d \in IoData |-> NoSocket]
    /\ opCode = [d \in IoData |-> "NEW_ACCEPT"]
    /\ kernel = {}
    /\ port = <<>>
    /\ bound = {}
    /\ step = [w \in Workers |-> "get"]
    /\ pIoData = [w \in Workers |-> NoData]
    /\ size = [w \in Workers |-> 0]
    /\ missed = {}

----------------------------------------------------------------------------
\* IO_DATA

\* new IO_DATA, filled for an operation on s.  Which address new returns makes
\* no difference.
New(d, s, op) ==
    /\ d \notin allocated
    /\ \A e \in IoData \ allocated : d <= e
    /\ allocated' = allocated \cup {d}
    /\ socketOf' = [socketOf EXCEPT ![d] = s]
    /\ opCode' = [opCode EXCEPT ![d] = op]

\* The completion of d's operation: it goes to the port its socket is bound to.
Complete(d, n) ==
    /\ kernel' = kernel \ {d}
    /\ port' = Append(port, [data |-> d, size |-> n])

----------------------------------------------------------------------------
\* The kernel.  A client that is gone has closed its end, which ends the data,
\* or has reset the connection, which fails the operation.

\* A connection is given to a socket of a pending AcceptEx.
AcceptTakes(d) ==
    /\ d \in kernel
    /\ opCode[d] = "NEW_ACCEPT"
    /\ AcceptOn(socketOf[d])
    /\ UNCHANGED ioVars

\* AcceptEx has room for 36 bytes of data, so it completes with the first of
\* them: the first segment, or the beginning of it.
AcceptCompletes(d) ==
    LET s == socketOf[d] c == peer[s] IN
    /\ d \in kernel
    /\ opCode[d] = "NEW_ACCEPT"
    /\ s \in Open
    /\ \/ /\ unread[c] > 0
          /\ \E rest \in {unread[c] - 1, unread[c]} :
                unread' = [unread EXCEPT ![c] = rest]
          /\ Complete(d, 1)
       \/ /\ c \in left
          /\ \E n \in {0, Failed} : (n = 0 => unread[c] = 0) /\ Complete(d, n)
          /\ UNCHANGED unread
    /\ UNCHANGED <<backlog, peer, sent, connected, left, closed, replied,
                   allocated, socketOf, opCode, bound>>

\* WSARecv completes: with what has arrived, with 0, or with an error.  A
\* socket that is not bound to the port has nowhere to report it.
RecvCompletes(d) ==
    LET s == socketOf[d] c == peer[s] IN
    /\ d \in kernel
    /\ opCode[d] = "RECV_FINISHED"
    /\ \E n \in {unread[c], Failed} :
          /\ n = Failed => c \in left
          /\ n = 0 => c \in left
          /\ IF n > 0 THEN Receive(s) ELSE UNCHANGED connVars
          /\ IF s \in bound THEN Complete(d, n)
             ELSE kernel' = kernel \ {d} /\ UNCHANGED port
    /\ missed' = IF s \notin bound /\ main = "bind" /\ client = s
                 THEN missed \cup {d} ELSE missed
    /\ UNCHANGED <<allocated, socketOf, opCode, bound>>

KernelStep ==
    /\ \E d \in IoData :
          \/ (AcceptTakes(d) \/ AcceptCompletes(d)) /\ UNCHANGED missed
          \/ RecvCompletes(d)
    /\ UNCHANGED <<counters, workerVars, mainVars>>

----------------------------------------------------------------------------
\* The main thread of v4

Accept ==
    /\ main = "accept"
    /\ \/ \E s \in Sockets : AcceptOn(s) /\ LowestFree(s) /\ client' = s
       \/ AcceptAborted /\ client' = NoSocket
    /\ main' = "count"
    /\ UNCHANGED <<counters, ioVars, workerVars, version, posted>>

\* Accepted or failed, it is counted.  No other thread reads the totals.
Count ==
    /\ main = "count"
    /\ currentConnectionNumber' = currentConnectionNumber + 1
    /\ totalConnectionNumber' = totalConnectionNumber + 1
    /\ totalReceivedRequestNumber' = totalReceivedRequestNumber + 1
    /\ main' = "post"
    /\ UNCHANGED <<totalRespondedRequestNumber, connVars, ioVars, workerVars,
                   version, client, posted>>

\* INVALID_SOCKET cannot be bound.  The log line that says so lacks an argument
\* for its first %s: what it reads may be printed, or end the process.
BindFails ==
    /\ version = "v4"
    /\ main = "post"
    /\ client = NoSocket
    /\ main' \in {"accept", "exit"}
    /\ UNCHANGED <<connVars, counters, ioVars, workerVars, version, client,
                   posted>>

\* The socket is bound, and its receive posted.
PostRecv ==
    /\ version = "v4"
    /\ main = "post"
    /\ client # NoSocket
    /\ bound' = bound \cup {client}
    /\ \E d \in IoData : New(d, client, "RECV_FINISHED") /\ kernel' = kernel \cup {d}
    /\ client' = NoSocket
    /\ main' = "accept"
    /\ UNCHANGED <<connVars, counters, port, workerVars, version, posted>>

\* WSARecv fails: the socket is closed, and the new IO_DATA deleted.
PostRecvFails ==
    /\ version = "v4"
    /\ main = "post"
    /\ client # NoSocket
    /\ peer[client] \in left
    /\ CloseSocket(client)
    /\ client' = NoSocket
    /\ main' = "accept"
    /\ UNCHANGED <<counters, ioVars, workerVars, version, posted>>

\* The IO_DATA whose socket was not closed yet, and these sockets.
Pending == {d \in allocated : \A w \in Workers :
               pIoData[w] = d => step[w] \notin {"sub", "delete", "repost"}}
Created == {socketOf[d] : d \in Pending}

\* createSocket returns s.
IsCreated(s) == s \notin Created /\ \A t \in Sockets \ Created : s <= t

\* The main thread of v4_1: a socket is created, and AcceptEx posted for it.
PostAccept ==
    /\ version = "v4_1"
    /\ main = "post"
    /\ \E s \in Sockets, d \in IoData :
          /\ IsCreated(s)
          /\ client' = s
          /\ New(d, s, "NEW_ACCEPT")
          /\ kernel' = kernel \cup {d}
    /\ posted' = posted + 1
    /\ main' = "bind"
    /\ UNCHANGED <<connVars, counters, port, bound, workerVars, version>>

\* Mutant: the binding comes after the loop, for the last socket only.
BindLast ==
    /\ main = "bind"
    /\ bound' = IF posted < nPosted THEN bound ELSE bound \cup ({client} \cap Created)
    /\ client' = NoSocket
    /\ main' = IF posted < nPosted THEN "post" ELSE "wait"
    /\ UNCHANGED <<connVars, counters, allocated, socketOf, opCode, kernel,
                   port, workerVars, version, posted>>

\* Then the socket is bound to the port.  If a worker has closed it already
\* this fails, and to close it once more has no effect.
BindPosted ==
    /\ main = "bind"
    /\ bound' = bound \cup ({client} \cap Created)
    /\ client' = NoSocket
    /\ main' = IF posted < nPosted THEN "post" ELSE "wait"
    /\ UNCHANGED <<connVars, counters, allocated, socketOf, opCode, kernel,
                   port, workerVars, version, posted>>

MainStep ==
    /\ \/ Accept \/ Count \/ BindFails \/ PostRecv \/ PostRecvFails
       \/ PostAccept \/ BindPosted
    /\ UNCHANGED missed

----------------------------------------------------------------------------
\* The workers

Goto(w, next) == step' = [step EXCEPT ![w] = next]

\* Where a worker goes with a completion of n segments: v4 looks at n first and
\* v4_1 at the opCode, but no NEW_ACCEPT is v4's.
Branch(d, n) ==
    CASE opCode[d] = "NEW_ACCEPT" -> "post"
      [] opCode[d] = "RECV_FINISHED" -> IF n = 0 THEN "close" ELSE "handle"
      [] opCode[d] = "SEND_FINISHED" ->
            IF version = "v4" /\ n = 0 THEN "close" ELSE "reply"

\* Mutant: a completion stays at the port for the other worker to see.
GetAndKeep(w) ==
    LET d == Head(port).data n == Head(port).size IN
    /\ step[w] = "get"
    /\ port # <<>>
    /\ n # Failed
    /\ pIoData' = [pIoData EXCEPT ![w] = d]
    /\ size' = [size EXCEPT ![w] = n]
    /\ Goto(w, Branch(d, n))
    /\ UNCHANGED <<connVars, counters, ioVars>>

\* GetQueuedCompletionStatus.  After a failed operation the IO_DATA is dropped.
\* A receive without data means that the client is gone.
Get(w) ==
    LET d == Head(port).data n == Head(port).size IN
    /\ step[w] = "get"
    /\ port # <<>>
    /\ port' = Tail(port)
    /\ IF n = Failed
       THEN UNCHANGED <<workerVars, opCode>>
       ELSE /\ pIoData' = [pIoData EXCEPT ![w] = d]
            /\ size' = [size EXCEPT ![w] = n]
            /\ Goto(w, Branch(d, n))
            /\ opCode' = IF opCode[d] = "RECV_FINISHED" /\ n > 0
                         THEN [opCode EXCEPT ![d] = "SEND_FINISHED"] ELSE opCode
    /\ UNCHANGED <<connVars, counters, allocated, socketOf, kernel, bound>>

\* v4_1, NEW_ACCEPT: the receive, into the buffer the first data are in.
RepostRecv(w) ==
    LET d == pIoData[w] IN
    /\ step[w] = "post"
    /\ opCode' = [opCode EXCEPT ![d] = "RECV_FINISHED"]
    /\ \/ kernel' = kernel \cup {d} /\ Goto(w, "log")
       \/ peer[socketOf[d]] \in left /\ Goto(w, "close") /\ UNCHANGED kernel
    /\ UNCHANGED <<connVars, counters, allocated, socketOf, port, bound,
                   pIoData, size>>

\* The log line after it reads the IO_DATA once more.
LogPosted(w) ==
    /\ step[w] = "log"
    /\ Goto(w, "get")
    /\ pIoData' = [pIoData EXCEPT ![w] = NoData]
    /\ size' = [size EXCEPT ![w] = 0]
    /\ UNCHANGED <<connVars, counters, ioVars>>

\* Mutant: a part of a request is dropped, in the hope of the rest.
HandleWhole(w) ==
    LET c == peer[socketOf[pIoData[w]]] IN
    /\ step[w] = "handle"
    /\ Goto(w, IF ~isAllData(c, size[w]) THEN "get"
               ELSE IF parseRawDataThrows(c) THEN "close" ELSE "send")
    /\ UNCHANGED <<connVars, counters, ioVars, pIoData, size>>

\* HttpRequest on what one receive brought.  In v4 a part of a request throws
\* unless it holds the whole header; v4_1 has lost the beginning, and what is
\* left may or may not look like a request.
Handle(w) ==
    LET c == peer[socketOf[pIoData[w]]]
        whole == isAllData(c, size[w])
    IN
    /\ step[w] = "handle"
    /\ \/ /\ version = "v4" => parseRawDataThrows(c) \/ ~whole
          /\ Goto(w, "close")
       \/ /\ version = "v4" => ~parseRawDataThrows(c)
          /\ Goto(w, "send")
    /\ UNCHANGED <<connVars, counters, ioVars, pIoData, size>>

\* The response is sent, and nothing is posted: back to the port.
Send(w) ==
    /\ step[w] = "send"
    /\ SendTo(socketOf[pIoData[w]])
    /\ Goto(w, "get")
    /\ pIoData' = [pIoData EXCEPT ![w] = NoData]
    /\ size' = [size EXCEPT ![w] = 0]
    /\ UNCHANGED <<counters, ioVars>>

\* Mutant: no continue, so that the request is handled all the same.
CloseNoContinue(w) ==
    /\ step[w] = "close"
    /\ CloseSocket(socketOf[pIoData[w]])
    /\ bound' = bound \ {socketOf[pIoData[w]]}
    /\ Goto(w, IF size[w] = 0 THEN "handle" ELSE "delete")
    /\ UNCHANGED <<counters, allocated, socketOf, opCode, kernel, port,
                   pIoData, size>>

\* closeSocket: the client is gone (v4 counts it out), or there was an error,
\* or SEND_FINISHED reports that the reply was sent (both count it out).
Close(w) ==
    /\ step[w] \in {"close", "reply"}
    /\ CloseSocket(socketOf[pIoData[w]])
    /\ bound' = bound \ {socketOf[pIoData[w]]}
    /\ Goto(w, IF step[w] = "reply" \/ (version = "v4" /\ size[w] = 0)
               THEN "sub" ELSE "delete")
    /\ UNCHANGED <<counters, allocated, socketOf, opCode, kernel, port,
                   pIoData, size>>

\* After a reply v4 counts the response too, and v4_1 will post an accept.
SubCurrent(w) ==
    LET answered == opCode[pIoData[w]] = "SEND_FINISHED" /\ size[w] > 0 IN
    /\ step[w] = "sub"
    /\ currentConnectionNumber' = currentConnectionNumber - 1
    /\ totalRespondedRequestNumber' = totalRespondedRequestNumber
                                        + (IF version = "v4" /\ answered THEN 1 ELSE 0)
    /\ Goto(w, IF version = "v4_1" THEN "repost" ELSE "delete")
    /\ UNCHANGED <<totalConnectionNumber, totalReceivedRequestNumber, connVars,
                   ioVars, pIoData, size>>

\* delete pIoData.  v4_1, after a reply: createSocket and postAccept, whose new
\* IO_DATA is taken to have the address just freed; the socket is not bound.
Delete(w) ==
    LET d == pIoData[w] IN
    /\ step[w] \in {"delete", "repost"}
    /\ opCode' = [opCode EXCEPT ![d] = "NEW_ACCEPT"]
    /\ IF step[w] = "repost"
       THEN /\ \E s \in Sockets :
                  IsCreated(s) /\ socketOf' = [socketOf EXCEPT ![d] = s]
            /\ kernel' = kernel \cup {d}
            /\ UNCHANGED allocated
       ELSE /\ allocated' = allocated \ {d}
            /\ socketOf' = [socketOf EXCEPT ![d] = NoSocket]
            /\ UNCHANGED kernel
    /\ Goto(w, "get")
    /\ pIoData' = [pIoData EXCEPT ![w] = NoData]
    /\ size' = [size EXCEPT ![w] = 0]
    /\ UNCHANGED <<connVars, counters, port, bound>>

WorkerStep(w) ==
    /\ \/ Get(w) \/ RepostRecv(w) \/ LogPosted(w) \/ Handle(w) \/ Send(w)
       \/ Close(w) \/ SubCurrent(w) \/ Delete(w)
    /\ UNCHANGED <<mainVars, missed>>

----------------------------------------------------------------------------
ClientActs(c) ==
    /\ ClientStep(c)
    /\ UNCHANGED <<counters, ioVars, workerVars, mainVars, missed>>

Next ==
    /\ main # "exit"
    /\ \/ MainStep \/ KernelStep
       \/ \E w \in Workers : WorkerStep(w)
       \/ \E c \in Clients : ClientActs(c)

Spec == Init /\ [][Next]_vars

\* The threads run, and the kernel completes what can be completed.  Nothing
\* is assumed of the clients.
FairSpec ==
    /\ Spec
    /\ WF_vars(main # "exit" /\ MainStep)
    /\ WF_vars(main # "exit" /\ KernelStep)
    /\ \A w \in Workers : WF_vars(main # "exit" /\ WorkerStep(w))

----------------------------------------------------------------------------
\* The workers that act on d, but for the log line of v4_1.
Using(d) == {w \in Workers : pIoData[w] = d /\ step[w] # "log"}

Queued(d) == {k \in DOMAIN port : port[k].data = d}

\* The IO_DATA nobody has any more, and that will never be deleted.
Lost == {d \in allocated : d \notin kernel /\ Queued(d) = {} /\ Using(d) = {}}

\* An IO_DATA is in one place: pending in the kernel, queued at the port, or
\* used by one worker.  One that was deleted is nowhere: no operation completes
\* into freed memory, and no worker uses or deletes it a second time
\* (HttpServer_v4.h, 67-124, 184-191; HttpServer_v4_1.h, 164-257).
InOnePlace ==
    /\ TypeOK
    /\ \A d \in IoData :
          Cardinality(Queued(d)) + Cardinality(Using(d))
              + (IF d \in kernel THEN 1 ELSE 0)
          <= IF d \in allocated THEN 1 ELSE 0

\* Until its worker closes it, the socket of an IO_DATA is open and is no other
\* one's, though numbers are used again as soon as they are closed: no worker
\* answers or closes another's connection (HttpServer_v4.h, 70, 97-103).
SocketIsItsOwn ==
    \A d \in Pending :
        /\ opCode[d] # "NEW_ACCEPT" => socketOf[d] \in Open
        /\ \A e \in Pending \ {d} : socketOf[e] # socketOf[d]

\* What is lost, with its socket left open, is an IO_DATA that was answered and
\* posted for nothing else, though a comment says that its socket is closed
\* then (HttpServer_v4.h, 116; HttpServer_v4_1.h, 247), or whose operation failed as
\* its client had left (HttpServer_v4.h, 53-56), or whose receive completed
\* before the main thread had bound the socket it had posted the accept for
\* (HttpServer_v4_1.h, 111-116): a receive on a socket that is not bound at any
\* other time would be lost without a reason.
LostForAReason ==
    \A d \in Lost :
        /\ socketOf[d] \in Open
        /\ \/ opCode[d] = "SEND_FINISHED" /\ peer[socketOf[d]] \in replied \cup left
           \/ opCode[d] # "SEND_FINISHED" /\ peer[socketOf[d]] \in left
           \/ d \in missed

\* In v4 a client that sent something and stays is answered or has its
\* connection closed, whatever the other clients do: idle ones hold no worker.
SentIsHandled ==
    \A c \in {x \in Clients : Request[x].segments > 0} :
        (version = "v4" /\ sent[c] > 0) ~>
            c \in replied \cup closed \cup left \/ main = "exit"
=============================================================================
