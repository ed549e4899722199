------------------------------ MODULE Reactor ------------------------------
(***************************************************************************)
(* The single-threaded server of v2_2_reactor: Reactor and its             *)
(* SelectDemultiplexer, and the handlers Acceptor, ReadHandler and         *)
(* WriteHandler.  A connection is registered for reading, then, with its   *)
(* request received, for writing, and is closed once it is answered.       *)
(*                                                                         *)
(* The listening socket does not block, and the sockets accepted on it do  *)
(* not either (Winsock): recv with nothing there is an error.              *)
(***************************************************************************)
EXTENDS HttpServer, HttpRequest, SequencesExt

CONSTANTS listenSocket,
          FD_SETSIZE       \* how many sockets an fd_set holds

ASSUME ReactorAssumption ==
    /\ FD_SETSIZE \in Nat \ {0}
    /\ listenSocket \notin Sockets \cup {NoSocket}

VARIABLES
    read_set,      \* fd_array of the set of sockets registered for reading
    write_set,     \* and of the one for writing
    r_set, w_set,  \* what select left in its copies of them: the ready ones
    handlers,      \* Reactor's map: the handler of each connection socket
    spareNumber,   \* how many more connections the Acceptor takes
    main,          \* where the thread is
    i,             \* the index of the loop of waitEvents it is in
    j,             \* the index of the loop of Acceptor::handleEvent
    data           \* how much of a request recvData has

setVars == <<read_set, write_set, r_set, w_set, handlers, spareNumber>>
vars == <<connVars, counters, setVars, main, i, j, data>>

Handlers == {"none", "ReadHandler", "WriteHandler"}

TypeOK ==
    /\ ConnectionsTypeOK
    /\ read_set \in Seq(Sockets \cup {listenSocket})
    /\ write_set \in Seq(Sockets)
    /\ Len(read_set) <= FD_SETSIZE /\ Len(write_set) <= FD_SETSIZE
    /\ r_set \subseteq Sockets \cup {listenSocket}
    /\ w_set \subseteq Sockets
    /\ handlers \in [Sockets -> Handlers]
    /\ spareNumber \in 0..FD_SETSIZE
    /\ main \in {"select", "read", "accept", "recv", "write", "close", "timeout"}
    /\ i \in 1..(FD_SETSIZE + 1)
    /\ j \in 0..FD_SETSIZE
    /\ data \in Nat

Init ==
    /\ ConnectionsInit
    /\ CountersInit
    /\ read_set = <<listenSocket>>
    /\ write_set = <<>>
    /\ r_set = {}
    /\ w_set = {}
    /\ handlers = [s \in Sockets |-> "none"]
    /\ spareNumber = FD_SETSIZE - 1
    /\ main = "select"
    /\ i = 1
    /\ j = 0
    /\ data = 0

\* FD_SET and FD_CLR.  FD_CLR removes one entry, and what follows it moves down
\* by one index.
FdSet(s, set) == IF Len(set) < FD_SETSIZE THEN Append(set, s) ELSE set
FdClr(s, set) == RemoveFirst(set, s)

----------------------------------------------------------------------------
\* SelectDemultiplexer::waitEvents

\* What select finds ready.  A connection with an empty send buffer is always
\* ready for writing.
ReadReady ==
    {s \in ToSet(read_set) : IF s = listenSocket THEN backlog # <<>>
                             ELSE unread[peer[s]] > 0 \/ peer[s] \in left}

Select ==
    /\ main = "select"
    /\ ReadReady # {} \/ write_set # <<>>
    /\ r_set' = ReadReady
    /\ w_set' = ToSet(write_set)
    /\ main' = "read"
    /\ i' = 1
    /\ UNCHANGED <<connVars, counters, read_set, write_set, handlers,
                   spareNumber, j, data>>

\* select returned 0: nothing was ready for a second.
SelectTimesOut ==
    /\ main = "select"
    /\ ReadReady = {} /\ write_set = <<>>
    /\ main' = "timeout"
    /\ i' = 1
    /\ UNCHANGED <<connVars, counters, setVars, j, data>>

\* The three loops run their index over an array that they change.  Each ends
\* when the index is past the end, and skips what is not for it.
EndLoop ==
    /\ \/ main = "read" /\ i > Len(read_set) /\ main' = "write"
       \/ main = "write" /\ i > Len(write_set) /\ main' = "select"
       \/ main = "timeout" /\ i > Len(read_set) /\ main' = "select"
    /\ i' = 1
    /\ UNCHANGED <<connVars, counters, setVars, j, data>>

Skip ==
    /\ \/ /\ main = "read" /\ i <= Len(read_set)
          /\ read_set[i] \notin r_set \/ (read_set[i] = listenSocket /\ spareNumber = 0)
       \/ main = "write" /\ i <= Len(write_set) /\ write_set[i] \notin w_set
       \/ main = "timeout" /\ i <= Len(read_set) /\ read_set[i] = listenSocket
    /\ i' = i + 1
    /\ UNCHANGED <<connVars, counters, setVars, main, j, data>>

\* handlers[read_set.fd_array[i]]->handleEvent()
HandleRead ==
    /\ main = "read"
    /\ i <= Len(read_set)
    /\ read_set[i] \in r_set
    /\ \/ /\ read_set[i] = listenSocket
          /\ spareNumber > 0
          /\ main' = "accept"
       \/ /\ read_set[i] # listenSocket
          /\ handlers[read_set[i]] = "ReadHandler"
          /\ main' = "recv"
    /\ j' = 0
    /\ data' = 0
    /\ UNCHANGED <<connVars, counters, setVars, i>>

----------------------------------------------------------------------------
\* Acceptor

\* onConnectionClosed
OnConnectionClosed ==
    /\ subCurrentConnectionNumber
    /\ spareNumber' = spareNumber + 1

\* One round of the loop of handleEvent whose accept succeeds.  j grows while
\* spareNumber, the bound of the loop, shrinks.
AcceptOne ==
    /\ main = "accept"
    /\ j < spareNumber
    /\ \E s \in Sockets :
          /\ AcceptOn(s)
          /\ read_set' = FdSet(s, read_set)
          /\ handlers' = [handlers EXCEPT ![s] = "ReadHandler"]
    /\ currentConnectionNumber' = currentConnectionNumber + 1
    /\ totalConnectionNumber' = totalConnectionNumber + 1
    /\ totalReceivedRequestNumber' = totalReceivedRequestNumber + 1
    /\ spareNumber' = spareNumber - 1
    /\ j' = j + 1
    /\ UNCHANGED <<totalRespondedRequestNumber, write_set, r_set, w_set, main,
                   i, data>>

\* accept fails on a connection that was reset, and the loop goes on.
AcceptError ==
    /\ main = "accept"
    /\ j < spareNumber
    /\ AcceptAborted
    /\ j' = j + 1
    /\ UNCHANGED <<counters, setVars, main, i, data>>

\* WSAEWOULDBLOCK, or the end of the loop.
AcceptEnds ==
    /\ main = "accept"
    /\ j >= spareNumber \/ backlog = <<>>
    /\ main' = "read"
    /\ i' = i + 1
    /\ UNCHANGED <<connVars, counters, setVars, j, data>>

----------------------------------------------------------------------------
\* ReadHandler, for the socket at index i

\* recv returns a part of the request.
RecvPart ==
    LET s == read_set[i] IN
    /\ main = "recv"
    /\ Receive(s)
    /\ ~isAllData(peer[s], data + unread[peer[s]])
    /\ data' = data + unread[peer[s]]
    /\ UNCHANGED <<counters, setVars, main, i, j>>

\* Mutant: the new handler is registered before the old one is removed, and
\* removeHandler erases it.
RegisterFirst ==
    LET s == read_set[i] IN
    /\ main = "recv"
    /\ Receive(s)
    /\ isAllData(peer[s], data + unread[peer[s]])
    /\ ~parseRawDataThrows(peer[s])
    /\ read_set' = FdClr(s, read_set)
    /\ write_set' = FdSet(s, write_set)
    /\ handlers' = [handlers EXCEPT ![s] = "none"]
    /\ main' = "read"
    /\ i' = i + 1
    /\ UNCHANGED <<counters, r_set, w_set, spareNumber, j, data>>

\* The request is complete and parsed: the socket changes its handler.
ReadSucceeds ==
    LET s == read_set[i] IN
    /\ main = "recv"
    /\ Receive(s)
    /\ isAllData(peer[s], data + unread[peer[s]])
    /\ ~parseRawDataThrows(peer[s])
    /\ read_set' = FdClr(s, read_set)
    /\ write_set' = FdSet(s, write_set)
    /\ handlers' = [handlers EXCEPT ![s] = "WriteHandler"]
    /\ main' = "read"
    /\ i' = i + 1
    /\ UNCHANGED <<counters, r_set, w_set, spareNumber, j, data>>

\* Mutant: handleError only removes the handler.
ErrorKeepsSocket ==
    LET s == read_set[i] c == peer[s] IN
    /\ main = "recv"
    /\ \/ c \in left
       \/ unread[c] = 0
       \/ isAllData(c, data + unread[c]) /\ parseRawDataThrows(c)
    /\ read_set' = FdClr(s, read_set)
    /\ handlers' = [handlers EXCEPT ![s] = "none"]
    /\ main' = "read"
    /\ i' = i + 1
    /\ UNCHANGED <<connVars, counters, write_set, r_set, w_set, spareNumber, j, data>>

\* recv fails (the client is gone, or nothing is there: WSAEWOULDBLOCK) or
\* the parser throws: handleError, which does not call onConnectionClosed.
HandleError ==
    LET s == read_set[i] c == peer[s] IN
    /\ main = "recv"
    /\ \/ c \in left
       \/ unread[c] = 0
       \/ isAllData(c, data + unread[c]) /\ parseRawDataThrows(c)
    /\ read_set' = FdClr(s, read_set)
    /\ handlers' = [handlers EXCEPT ![s] = "none"]
    /\ CloseSocket(s)
    /\ main' = "read"
    /\ i' = i + 1
    /\ UNCHANGED <<counters, write_set, r_set, w_set, spareNumber, j, data>>

----------------------------------------------------------------------------
\* WriteHandler, for the socket at index i

\* The response, and the callback.
Respond ==
    /\ main = "write"
    /\ i <= Len(write_set)
    /\ write_set[i] \in w_set
    /\ SendTo(write_set[i])
    /\ OnConnectionClosed
    /\ main' = "close"
    /\ UNCHANGED <<read_set, write_set, r_set, w_set, handlers, i, j, data>>

\* removeHandler, closeSocket, and the next index.
CloseAnswered ==
    LET s == write_set[i] IN
    /\ main = "close"
    /\ write_set' = FdClr(s, write_set)
    /\ handlers' = [handlers EXCEPT ![s] = "none"]
    /\ CloseSocket(s)
    /\ main' = "write"
    /\ i' = i + 1
    /\ UNCHANGED <<counters, read_set, r_set, w_set, spareNumber, j, data>>

\* Mutant: handleReadTimeout does not close the socket.
TimeoutKeepsSocket ==
    LET s == read_set[i] IN
    /\ main = "timeout"
    /\ i <= Len(read_set)
    /\ s # listenSocket
    /\ read_set' = FdClr(s, read_set)
    /\ handlers' = [handlers EXCEPT ![s] = "none"]
    /\ OnConnectionClosed
    /\ i' = i + 1
    /\ UNCHANGED <<connVars, write_set, r_set, w_set, main, j, data>>

\* handleReadTimeout
HandleReadTimeout ==
    LET s == read_set[i] IN
    /\ main = "timeout"
    /\ i <= Len(read_set)
    /\ s # listenSocket
    /\ CloseSocket(s)
    /\ read_set' = FdClr(s, read_set)
    /\ handlers' = [handlers EXCEPT ![s] = "none"]
    /\ OnConnectionClosed
    /\ i' = i + 1
    /\ UNCHANGED <<write_set, r_set, w_set, main, j, data>>

----------------------------------------------------------------------------
Step ==
    \/ Select \/ SelectTimesOut \/ EndLoop \/ Skip \/ HandleRead
    \/ AcceptOne \/ AcceptError \/ AcceptEnds
    \/ RecvPart \/ ReadSucceeds \/ HandleError
    \/ Respond \/ CloseAnswered \/ HandleReadTimeout

ClientActs(c) ==
    /\ ClientStep(c)
    /\ UNCHANGED <<counters, setVars, main, i, j, data>>

Next == Step \/ \E c \in Clients : ClientActs(c)

Spec == Init /\ [][Next]_vars

\* The one thread runs.  Nothing is assumed of the clients.
FairSpec == Spec /\ WF_vars(Step)

----------------------------------------------------------------------------
\* Every open connection has exactly one handler and is once in the set that
\* goes with it, and nothing that is closed is left in a set or in the map: a
\* connection would be forgotten, select would fail on a closed socket (and
\* the server exit, SelectDemultiplexer.h, 65-67), or a null handler be called.
RegisteredOnce ==
    /\ TypeOK
    /\ \A s \in Sockets :
          /\ s \in Open <=> handlers[s] # "none"
          /\ Cardinality({k \in DOMAIN read_set : read_set[k] = s})
                 = IF handlers[s] = "ReadHandler" THEN 1 ELSE 0
          /\ Cardinality({k \in DOMAIN write_set : write_set[k] = s})
                 = IF handlers[s] = "WriteHandler" THEN 1 ELSE 0

\* A good request of c, sent and received to its end.
Whole(c) == Request[c].kind = "good" /\ sent[c] = Request[c].segments /\ unread[c] = 0

\* What recvData has collected is all that the client behind its index sent but
\* for what has not been received yet; a connection is registered for writing
\* with a whole request only, and is that still when the response is sent in a
\* later loop, whatever was closed, accepted and moved in the arrays before
\* (ReadHandler.h, 30-42; WriteHandler.h, 21-22).
AnswersWhatWasSent ==
    /\ main = "recv" =>
          LET c == peer[read_set[i]] IN data + unread[c] = sent[c]
    /\ \A s \in Sockets : handlers[s] = "WriteHandler" => Whole(peer[s])
    /\ \A c \in replied : Whole(c)

\* The Acceptor never takes more connections than the sets have room for, as
\* registerHandler ignores that regist may refuse one (Reactor.h, 62-66;
\* Acceptor.h, 39-53).  The callback comes before the close (WriteHandler.h,
\* 24-31): for that moment there is one less than spareNumber says.
SpareIsThere ==
    spareNumber + Cardinality(Open)
        <= FD_SETSIZE - 1 + (IF main = "close" THEN 1 ELSE 0)

\* The log line "no free space for select" (SelectDemultiplexer.h, 88-89):
\* when the Acceptor has no spare number left, the sets are full.
NoSpareWhenFull == spareNumber = 0 => Cardinality(Open) = FD_SETSIZE - 1

\* Whatever its client does, or does not do, an accepted connection is closed
\* in the end: answered, failed or timed out, if not by the time-out whose loop
\* skips it, against the comment at SelectDemultiplexer.h, 70, then by a later
\* one.  That is so unless the Acceptor has no spare number left while one more
\* client waits: select then reports the listening socket every time, the
\* Acceptor does not take it, and an idle connection never times out (87-90).  The number is also used up with sets that are not
\* full, as handleError never gives a place back (NoSpareWhenFull): the escape
\* is the counter and not the sets.
ClosedUnlessNoSpare ==
    \A c \in Clients :
        (\E s \in Sockets : peer[s] = c) ~>
            c \in closed \/ (spareNumber = 0 /\ backlog # <<>>)
=============================================================================
