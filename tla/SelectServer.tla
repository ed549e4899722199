---------------------------- MODULE SelectServer ----------------------------
(***************************************************************************)
(* HttpServer_v2: the main thread selects on the listening socket and the  *)
(* connections it watches, for a second at most.  In each round it builds  *)
(* the set for the next one: connections without an event are kept, those  *)
(* that are readable go to the pool, and accepted ones are added.          *)
(*                                                                         *)
(* The listening socket does not block, and the sockets accepted on it do  *)
(* not either (Winsock): recv with nothing there is an error.  The loops   *)
(* over fd_array take the sockets in any order here.                       *)
(***************************************************************************)
EXTENDS HttpServer, HandleRequest

CONSTANTS listenSocket,
          FD_SETSIZE,         \* how many sockets an fd_set holds
          MaxSelectErrors     \* bound: how often select fails

\* There are enough numbers that accept never fails for want of one.
ASSUME SelectServerAssumption ==
    /\ IsFiniteSet(Clients)
    /\ Cardinality(Sockets) >= Cardinality(Clients)
    /\ Tasks = Sockets
    /\ NoTask = NoSocket
    /\ IsFiniteSet(Workers)
    /\ Sockets \subseteq Nat
    /\ FD_SETSIZE \in Nat \ {0}
    /\ MaxSelectErrors \in Nat
    /\ listenSocket \notin Sockets \cup {NoSocket}

VARIABLES
    to_be_checked_fds,       \* what this round selects on
    new_to_be_checked_fds,   \* what the next one will
    readable_fds,            \* what select left in its copies of the first
    exceptional_fds,
    todo,                    \* the sockets the loop of the round has still to visit
    fdSeats,                 \* the rounds left to the accept loop
    main,                    \* where the main thread is
    forgotten,               \* connections in no set after an error of select
    selectErrors

setVars == <<to_be_checked_fds, new_to_be_checked_fds, readable_fds, exceptional_fds>>
mainVars == <<todo, fdSeats, main, forgotten, selectErrors>>
vars == <<connVars, poolVars, requestVars, counters, setVars, mainVars>>

Watchable == Sockets \cup {listenSocket}

TypeOK ==
    /\ ConnectionsTypeOK
    /\ PoolTypeOK
    /\ RequestTypeOK
    /\ \A set \in {to_be_checked_fds, new_to_be_checked_fds, readable_fds,
                   exceptional_fds, todo} :
          set \subseteq Watchable /\ Cardinality(set) <= FD_SETSIZE
    /\ fdSeats \in 0..FD_SETSIZE
    /\ main \in {"select", "timeout", "loop", "accept", "exit"}
    /\ forgotten \subseteq Sockets
    /\ selectErrors \in 0..MaxSelectErrors

Init ==
    /\ ConnectionsInit
    /\ PoolInit
    /\ RequestInit
    /\ CountersInit
    /\ to_be_checked_fds = {listenSocket}
    /\ new_to_be_checked_fds = {}
    /\ readable_fds = {}
    /\ exceptional_fds = {}
    /\ todo = {}
    /\ fdSeats = 0
    /\ main = "select"
    /\ forgotten = {}
    /\ selectErrors = 0

\* FD_SET: a full set stays as it is.
FdSet(s, set) == IF Cardinality(set) < FD_SETSIZE THEN set \cup {s} ELSE set

----------------------------------------------------------------------------
\* select

ReadReady ==
    {s \in to_be_checked_fds :
        IF s = listenSocket THEN backlog # <<>>
        ELSE unread[peer[s]] > 0 \/ peer[s] \in left}

\* Mutant: the round is given up with the listening socket still in the set.
ListenOnlyAgain ==
    /\ main = "select"
    /\ ReadReady = {listenSocket}
    /\ Cardinality(to_be_checked_fds) > 1
    /\ UNCHANGED vars

\* Only the listening socket has an event, and there are others to wait for:
\* the next select is without it.
ListenOnly ==
    /\ main = "select"
    /\ ReadReady = {listenSocket}
    /\ Cardinality(to_be_checked_fds) > 1
    /\ to_be_checked_fds' = to_be_checked_fds \ {listenSocket}
    /\ UNCHANGED <<connVars, poolVars, requestVars, counters, readable_fds,
                   exceptional_fds, new_to_be_checked_fds, mainVars>>

\* Mutant: one seat more.
SeatTooMany == FD_SETSIZE - Cardinality(to_be_checked_fds) + 1

Seats == FD_SETSIZE - Cardinality(to_be_checked_fds)

\* select returned events, out-of-band data among them: the loop begins.
SelectReturns ==
    /\ main = "select"
    /\ ReadReady # {}
    /\ ReadReady = {listenSocket} => to_be_checked_fds = {listenSocket}
    /\ readable_fds' = ReadReady
    /\ \E S \in SUBSET {s \in ReadReady \cap Sockets : unread[peer[s]] > 0} :
          exceptional_fds' = S
    /\ todo' = to_be_checked_fds
    /\ fdSeats' = Seats
    /\ main' = "loop"
    /\ UNCHANGED <<connVars, poolVars, requestVars, counters, to_be_checked_fds,
                   new_to_be_checked_fds, forgotten, selectErrors>>

\* select returned 0: nothing had an event for a second.
SelectTimesOut ==
    /\ main = "select"
    /\ ReadReady = {}
    /\ todo' = to_be_checked_fds \ {listenSocket}
    /\ main' = "timeout"
    /\ UNCHANGED <<connVars, poolVars, requestVars, counters, setVars, fdSeats,
                   forgotten, selectErrors>>

\* select failed, but not with WSAENOTSOCK: the next set is the empty one.
SelectFails ==
    /\ main = "select"
    /\ selectErrors < MaxSelectErrors
    /\ selectErrors' = selectErrors + 1
    /\ forgotten' = forgotten \cup (to_be_checked_fds \ {listenSocket})
    /\ to_be_checked_fds' = {listenSocket}
    /\ UNCHANGED <<connVars, poolVars, requestVars, counters,
                   new_to_be_checked_fds, readable_fds, exceptional_fds, todo,
                   fdSeats, main>>

----------------------------------------------------------------------------
\* The loops over the sockets of the round

\* closeSocket, after the time-out or for a socket with an exception.
CloseWatched ==
    /\ \E s \in todo \cap Sockets :
          /\ main = "timeout" \/ (main = "loop" /\ s \in exceptional_fds)
          /\ CloseSocket(s)
          /\ todo' = todo \ {s}
    /\ UNCHANGED <<poolVars, requestVars, counters, setVars, fdSeats, main,
                   forgotten, selectErrors>>

\* Mutant: a readable connection is kept in the set too.
SubmitAndKeep ==
    /\ main = "loop"
    /\ \E s \in (todo \cap Sockets \cap readable_fds) \ exceptional_fds :
          /\ addTotalReceivedRequestNumber
          /\ SubmitTask(s)
          /\ todo' = todo \ {s}
          /\ new_to_be_checked_fds' = FdSet(s, new_to_be_checked_fds)
    /\ UNCHANGED <<connVars, requestVars, to_be_checked_fds, readable_fds,
                   exceptional_fds, fdSeats, main, forgotten, selectErrors>>

\* A readable connection: it is counted and its task submitted.
Submit ==
    /\ main = "loop"
    /\ \E s \in (todo \cap Sockets \cap readable_fds) \ exceptional_fds :
          /\ addTotalReceivedRequestNumber
          /\ SubmitTask(s)
          /\ todo' = todo \ {s}
    /\ UNCHANGED <<connVars, requestVars, setVars, fdSeats, main, forgotten,
                   selectErrors>>

\* No event: a connection goes to the next set.
Keep ==
    /\ main = "loop"
    /\ \E s \in todo \ (readable_fds \cup exceptional_fds) :
          /\ new_to_be_checked_fds' =
                 IF s = listenSocket THEN new_to_be_checked_fds
                 ELSE FdSet(s, new_to_be_checked_fds)
          /\ todo' = todo \ {s}
    /\ UNCHANGED <<connVars, poolVars, requestVars, counters, to_be_checked_fds,
                   readable_fds, exceptional_fds, fdSeats, main, forgotten,
                   selectErrors>>

BeginAccept ==
    /\ main = "loop"
    /\ listenSocket \in todo \cap readable_fds
    /\ todo' = todo \ {listenSocket}
    /\ main' = "accept"
    /\ UNCHANGED <<connVars, poolVars, requestVars, counters, setVars, fdSeats,
                   forgotten, selectErrors>>

\* accept returns a connection.  Its two counts are one step here with it:
\* no other thread can have the socket yet.  The least free number stands for
\* whichever Winsock gives: a closed number is used again as soon as can be.
AcceptOne ==
    /\ main = "accept"
    /\ fdSeats > 0
    /\ \E s \in Sockets :
          /\ AcceptOn(s)
          /\ LowestFree(s)
          /\ new_to_be_checked_fds' = FdSet(s, new_to_be_checked_fds)
          /\ forgotten' = forgotten \ {s}
    /\ currentConnectionNumber' = currentConnectionNumber + 1
    /\ totalConnectionNumber' = totalConnectionNumber + 1
    /\ fdSeats' = fdSeats - 1
    /\ UNCHANGED <<poolVars, requestVars, totalReceivedRequestNumber,
                   totalRespondedRequestNumber, to_be_checked_fds, readable_fds,
                   exceptional_fds, todo, main, selectErrors>>

\* WSAEWOULDBLOCK, or no seat is left.
AcceptEnds ==
    /\ main = "accept"
    /\ fdSeats = 0 \/ backlog = <<>>
    /\ main' = "loop"
    /\ UNCHANGED <<connVars, poolVars, requestVars, counters, setVars, todo,
                   fdSeats, forgotten, selectErrors>>

\* Any other error of accept, a connection reset before it was accepted among
\* them: safeExit.
AcceptKills ==
    /\ main = "accept"
    /\ fdSeats > 0
    /\ AcceptAborted
    /\ main' = "exit"
    /\ UNCHANGED <<poolVars, requestVars, counters, setVars, todo, fdSeats,
                   forgotten, selectErrors>>

\* The sets for the next round.  What select had left is overwritten before it
\* is read again.
EndRound ==
    /\ main \in {"loop", "timeout"}
    /\ todo = {}
    /\ to_be_checked_fds' = FdSet(listenSocket, new_to_be_checked_fds)
    /\ new_to_be_checked_fds' = {}
    /\ readable_fds' = {}
    /\ exceptional_fds' = {}
    /\ fdSeats' = 0
    /\ main' = "select"
    /\ UNCHANGED <<connVars, poolVars, requestVars, counters, todo, forgotten,
                   selectErrors>>

MainStep ==
    \/ ListenOnly \/ SelectReturns \/ SelectTimesOut \/ SelectFails
    \/ CloseWatched \/ Submit \/ Keep
    \/ BeginAccept \/ AcceptOne \/ AcceptEnds \/ AcceptKills \/ EndRound

----------------------------------------------------------------------------
\* The workers, and the clients

\* recv returns WSAEWOULDBLOCK, as the rest of the request is not there yet,
\* and recvData throws.
RecvWouldBlock(w) ==
    /\ step[w] = "recv"
    /\ task[w] \in Open
    /\ unread[peer[task[w]]] = 0
    /\ peer[task[w]] \notin left
    /\ Goto(w, "close")
    /\ UNCHANGED <<data, connVars, poolVars>>

\* onTaskFinished, the callback, and the end of the task
TaskFinished(w) ==
    /\ step[w] = "callback"
    /\ currentConnectionNumber' = currentConnectionNumber - 1
    /\ totalRespondedRequestNumber' = totalRespondedRequestNumber + 1
    /\ UNCHANGED <<totalConnectionNumber, totalReceivedRequestNumber>>
    /\ Finish(w)

WorkerStep(w) ==
    /\ \/ (WorkerStarts(w) /\ UNCHANGED <<requestVars, connVars, counters>>)
       \/ ((Take(w) \/ Handle(w) \/ RecvWouldBlock(w)) /\ UNCHANGED counters)
       \/ TaskFinished(w)
    /\ UNCHANGED <<setVars, mainVars>>

ClientActs(c) ==
    /\ ClientStep(c)
    /\ UNCHANGED <<poolVars, requestVars, counters, setVars, mainVars>>

Next ==
    /\ main # "exit"
    /\ \/ MainStep
       \/ \E w \in Workers : WorkerStep(w)
       \/ \E c \in Clients : ClientActs(c)

Spec == Init /\ [][Next]_vars

\* Every thread runs.  Nothing is assumed of the clients.
Fairness ==
    /\ WF_vars(MainStep)
    /\ \A w \in Workers : WF_vars(main # "exit" /\ WorkerStep(w))

FairSpec == Spec /\ Fairness

----------------------------------------------------------------------------
\* The connections the main thread has in this round or keeps for the next.
Watched ==
    (IF main = "select" THEN to_be_checked_fds ELSE todo \cup new_to_be_checked_fds)
        \ {listenSocket}

Queued(s) == {k \in DOMAIN taskQueue : taskQueue[k] = s}
Using(s) == {w \in Workers : task[w] = s /\ step[w] \in {"recv", "send", "close"}}

\* Every open connection is watched, or queued, or in the hands of one worker,
\* and is that once, unless an error of select made the server forget it;
\* nothing closed is.  So no set that select gets has a closed socket in it
\* (and select never fails with WSAENOTSOCK, HttpServer_v2.h, 46-50), though
\* the set is rebuilt in every round, and no worker reads from a socket while
\* the main thread waits for it (78-147).
WatchedOrOwned ==
    /\ TypeOK
    /\ \A s \in Sockets :
          Cardinality(Queued(s)) + Cardinality(Using(s))
              + (IF s \in Watched THEN 1 ELSE 0)
          = IF s \in Open \ forgotten THEN 1 ELSE 0

\* A round that went through its loop watches the listening socket in the next
\* one: fdSeats (78) leaves a place for it in the set, whatever was accepted
\* and kept before.  FD_SET would drop it without a word.
ListenStaysWatched ==
    [][main' = "select" /\ main # "select" => listenSocket \in to_be_checked_fds']_vars

\* A connection the server accepted is closed in the end, answered, failed or
\* timed out, whatever the clients do, unless the server exits or an error of
\* select made it forget the connection: leaving out the listening socket
\* (67-73) gives idle connections their time-out when clients keep coming.
AcceptedIsClosed ==
    \A c \in Clients :
        (\E s \in Open : peer[s] = c) ~>
            \/ c \in closed
            \/ main = "exit"
            \/ \E s \in forgotten : peer[s] = c

\* currentConnectionNumber is "the number of connections at present"
\* (HttpServer.h, 26): between two rounds, with no task queued or running, it
\* is the number of open sockets.
CurrentWhenQuiet ==
    (main = "select" /\ taskQueue = <<>> /\ \A w \in Workers : step[w] = "idle") =>
        currentConnectionNumber = Cardinality(Open)
=============================================================================
