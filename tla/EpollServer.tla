---------------------------- MODULE EpollServer ----------------------------
(***************************************************************************)
(* HttpServer_v3: the main thread waits in epoll_wait, accepts connections *)
(* and registers them edge-triggered, and submits one task for every event *)
(* of a registered connection; the callback of the task removes the        *)
(* registration after the task has closed the socket.                      *)
(*                                                                         *)
(* watched and ready are the kernel's: the interest list and the ready     *)
(* list of epfd.  An edge-triggered socket is ready when data or an end of *)
(* file arrives, or is there when it is registered; epoll_wait takes it    *)
(* off the list.  Closing a socket takes it off both.  accept returns the  *)
(* lowest free number.  The listening socket is level-triggered: it is     *)
(* ready while the backlog is not empty.                                   *)
(***************************************************************************)
EXTENDS HandleRequest

CONSTANTS listenSocket,
          MAX_EVENTS      \* how many events one epoll_wait can return

ASSUME EpollAssumption ==
    /\ Tasks = Sockets
    /\ NoTask = NoSocket
    /\ IsFiniteSet(Workers)
    /\ Sockets \subseteq Nat
    /\ listenSocket \notin Sockets
    /\ MAX_EVENTS \in Nat \ {0}

VARIABLES
    watched,    \* the connection sockets registered with epfd
    ready,      \* those of them on its ready list
    events,     \* what epoll_wait returned and the loop has not handled yet
    main,       \* where the main thread is
    client      \* the local variable of handleAccept

epollVars == <<watched, ready, events, main, client>>
vars == <<connVars, poolVars, requestVars, epollVars>>

TypeOK ==
    /\ ConnectionsTypeOK
    /\ PoolTypeOK
    /\ RequestTypeOK
    /\ watched \subseteq Open
    /\ ready \subseteq watched
    /\ events \subseteq Sockets \cup {listenSocket}
    /\ main \in {"epoll_wait", "dispatch", "accept", "epoll_ctl", "exit"}
    /\ client \in Sockets \cup {NoSocket}

Init ==
    /\ ConnectionsInit
    /\ PoolInit
    /\ RequestInit
    /\ watched = {}
    /\ ready = {}
    /\ events = {}
    /\ main = "epoll_wait"
    /\ client = NoSocket

\* recv on s would not block.
Readable(s) == unread[peer[s]] > 0 \/ peer[s] \in left

----------------------------------------------------------------------------
\* The main thread

\* epoll_wait(epfd, events, MAX_EVENTS, -1) returns what is ready, MAX_EVENTS
\* events at most: the rest stays on the list.  A socket on the ready list that
\* is not readable any more is dropped.
EpollWait ==
    LET list == {s \in ready : Readable(s)}
                  \cup (IF backlog # <<>> THEN {listenSocket} ELSE {}) IN
    /\ main = "epoll_wait"
    /\ \E batch \in SUBSET list \ {{}} :
          /\ batch = list \/ Cardinality(batch) = MAX_EVENTS
          /\ Cardinality(batch) <= MAX_EVENTS
          /\ events' = batch
          /\ ready' = (list \ batch) \ {listenSocket}
    /\ main' = "dispatch"
    /\ UNCHANGED <<connVars, poolVars, requestVars, watched, client>>

\* Mutant: only the first event of a batch is handled.
HandleFirst ==
    /\ main = "dispatch"
    /\ \E s \in events \cap Sockets : SubmitTask(s)
    /\ events' = {}
    /\ UNCHANGED <<connVars, requestVars, watched, ready, main, client>>

\* handleRead: one task for the event, whether or not the socket has one.
HandleRead ==
    /\ main = "dispatch"
    /\ \E s \in events \cap Sockets :
          /\ SubmitTask(s)
          /\ events' = events \ {s}
    /\ UNCHANGED <<connVars, requestVars, watched, ready, main, client>>

HandleAccept ==
    /\ main = "dispatch"
    /\ listenSocket \in events
    /\ events' = events \ {listenSocket}
    /\ main' = "accept"
    /\ UNCHANGED <<connVars, poolVars, requestVars, watched, ready, client>>

\* accept returns a connection, on the lowest number that is free.
Accept ==
    /\ main = "accept"
    /\ \E s \in Sockets :
          /\ AcceptOn(s)
          /\ LowestFree(s)
          /\ client' = s
    /\ main' = "epoll_ctl"
    /\ UNCHANGED <<poolVars, requestVars, watched, ready, events>>

\* EAGAIN, ECONNABORTED, or no number is free: handleAccept ends.
AcceptFails ==
    /\ main = "accept"
    /\ \/ (backlog = <<>> \/ Open = Sockets) /\ UNCHANGED connVars
       \/ AcceptAborted
    /\ main' = "dispatch"
    /\ UNCHANGED <<poolVars, requestVars, watched, ready, events, client>>

\* epoll_ctl(epfd, EPOLL_CTL_ADD, client, &ev) succeeds.
AddEvent ==
    /\ main = "epoll_ctl"
    /\ client \in Open
    /\ watched' = watched \cup {client}
    /\ ready' = IF Readable(client) THEN ready \cup {client} ELSE ready
    /\ client' = NoSocket
    /\ main' = "accept"
    /\ UNCHANGED <<connVars, poolVars, requestVars, events>>

\* It fails, as a task for an earlier connection on the same number closed it
\* after the accept, and handleAccept calls safeExit.
AddEventFails ==
    /\ main = "epoll_ctl"
    /\ client \notin Open
    /\ main' = "exit"
    /\ UNCHANGED <<connVars, poolVars, requestVars, watched, ready, events, client>>

\* Every event of the batch was handled.
BatchEnds ==
    /\ main = "dispatch"
    /\ events = {}
    /\ main' = "epoll_wait"
    /\ UNCHANGED <<connVars, poolVars, requestVars, watched, ready, events, client>>

MainStep ==
    EpollWait \/ HandleRead \/ HandleAccept \/ Accept \/ AcceptFails
        \/ AddEvent \/ AddEventFails \/ BatchEnds

----------------------------------------------------------------------------
\* The worker, and the clients

\* The kernel drops the registration of a socket that is closed.
Unwatch(S) ==
    /\ watched' = watched \ S
    /\ ready' = ready \ S

\* removeEvent, the callback: by then the number may be another connection's.
RemoveEvent(w) ==
    /\ step[w] = "callback"
    /\ Unwatch({task[w]})
    /\ Finish(w)

\* send to a client that reset the connection raises SIGPIPE, which nothing
\* handles (no MSG_NOSIGNAL, HttpResponse.h, 85): the process ends.
SendKills(w) ==
    /\ step[w] = "send"
    /\ task[w] \in Open
    /\ peer[task[w]] \in left
    /\ main' = "exit"
    /\ UNCHANGED <<connVars, poolVars, requestVars, watched, ready, events, client>>

WorkerStep(w) ==
    \/ /\ \/ /\ WorkerStarts(w)
             /\ UNCHANGED <<requestVars, connVars, watched, ready>>
          \/ /\ Take(w) \/ Recv(w) \/ RecvThrows(w) \/ Send(w)
             /\ UNCHANGED <<watched, ready>>
          \/ Close(w) /\ Unwatch({task[w]})
          \/ RemoveEvent(w)
       /\ UNCHANGED <<events, main, client>>
    \/ SendKills(w)

\* What a client does puts its socket on the ready list when it makes the
\* socket readable.
ClientActs(c) ==
    /\ \/ Connect(c) /\ UNCHANGED ready
       \/ /\ SendSegment(c) \/ Leave(c)
          /\ ready' = ready \cup {s \in watched : peer[s] = c}
    /\ UNCHANGED <<poolVars, requestVars, watched, events, main, client>>

----------------------------------------------------------------------------
\* Nothing runs once the process has exited.
Next ==
    /\ main # "exit"
    /\ \/ MainStep
       \/ \E w \in Workers : WorkerStep(w)
       \/ \E c \in Clients : ClientActs(c)

Spec == Init /\ [][Next]_vars

\* What is on the ready list is returned in the order of the list, so a socket
\* that is ready again and again is returned some day.
Fairness ==
    /\ WF_vars(MainStep)
    /\ \A s \in Sockets : SF_vars(main # "exit" /\ EpollWait /\ s \in events')
    /\ \A w \in Workers : WF_vars(main # "exit" /\ WorkerStep(w))
    /\ ClientFairness

FairSpec == Spec /\ Fairness

----------------------------------------------------------------------------
\* A task for s is queued, or its worker has not closed s yet.
Pending(s) ==
    \/ \E i \in DOMAIN taskQueue : taskQueue[i] = s
    \/ \E w \in Workers : task[w] = s /\ step[w] \in {"idle", "recv", "send", "close"}

\* No edge is lost: a registered socket with something to read is on the
\* ready list, among the events still to be handled, or has a task coming.
\* An edge-triggered event is reported once, so a connection for which this
\* fails would wait until its client sends more (HttpServer_v3.cpp, 79-140).
NoLostEdge ==
    /\ TypeOK
    /\ \A s \in watched : Readable(s) => s \in ready \cup events \/ Pending(s)

\* Data that arrived on a registered connection is taken care of: the
\* connection is closed after a response or a failure, or loses its
\* registration, unless the process exits.
ArrivedIsHandled ==
    \A s \in Sockets :
        (s \in watched /\ Readable(s)) ~> (s \notin watched \/ main = "exit")

\* The comment of handleAccept, "add the new socket to the listening list"
\* (HttpServer_v3.cpp, 125): an accepted connection is on it until it is
\* closed.
WatchedUntilClosed ==
    \A s \in Open : s \in watched \/ s = client
=============================================================================
