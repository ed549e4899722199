------------------------- MODULE EpollServerProofs -------------------------
(***************************************************************************)
(* What TLC checks of EpollServer on two sockets and one worker, proved    *)
(* for any number of clients and sockets: the types and that no edge is    *)
(* lost, with any number of workers, sockets and events in one batch, and  *)
(* what the one worker of the Linux build collects and answers.            *)
(*                                                                         *)
(* EdgeIsKept is nearly inductive. It needs that a batch of events is      *)
(* empty when epoll_wait is called again, and that an idle worker has no   *)
(* task: a task taken over one that is still there would lose its edge.    *)
(*                                                                         *)
(* A task may outlive its socket here, so the invariant of the second      *)
(* part, ReadInv, has no owners of sockets in it: it says of every         *)
(* connection that nothing of it has been received unless the worker is    *)
(* at it.                                                                  *)
(***************************************************************************)
EXTENDS EpollServer, FiniteSetTheorems, TLAPS

\* The types of the connections, with what closed and replied need to stay
\* subsets of connected: only who connected is in the listen queue or a peer.
ConnectionTypes ==
    /\ ConnectionsTypeOK
    /\ sent \in [Clients -> Nat]
    /\ unread \in [Clients -> Nat]
    /\ \A k \in 1..Len(backlog) : backlog[k] \in connected
    /\ \A s \in Sockets : peer[s] \in connected \cup {NoClient}

Steps == {"idle", "recv", "send", "close", "callback", "respond"}

\* The types of the pool and of the tasks, where a worker has no task exactly
\* while it is idle.
WorkerTypes ==
    /\ taskQueue \in Seq(Sockets)
    /\ task \in [Workers -> Sockets \cup {NoSocket}]
    /\ worker \in [Workers -> {"start", "getTask", "task"}]
    /\ step \in [Workers -> Steps]
    /\ data \in [Workers -> Nat]
    /\ \A w \in Workers : worker[w] = "task" <=> step[w] # "idle"
    /\ \A w \in Workers : step[w] = "idle" <=> task[w] = NoSocket

EpollTypes ==
    /\ watched \subseteq Open
    /\ ready \subseteq watched
    /\ events \subseteq Sockets \cup {listenSocket}
    /\ main \in {"epoll_wait", "dispatch", "accept", "epoll_ctl", "exit"}
    /\ client \in Sockets \cup {NoSocket}
    /\ main = "epoll_wait" => events = {}
    /\ main = "epoll_ctl" => client # NoSocket

Types == ConnectionTypes /\ WorkerTypes /\ EpollTypes

\* NoLostEdge, without the types.
EdgeIsKept == \A s \in watched : Readable(s) => s \in ready \cup events \/ Pending(s)

Started == {w \in Workers : worker[w] # "start"}

WorkersAreCounted == currentWorkerNumber = Cardinality(Started)

IndInv == Types /\ EdgeIsKept /\ WorkersAreCounted

----------------------------------------------------------------------------
LEMMA InitInv == Init => IndInv
<1> SUFFICES ASSUME Init PROVE IndInv
    OBVIOUS
<1> USE ConnectionsAssumption, EpollAssumption
    DEF Init, ConnectionsInit, PoolInit, RequestInit, Queue!Init
<1>1. ConnectionTypes
    BY DEF ConnectionTypes, ConnectionsTypeOK
<1>2. WorkerTypes
    BY DEF WorkerTypes, Steps
<1>3. EpollTypes /\ EdgeIsKept
    BY DEF EpollTypes, EdgeIsKept
<1>4. WorkersAreCounted
    <2>1. Started = {}
        BY DEF Started
    <2> QED BY <2>1, FS_EmptySet DEF WorkersAreCounted
<1> QED BY <1>1, <1>2, <1>3, <1>4 DEF IndInv, Types

----------------------------------------------------------------------------
\* Every call and every act of a client keeps the types of the connections.
LEMMA ConnectionsKeepTypes ==
    ASSUME ConnectionTypes,
           \/ AcceptAborted
           \/ \E s \in Sockets : AcceptOn(s) \/ Receive(s) \/ SendTo(s) \/ CloseSocket(s)
           \/ \E c \in Clients : ClientStep(c)
           \/ UNCHANGED connVars
    PROVE  ConnectionTypes'
<1> USE ConnectionsAssumption DEF ConnectionTypes, ConnectionsTypeOK
<1>0. ASSUME backlog # <<>>, backlog' = Tail(backlog)
      PROVE  /\ Head(backlog) = backlog[1] /\ Head(backlog) \in connected
             /\ backlog' \in Seq(Clients)
             /\ \A k \in 1..Len(backlog') :
                   backlog'[k] = backlog[k + 1] /\ k + 1 \in 1..Len(backlog)
    BY <1>0
<1>1. CASE AcceptAborted
    <2>1. /\ backlog' \in Seq(Clients) /\ closed' \subseteq connected
          /\ \A k \in 1..Len(backlog') : backlog'[k] \in connected
          /\ UNCHANGED <<peer, sent, unread, connected, left, replied>>
        BY <1>0, <1>1 DEF AcceptAborted
    <2> QED BY <2>1
<1>2. ASSUME NEW s \in Sockets, AcceptOn(s) PROVE ConnectionTypes'
    <2>1. /\ backlog' \in Seq(Clients)
          /\ \A k \in 1..Len(backlog') : backlog'[k] \in connected
          /\ peer' = [peer EXCEPT ![s] = Head(backlog)]
          /\ Head(backlog) \in connected
          /\ UNCHANGED <<sent, unread, connected, left, closed, replied>>
        BY <1>0, <1>2 DEF AcceptOn
    <2> QED BY <2>1
<1>3. ASSUME NEW s \in Sockets, Receive(s) PROVE ConnectionTypes'
    BY <1>3 DEF Receive, Open
<1>4. ASSUME NEW s \in Sockets, SendTo(s) PROVE ConnectionTypes'
    BY <1>4 DEF SendTo
<1>5. ASSUME NEW s \in Sockets, CloseSocket(s) PROVE ConnectionTypes'
    BY <1>5 DEF CloseSocket
<1>6. ASSUME NEW c \in Clients, ClientStep(c) PROVE ConnectionTypes'
    <2>1. CASE Connect(c)
        BY <2>1 DEF Connect
    <2>2. CASE SendSegment(c)
        BY <2>2 DEF SendSegment
    <2>3. CASE Leave(c)
        BY <2>3 DEF Leave
    <2> QED BY <1>6, <2>1, <2>2, <2>3 DEF ClientStep
<1>7. CASE UNCHANGED connVars
    BY <1>7 DEF connVars
<1> QED BY <1>1, <1>2, <1>3, <1>4, <1>5, <1>6, <1>7

\* An edge that was there, or has a task coming, still is or has, when nothing
\* becomes readable, is registered, taken off or handled to the end.
LEMMA EdgesStay ==
    ASSUME EdgeIsKept,
           \A s \in watched' : s \in watched /\ (Readable(s)' => Readable(s)),
           \A s \in watched' : s \in ready \cup events => s \in ready' \cup events',
           \A s \in watched' : Pending(s) => Pending(s)'
    PROVE  EdgeIsKept'
BY DEF EdgeIsKept

\* A socket in the queue is pending, and stays so when the queue grows.
LEMMA SubmitPends ==
    ASSUME WorkerTypes, NEW s \in Sockets, SubmitTask(s),
           UNCHANGED requestVars
    PROVE  /\ WorkerTypes'
           /\ Pending(s)'
           /\ \A r \in Sockets : Pending(r) => Pending(r)'
<1> USE EpollAssumption DEF WorkerTypes, SubmitTask, Queue!Put, requestVars
<1>1. /\ taskQueue' = Append(taskQueue, s)
      /\ UNCHANGED <<task, worker, step, data, currentWorkerNumber>>
    OBVIOUS
<1>2. /\ taskQueue' \in Seq(Sockets)
      /\ Len(taskQueue) + 1 \in DOMAIN taskQueue'
      /\ taskQueue'[Len(taskQueue) + 1] = s
      /\ \A k \in DOMAIN taskQueue : k \in DOMAIN taskQueue' /\ taskQueue'[k] = taskQueue[k]
    BY <1>1
<1>3. WorkerTypes'
    BY <1>1, <1>2
<1>4. Pending(s)'
    BY <1>2 DEF Pending
<1>5. ASSUME NEW r \in Sockets, Pending(r) PROVE Pending(r)'
    BY <1>1, <1>2, <1>5 DEF Pending
<1> QED BY <1>3, <1>4, <1>5

LEMMA MainKeepsInv ==
    ASSUME IndInv, MainStep PROVE IndInv'
<1> USE ConnectionsAssumption, EpollAssumption DEF IndInv, Types
<1>1. CASE EpollWait
    <2>1. /\ main = "epoll_wait" /\ main' = "dispatch"
          /\ UNCHANGED <<connVars, poolVars, requestVars, watched, client>>
        BY <1>1 DEF EpollWait
    \* What is ready and readable is in the batch, or stays on the list.
    <2>2. /\ events' \subseteq ready \cup {listenSocket} /\ ready' \subseteq ready
          /\ \A s \in ready : Readable(s) => s \in ready' \cup events'
        <3>1. \A s \in ready : s # listenSocket
            BY DEF EpollTypes, Open
        <3> QED BY <1>1, <3>1 DEF EpollWait
    <2>3. ConnectionTypes'
        BY <2>1, ConnectionsKeepTypes
    <2>4. WorkerTypes' /\ WorkersAreCounted'
        BY <2>1 DEF WorkerTypes, WorkersAreCounted, Started, poolVars, requestVars
    <2>5. EpollTypes'
        BY <2>1, <2>2 DEF EpollTypes, Open, connVars
    <2>6. EdgeIsKept'
        <3>1. \A s \in Sockets : Pending(s)' <=> Pending(s)
            BY <2>1 DEF Pending, poolVars, requestVars
        <3>2. \A s \in Sockets : Readable(s)' <=> Readable(s)
            BY <2>1 DEF Readable, connVars
        <3>3. watched \subseteq Sockets /\ events = {} /\ UNCHANGED watched
            BY <2>1 DEF EpollTypes, Open
        <3> QED BY <2>2, <3>1, <3>2, <3>3 DEF EdgeIsKept
    <2> QED BY <2>3, <2>4, <2>5, <2>6
<1>2. CASE HandleRead
    <2>1. PICK s \in events \cap Sockets : SubmitTask(s) /\ events' = events \ {s}
        BY <1>2 DEF HandleRead
    <2>2. /\ main = "dispatch"
          /\ UNCHANGED <<connVars, requestVars, watched, ready, main, client>>
        BY <1>2 DEF HandleRead
    <2>3. ConnectionTypes'
        BY <2>2, ConnectionsKeepTypes
    <2>4. /\ WorkerTypes' /\ Pending(s)'
          /\ \A r \in Sockets : Pending(r) => Pending(r)'
        BY <2>1, <2>2, SubmitPends
    <2>5. WorkersAreCounted'
        BY <2>1 DEF SubmitTask, WorkersAreCounted, Started
    <2>6. EpollTypes'
        BY <2>1, <2>2 DEF EpollTypes, Open, connVars
    <2>7. EdgeIsKept'
        BY <2>1, <2>2, <2>4 DEF EdgeIsKept, EpollTypes, Open, Readable, connVars
    <2> QED BY <2>3, <2>4, <2>5, <2>6, <2>7
<1>3. CASE HandleAccept
    <2> USE <1>3 DEF HandleAccept
    <2>1. ConnectionTypes'
        BY ConnectionsKeepTypes
    <2>2. WorkerTypes' /\ WorkersAreCounted'
        BY DEF WorkerTypes, WorkersAreCounted, Started, poolVars, requestVars
    <2>3. EpollTypes'
        BY DEF EpollTypes, Open, connVars
    <2>4. EdgeIsKept'
        BY DEF EpollTypes, Open, EdgeIsKept, Pending, Readable, connVars, poolVars, requestVars
    <2> QED BY <2>1, <2>2, <2>3, <2>4
<1>4. CASE Accept
    <2> USE <1>4 DEF Accept
    <2>1. PICK s \in Sockets : AcceptOn(s) /\ client' = s
        OBVIOUS
    <2>2. ConnectionTypes'
        BY <2>1, ConnectionsKeepTypes
    <2>3. WorkerTypes' /\ WorkersAreCounted'
        BY DEF WorkerTypes, WorkersAreCounted, Started, poolVars, requestVars
    <2>4. /\ s \notin Open /\ Open \subseteq Open'
          /\ \A r \in Sockets \ {s} : peer'[r] = peer[r]
          /\ UNCHANGED <<unread, left>>
        BY <2>1 DEF AcceptOn, Open, ConnectionTypes, ConnectionsTypeOK
    <2>5. EpollTypes'
        BY <2>1, <2>4 DEF EpollTypes
    <2>6. EdgeIsKept'
        BY <2>4 DEF EpollTypes, Open, EdgeIsKept, Pending, Readable, poolVars, requestVars
    <2> QED BY <2>2, <2>3, <2>5, <2>6
<1>5. CASE AcceptFails
    <2> USE <1>5 DEF AcceptFails
    <2>1. ConnectionTypes'
        BY ConnectionsKeepTypes
    <2>2. WorkerTypes' /\ WorkersAreCounted'
        BY DEF WorkerTypes, WorkersAreCounted, Started, poolVars, requestVars
    <2>3. UNCHANGED <<peer, unread, left>>
        BY DEF AcceptAborted, connVars
    <2>4. EpollTypes'
        BY <2>3 DEF EpollTypes, Open
    <2>5. EdgeIsKept'
        BY <2>3 DEF EdgeIsKept, Pending, Readable, poolVars, requestVars
    <2> QED BY <2>1, <2>2, <2>4, <2>5
<1>6. CASE AddEvent
    <2> USE <1>6 DEF AddEvent
    <2>1. ConnectionTypes'
        BY ConnectionsKeepTypes
    <2>2. WorkerTypes' /\ WorkersAreCounted'
        BY DEF WorkerTypes, WorkersAreCounted, Started, poolVars, requestVars
    <2>3. EpollTypes'
        BY DEF EpollTypes, Open, connVars
    <2>4. EdgeIsKept'
        BY DEF EdgeIsKept, Pending, Readable, connVars, poolVars, requestVars
    <2> QED BY <2>1, <2>2, <2>3, <2>4
<1>7. CASE AddEventFails \/ BatchEnds
    <2> USE <1>7 DEF AddEventFails, BatchEnds
    <2>1. ConnectionTypes'
        BY ConnectionsKeepTypes
    <2>2. WorkerTypes' /\ WorkersAreCounted'
        BY DEF WorkerTypes, WorkersAreCounted, Started, poolVars, requestVars
    <2>3. EpollTypes'
        BY DEF EpollTypes, Open, connVars
    <2>4. EdgeIsKept'
        BY DEF EdgeIsKept, Pending, Readable, connVars, poolVars, requestVars
    <2> QED BY <2>1, <2>2, <2>3, <2>4
<1> QED BY <1>1, <1>2, <1>3, <1>4, <1>5, <1>6, <1>7 DEF MainStep

----------------------------------------------------------------------------
\* The oldest task goes to an idle worker, which had none.
LEMMA TakeKeepsInv ==
    ASSUME IndInv, NEW w \in Workers, Take(w), UNCHANGED epollVars
    PROVE  IndInv'
<1> USE ConnectionsAssumption, EpollAssumption DEF IndInv, Types, epollVars
<1>1. /\ worker[w] = "getTask" /\ worker' = [worker EXCEPT ![w] = "task"]
      /\ taskQueue # <<>> /\ taskQueue' = Tail(taskQueue)
      /\ task' = [task EXCEPT ![w] = Head(taskQueue)]
      /\ step' = [step EXCEPT ![w] = "recv"]
      /\ UNCHANGED <<currentWorkerNumber, data, connVars>>
    BY DEF Take, GetTask, Queue!Get, Goto
<1>2. /\ Len(taskQueue) \in Nat \ {0} /\ Len(taskQueue') = Len(taskQueue) - 1
      /\ Head(taskQueue) = taskQueue[1] /\ taskQueue[1] \in Sockets
      /\ \A k \in 1..Len(taskQueue') : taskQueue'[k] = taskQueue[k + 1]
      /\ taskQueue' \in Seq(Sockets)
    BY <1>1 DEF WorkerTypes
<1>3. step[w] = "idle" /\ task[w] = NoSocket
    BY <1>1 DEF WorkerTypes
<1>4. ConnectionTypes'
    BY <1>1, ConnectionsKeepTypes
<1>5. WorkerTypes'
    BY <1>1, <1>2 DEF WorkerTypes, Steps
<1>6. EpollTypes'
    BY <1>1 DEF EpollTypes, Open, connVars
<1>7. WorkersAreCounted'
    <2>1. Started' = Started
        BY <1>1 DEF Started, WorkerTypes
    <2> QED BY <1>1, <2>1 DEF WorkersAreCounted
<1>8. ASSUME NEW s \in watched, Pending(s) PROVE Pending(s)'
    <2>0. s \in Sockets
        BY DEF EpollTypes, Open
    <2>1. CASE taskQueue[1] = s
        BY <1>1, <1>2, <2>1 DEF Pending, WorkerTypes
    <2>2. ASSUME NEW k \in 1..Len(taskQueue), taskQueue[k] = s, taskQueue[1] # s
          PROVE  Pending(s)'
        <3>1. k - 1 \in 1..Len(taskQueue') /\ k = (k - 1) + 1
            BY <2>2, <1>2
        <3>2. k - 1 \in DOMAIN taskQueue' /\ taskQueue'[k - 1] = s
            BY <3>1, <2>2, <1>2
        <3> QED BY <3>2 DEF Pending
    <2>3. ASSUME NEW v \in Workers, task[v] = s, step[v] \in {"idle", "recv", "send", "close"}
          PROVE  Pending(s)'
        <3>1. v # w
            BY <2>0, <2>3, <1>3
        <3> QED BY <3>1, <2>3, <1>1 DEF Pending, WorkerTypes
    <2>4. DOMAIN taskQueue = 1..Len(taskQueue)
        BY DEF WorkerTypes
    <2> QED BY <1>8, <2>1, <2>2, <2>3, <2>4 DEF Pending
<1>9. EdgeIsKept'
    BY <1>1, <1>8, EdgesStay DEF Readable, connVars
<1> QED BY <1>4, <1>5, <1>6, <1>7, <1>9

LEMMA WorkerKeepsTypes ==
    ASSUME IndInv, NEW w \in Workers, WorkerStep(w), ~ Take(w)
    PROVE  Types' /\ WorkersAreCounted'
<1> USE ConnectionsAssumption, EpollAssumption DEF IndInv, Types
<1>1. CASE /\ WorkerStarts(w)
           /\ UNCHANGED <<requestVars, connVars, watched, ready, events, main, client>>
    <2> USE <1>1 DEF WorkerStarts, requestVars
    <2>1. ConnectionTypes'
        BY ConnectionsKeepTypes
    <2>2. WorkerTypes'
        BY DEF WorkerTypes
    <2>3. EpollTypes'
        BY DEF EpollTypes, Open, connVars
    <2>4. WorkersAreCounted'
        <3>1. w \notin Started /\ Started' = Started \cup {w} /\ IsFiniteSet(Started)
            BY FS_Subset DEF Started, WorkerTypes
        <3> QED BY <3>1, FS_AddElement DEF WorkersAreCounted
    <2> QED BY <2>1, <2>2, <2>3, <2>4
<1>2. CASE Recv(w) /\ UNCHANGED <<watched, ready, events, main, client>>
    <2>1. PICK next \in {"recv", "close", "send"} : step' = [step EXCEPT ![w] = next]
        BY <1>2 DEF Recv, Goto
    <2>2. /\ step[w] = "recv" /\ task[w] \in Sockets /\ Receive(task[w])
          /\ data' = [data EXCEPT ![w] = @ + unread[peer[task[w]]]]
          /\ UNCHANGED <<peer, poolVars>>
        BY <1>2 DEF Recv, Receive, Open
    <2>3. peer[task[w]] \in Clients
        BY <2>2 DEF Receive, Open, ConnectionTypes, ConnectionsTypeOK
    <2>4. ConnectionTypes'
        BY <2>2, ConnectionsKeepTypes
    <2>5. WorkerTypes'
        BY <2>1, <2>2, <2>3 DEF WorkerTypes, Steps, ConnectionTypes, poolVars
    <2>6. EpollTypes'
        BY <1>2, <2>2 DEF EpollTypes, Open
    <2>7. WorkersAreCounted'
        BY <2>2 DEF WorkersAreCounted, Started, poolVars
    <2> QED BY <2>4, <2>5, <2>6, <2>7
<1>3. CASE RecvThrows(w) /\ UNCHANGED <<watched, ready, events, main, client>>
    <2> USE <1>3 DEF RecvThrows, Goto
    <2>1. ConnectionTypes'
        BY ConnectionsKeepTypes
    <2>2. WorkerTypes'
        BY DEF WorkerTypes, Steps, poolVars
    <2>3. EpollTypes' /\ WorkersAreCounted'
        BY DEF EpollTypes, Open, connVars, WorkersAreCounted, Started, poolVars
    <2> QED BY <2>1, <2>2, <2>3
<1>4. CASE Send(w) /\ UNCHANGED <<watched, ready, events, main, client>>
    <2> USE <1>4 DEF Send, Goto
    <2>1. task[w] \in Sockets
        BY DEF WorkerTypes
    <2>2. ConnectionTypes'
        BY <2>1, ConnectionsKeepTypes
    <2>3. WorkerTypes'
        BY DEF WorkerTypes, Steps, poolVars
    <2>4. EpollTypes' /\ WorkersAreCounted'
        BY DEF SendTo, EpollTypes, Open, connVars, WorkersAreCounted, Started, poolVars
    <2> QED BY <2>2, <2>3, <2>4
<1>5. CASE Close(w) /\ Unwatch({task[w]}) /\ UNCHANGED <<events, main, client>>
    <2> USE <1>5 DEF Close, Goto, Unwatch
    <2>1. task[w] \in Sockets
        BY DEF WorkerTypes
    <2>2. ConnectionTypes'
        BY <2>1, ConnectionsKeepTypes
    <2>3. WorkerTypes'
        BY DEF WorkerTypes, Steps, poolVars
    <2>4. Open' = Open \ {task[w]}
        BY <2>1 DEF CloseSocket, Open, ConnectionTypes, ConnectionsTypeOK
    <2>5. EpollTypes' /\ WorkersAreCounted'
        BY <2>4 DEF EpollTypes, WorkersAreCounted, Started, poolVars
    <2> QED BY <2>2, <2>3, <2>5
<1>6. CASE RemoveEvent(w) /\ UNCHANGED <<events, main, client>>
    <2> USE <1>6 DEF RemoveEvent, Finish, TaskEnds, Queue!Release, Goto, Unwatch
    <2>1. ConnectionTypes'
        BY ConnectionsKeepTypes
    <2>2. WorkerTypes'
        BY DEF WorkerTypes, Steps
    <2>3. Started' = Started
        BY DEF Started, WorkerTypes
    <2>4. EpollTypes' /\ WorkersAreCounted'
        BY <2>3 DEF EpollTypes, Open, connVars, WorkersAreCounted
    <2> QED BY <2>1, <2>2, <2>4
<1>7. CASE SendKills(w)
    <2> USE <1>7 DEF SendKills
    <2>1. ConnectionTypes'
        BY ConnectionsKeepTypes
    <2>2. WorkerTypes' /\ WorkersAreCounted'
        BY DEF WorkerTypes, WorkersAreCounted, Started, poolVars, requestVars
    <2>3. EpollTypes'
        BY DEF EpollTypes, Open, connVars
    <2> QED BY <2>1, <2>2, <2>3
<1> QED BY <1>1, <1>2, <1>3, <1>4, <1>5, <1>6, <1>7 DEF WorkerStep

\* A worker makes nothing readable.  When it lets go of its socket the socket
\* is not registered any more, so an edge of it cannot be lost.
LEMMA WorkerKeepsEdges ==
    ASSUME IndInv, NEW w \in Workers, WorkerStep(w), ~ Take(w)
    PROVE  EdgeIsKept'
<1> USE ConnectionsAssumption, EpollAssumption DEF IndInv, Types
<1>0. watched \subseteq Sockets
    BY DEF EpollTypes, Open
<1>1. CASE /\ WorkerStarts(w)
           /\ UNCHANGED <<requestVars, connVars, watched, ready, events>>
    BY <1>1, EdgesStay DEF WorkerStarts, Readable, Pending, requestVars, connVars
<1>2. CASE Recv(w) /\ UNCHANGED <<watched, ready, events>>
    <2>1. PICK next \in {"recv", "close", "send"} : step' = [step EXCEPT ![w] = next]
        BY <1>2 DEF Recv, Goto
    <2>2. /\ step[w] = "recv" /\ Receive(task[w])
          /\ UNCHANGED poolVars
        BY <1>2 DEF Recv
    <2>3. \A s \in watched : Readable(s)' => Readable(s)
        BY <2>2, <1>0 DEF Readable, Receive, Open, EpollTypes, ConnectionTypes,
                          ConnectionsTypeOK
    <2>4. \A s \in watched : Pending(s) => Pending(s)'
        BY <2>1, <2>2 DEF Pending, WorkerTypes, poolVars
    <2> QED BY <1>2, <2>3, <2>4, EdgesStay
<1>3. CASE RecvThrows(w) /\ UNCHANGED <<watched, ready, events>>
    <2> USE <1>3 DEF RecvThrows, Goto
    <2>1. \A s \in watched : Pending(s) => Pending(s)'
        BY DEF Pending, WorkerTypes, poolVars
    <2> QED BY <2>1, EdgesStay DEF Readable, connVars
<1>4. CASE Send(w) /\ UNCHANGED <<watched, ready, events>>
    <2> USE <1>4 DEF Send, Goto
    <2>1. \A s \in watched : Pending(s) => Pending(s)'
        BY DEF Pending, WorkerTypes, poolVars
    <2> QED BY <2>1, EdgesStay DEF SendTo, Readable
<1>5. CASE Close(w) /\ Unwatch({task[w]}) /\ UNCHANGED <<events, main, client>>
    <2> USE <1>5 DEF Close, Goto, Unwatch
    <2>1. \A s \in watched' : Pending(s) => Pending(s)'
        BY DEF Pending, WorkerTypes, poolVars
    <2>2. \A s \in watched' : Readable(s)' => Readable(s)
        BY <1>0 DEF Readable, CloseSocket, Open, EpollTypes, ConnectionTypes,
                    ConnectionsTypeOK
    <2> QED BY <2>1, <2>2, EdgesStay
<1>6. CASE RemoveEvent(w) /\ UNCHANGED <<events, main, client>>
    <2> USE <1>6 DEF RemoveEvent, Finish, TaskEnds, Queue!Release, Goto, Unwatch
    <2>1. \A s \in watched' : Pending(s) => Pending(s)'
        BY DEF Pending, WorkerTypes
    <2> QED BY <2>1, EdgesStay DEF Readable, connVars
<1>7. CASE SendKills(w)
    BY <1>7 DEF SendKills, EdgeIsKept, Readable, Pending, connVars, poolVars, requestVars
<1> QED BY <1>1, <1>2, <1>3, <1>4, <1>5, <1>6, <1>7 DEF WorkerStep

\* What makes a registered socket readable puts it on the ready list.
LEMMA ClientKeepsInv ==
    ASSUME IndInv, NEW c \in Clients, ClientActs(c)
    PROVE  IndInv'
<1> USE ConnectionsAssumption, EpollAssumption DEF IndInv, Types, ClientActs
<1>1. ConnectionTypes'
    BY ConnectionsKeepTypes DEF ClientStep
<1>2. WorkerTypes' /\ WorkersAreCounted'
    BY DEF WorkerTypes, WorkersAreCounted, Started, poolVars, requestVars
<1>3. UNCHANGED peer
    BY DEF Connect, SendSegment, Leave
<1>4. EpollTypes'
    BY <1>3 DEF EpollTypes, Open
<1>5. ASSUME NEW s \in watched, Readable(s)'
      PROVE  s \in ready' \cup events' \/ Pending(s)'
    <2>1. peer[s] \in Clients /\ UNCHANGED <<watched, events>>
        BY DEF EpollTypes, Open, ConnectionTypes, ConnectionsTypeOK
    <2>2. (Pending(s) <=> Pending(s)') /\ ready \subseteq ready'
        BY DEF Pending, poolVars, requestVars
    <2>3. CASE Readable(s)
        BY <2>1, <2>2, <2>3 DEF EdgeIsKept
    <2>4. CASE ~ Readable(s)
        <3>1. peer[s] = c
            BY <1>3, <1>5, <2>1, <2>4 DEF Readable, Connect, SendSegment, Leave, ConnectionTypes
        <3>2. ~ Connect(c)
            BY <1>3, <1>5, <2>4 DEF Readable, Connect
        <3> QED BY <3>1, <3>2
    <2> QED BY <2>3, <2>4
<1>6. EdgeIsKept'
    BY <1>5 DEF EdgeIsKept
<1> QED BY <1>1, <1>2, <1>4, <1>6

----------------------------------------------------------------------------
LEMMA NextKeepsInv == IndInv /\ [Next]_vars => IndInv'
<1> SUFFICES ASSUME IndInv, [Next]_vars PROVE IndInv'
    OBVIOUS
<1>1. CASE MainStep
    BY <1>1, MainKeepsInv
<1>2. ASSUME NEW w \in Workers, WorkerStep(w) PROVE IndInv'
    <2>1. CASE Take(w)
        <3>1. worker[w] = "getTask" /\ worker'[w] = "task"
            BY <2>1 DEF Take, GetTask, IndInv, Types, WorkerTypes
        <3>2. UNCHANGED epollVars
            BY <1>2, <2>1, <3>1 DEF WorkerStep, WorkerStarts, Recv, RecvThrows, Send, Close,
                RemoveEvent, Finish, TaskEnds, SendKills, poolVars, epollVars
        <3> QED BY <2>1, <3>2, TakeKeepsInv
    <2>2. CASE ~ Take(w)
        BY <1>2, <2>2, WorkerKeepsTypes, WorkerKeepsEdges DEF IndInv
    <2> QED BY <2>1, <2>2
<1>3. ASSUME NEW c \in Clients, ClientActs(c) PROVE IndInv'
    BY <1>3, ClientKeepsInv
<1>4. CASE UNCHANGED vars
    <2> USE <1>4 DEF vars, poolVars, requestVars, epollVars, IndInv, Types
    <2>1. ConnectionTypes'
        BY ConnectionsKeepTypes
    <2>2. WorkerTypes' /\ WorkersAreCounted'
        BY DEF WorkerTypes, WorkersAreCounted, Started
    <2>3. EpollTypes' /\ EdgeIsKept'
        BY DEF EpollTypes, EdgeIsKept, Open, Readable, Pending, connVars
    <2> QED BY <2>1, <2>2, <2>3
<1> QED BY <1>1, <1>2, <1>3, <1>4 DEF Next

LEMMA Inductive == Spec => []IndInv
BY InitInv, NextKeepsInv, PTL DEF Spec

----------------------------------------------------------------------------
\* Every variable keeps its type; the registered sockets are open ones.
LEMMA TypeCorrect == Spec => []TypeOK
<1>1. ASSUME IndInv PROVE TypeOK
    <2> USE <1>1, EpollAssumption DEF IndInv, Types
    <2>1. ConnectionsTypeOK
        BY DEF ConnectionTypes
    <2>2. PoolTypeOK
        <3>1. Started \subseteq Workers
            BY DEF Started
        <3>2. Cardinality(Started) \in 0..Cardinality(Workers)
            BY <3>1, FS_Subset, FS_CardinalityType
        <3> QED BY <3>2 DEF PoolTypeOK, WorkerTypes, WorkersAreCounted
    <2>3. RequestTypeOK
        BY DEF RequestTypeOK, WorkerTypes, Steps
    <2> QED BY <2>1, <2>2, <2>3 DEF TypeOK, EpollTypes
<1> QED BY <1>1, Inductive, PTL

\* However many connections, sockets and workers there are, an edge-triggered
\* event is never lost (HttpServer_v3.cpp, 79-140).
THEOREM NoEdgeIsLost == Spec => []NoLostEdge
<1>1. IndInv /\ TypeOK => NoLostEdge
    BY DEF IndInv, EdgeIsKept, NoLostEdge
<1> QED BY <1>1, Inductive, TypeCorrect, PTL

----------------------------------------------------------------------------
(* What the worker collects.  The Linux build has one.                     *)

OneWorker == \A v, w \in Workers : v = w

\* Where a worker reads from, answers on or closes the socket of its task.
Holding == {"recv", "send", "close"}

\* Nothing of what c sent has been received.
Untouched(c) == unread[c] = sent[c]

\* A good request, received to its end.
Whole(c) == Request[c].kind = "good" /\ sent[c] = Request[c].segments /\ unread[c] = 0

\* A client is in the listen queue or behind a socket, and only once.
OnePlace ==
    /\ \A j, k \in 1..Len(backlog) : backlog[j] = backlog[k] => j = k
    /\ \A k \in 1..Len(backlog), s \in Sockets : peer[s] # backlog[k]
    /\ \A r, s \in Open : peer[r] = peer[s] => r = s

\* Only a worker receives, and from the socket of its task.
NotReceivedYet ==
    /\ \A c \in Clients \ connected : sent[c] = 0 /\ unread[c] = 0
    /\ \A k \in 1..Len(backlog) : Untouched(backlog[k])
    /\ \A s \in Open : \/ Untouched(peer[s])
                       \/ \E w \in Workers : step[w] \in Holding /\ task[w] = s

\* A task that came too late has a closed socket, or a new connection: it
\* begins with nothing either way.
Collected ==
    \A w \in Workers :
        /\ step[w] = "idle" => data[w] = 0
        /\ step[w] = "recv" =>
              IF task[w] \in Open
              THEN data[w] + unread[peer[task[w]]] = sent[peer[task[w]]]
              ELSE data[w] = 0
        /\ step[w] = "send" => task[w] \in Open /\ Whole(peer[task[w]])

ReadInv == OnePlace /\ NotReceivedYet /\ Collected /\ \A c \in replied : Whole(c)

LEMMA InitRead == Init => ReadInv
BY ConnectionsAssumption, EpollAssumption
   DEF Init, ConnectionsInit, PoolInit, RequestInit, ReadInv, OnePlace, NotReceivedYet,
       Collected, Open

\* The clients behind the open sockets and in the listen queue are clients.
LEMMA PeersAreClients ==
    ASSUME IndInv
    PROVE  /\ \A s \in Open : s \in Sockets /\ peer[s] \in Clients
           /\ \A k \in 1..Len(backlog) : backlog[k] \in Clients /\ backlog[k] \in connected
           /\ \A c \in Clients : sent[c] \in Nat /\ unread[c] \in Nat /\ Request[c].segments \in Nat
           /\ replied \subseteq Clients /\ connected \subseteq Clients
           /\ \A w \in Workers : data[w] \in Nat
<1> USE ConnectionsAssumption DEF IndInv, Types, ConnectionTypes, ConnectionsTypeOK
<1>1. \A s \in Open : s \in Sockets /\ peer[s] \in Clients
    BY DEF Open
<1>2. \A k \in 1..Len(backlog) : backlog[k] \in Clients /\ backlog[k] \in connected
    OBVIOUS
<1>3. replied \subseteq Clients /\ connected \subseteq Clients
    OBVIOUS
<1>4. \A w \in Workers : data[w] \in Nat
    BY DEF WorkerTypes
<1>5. \A c \in Clients : Request[c].segments \in Nat
    OBVIOUS
<1>6. \A c \in Clients : sent[c] \in Nat /\ unread[c] \in Nat
    OBVIOUS
<1> QED BY <1>1, <1>2, <1>3, <1>4, <1>5, <1>6

\* What a client sends is unread, and nobody takes it for received.
LEMMA ClientKeepsRead ==
    ASSUME IndInv, ReadInv, NEW c \in Clients, ClientActs(c)
    PROVE  ReadInv'
<1> USE PeersAreClients
<1>0. /\ UNCHANGED <<peer, replied, task, step, data>>
      /\ Open' = Open
    BY DEF ClientActs, Connect, SendSegment, Leave, poolVars, requestVars, Open
<1>1. CASE Connect(c)
    <2>1. /\ c \notin connected /\ connected' = connected \cup {c}
          /\ backlog' = Append(backlog, c) /\ UNCHANGED <<sent, unread>>
        BY <1>1 DEF Connect
    <2>2. /\ Len(backlog) \in Nat /\ Len(backlog') = Len(backlog) + 1
          /\ backlog'[Len(backlog) + 1] = c
          /\ \A k \in 1..Len(backlog) : backlog'[k] = backlog[k]
        BY <2>1 DEF IndInv, Types, ConnectionTypes, ConnectionsTypeOK
    <2>3. \A k \in 1..Len(backlog) : backlog[k] # c
        BY <2>1
    <2>4. \A s \in Sockets : peer[s] # c
        BY <2>1, ConnectionsAssumption DEF IndInv, Types, ConnectionTypes
    <2>5. OnePlace'
        BY <1>0, <2>2, <2>3, <2>4 DEF ReadInv, OnePlace
    <2>6. NotReceivedYet'
        BY <1>0, <2>1, <2>2 DEF ReadInv, NotReceivedYet, Untouched
    <2>7. Collected' /\ \A d \in replied' : Whole(d)'
        BY <1>0, <2>1 DEF ReadInv, Collected, Whole
    <2> QED BY <2>5, <2>6, <2>7 DEF ReadInv
<1>2. CASE SendSegment(c)
    <2>1. /\ c \in connected /\ sent[c] < Request[c].segments
          /\ \A d \in Clients \ {c} : sent'[d] = sent[d] /\ unread'[d] = unread[d]
          /\ sent'[c] = sent[c] + 1 /\ unread'[c] = unread[c] + 1
          /\ UNCHANGED <<backlog, connected>>
        BY <1>2 DEF SendSegment, IndInv, Types, ConnectionTypes
    <2>2. \A d \in Clients :
              /\ unread[d] = sent[d] => unread'[d] = sent'[d]
              /\ sent[d] = Request[d].segments /\ unread[d] = 0 =>
                     sent'[d] = Request[d].segments /\ unread'[d] = 0
        BY <2>1
    <2>3. \A d \in Clients, n \in Nat :
              n + unread[d] = sent[d] => n + unread'[d] = sent'[d]
        BY <2>1
    <2>4. OnePlace'
        BY <1>0, <2>1 DEF ReadInv, OnePlace
    <2>5. NotReceivedYet'
        <3>1. \A d \in Clients \ connected' : sent'[d] = 0 /\ unread'[d] = 0
            BY <2>1 DEF ReadInv, NotReceivedYet
        <3>2. \A k \in 1..Len(backlog') : unread'[backlog'[k]] = sent'[backlog'[k]]
            BY <2>1, <2>2 DEF ReadInv, NotReceivedYet, Untouched
        <3>3. \A s \in Open : unread[peer[s]] = sent[peer[s]] =>
                              unread'[peer[s]] = sent'[peer[s]]
            BY <2>2
        <3> QED BY <1>0, <3>1, <3>2, <3>3 DEF ReadInv, NotReceivedYet, Untouched
    <2>6. Collected'
        <3> SUFFICES ASSUME NEW w \in Workers
                     PROVE  /\ step[w] = "idle" => data[w] = 0
                            /\ step[w] = "recv" =>
                                 IF task[w] \in Open
                                 THEN data[w] + unread'[peer[task[w]]] = sent'[peer[task[w]]]
                                 ELSE data[w] = 0
                            /\ step[w] = "send" =>
                                 /\ task[w] \in Open
                                 /\ Request[peer[task[w]]].kind = "good"
                                 /\ sent'[peer[task[w]]] = Request[peer[task[w]]].segments
                                 /\ unread'[peer[task[w]]] = 0
            BY <1>0 DEF Collected, Whole
        <3>1. task[w] \in Open => peer[task[w]] \in Clients
            OBVIOUS
        <3>2. data[w] \in Nat
            OBVIOUS
        <3>3. /\ step[w] = "idle" => data[w] = 0
              /\ step[w] = "recv" =>
                    IF task[w] \in Open
                    THEN data[w] + unread[peer[task[w]]] = sent[peer[task[w]]]
                    ELSE data[w] = 0
              /\ step[w] = "send" => /\ task[w] \in Open
                                     /\ Request[peer[task[w]]].kind = "good"
                                     /\ sent[peer[task[w]]] = Request[peer[task[w]]].segments
                                     /\ unread[peer[task[w]]] = 0
            BY DEF ReadInv, Collected, Whole
        <3> QED BY <2>2, <2>3, <3>1, <3>2, <3>3
    <2>7. \A d \in replied' : Whole(d)'
        <3>1. \A d \in replied : d \in Clients /\ Request[d].kind = "good"
                                /\ sent[d] = Request[d].segments /\ unread[d] = 0
            BY DEF ReadInv, Whole
        <3> QED BY <1>0, <2>2, <3>1 DEF Whole
    <2> QED BY <2>4, <2>5, <2>6, <2>7 DEF ReadInv
<1>3. CASE Leave(c)
    BY <1>0, <1>3 DEF Leave, ReadInv, OnePlace, NotReceivedYet, Collected, Untouched, Whole
<1> QED BY <1>1, <1>2, <1>3 DEF ClientActs

\* What is behind the head of the listen queue moves up by one.
LEMMA TailMovesUp ==
    ASSUME NEW S, NEW q \in Seq(S), q # <<>>
    PROVE  /\ Head(q) = q[1] /\ 1 \in 1..Len(q)
           /\ \A k \in 1..Len(Tail(q)) :
                 Tail(q)[k] = q[k + 1] /\ k + 1 \in 1..Len(q) /\ k + 1 # 1
           /\ \A j, k \in 1..Len(Tail(q)) : j + 1 = k + 1 => j = k
OBVIOUS

\* The main thread receives nothing: a client goes from the listen queue to a
\* socket that was closed.
LEMMA MainKeepsRead ==
    ASSUME IndInv, ReadInv, MainStep PROVE ReadInv'
<1> USE PeersAreClients
<1>0. /\ UNCHANGED <<replied, task, step, data, sent, unread, connected>>
      /\ \A c : (Untouched(c) => Untouched(c)') /\ (Whole(c) => Whole(c)')
    BY DEF MainStep, EpollWait, HandleRead, HandleAccept, Accept, AcceptOn, AcceptFails,
           AcceptAborted, AddEvent, AddEventFails, BatchEnds, SubmitTask, Queue!Put, poolVars,
           requestVars, connVars, Untouched, Whole
<1>r. \A c \in replied' : Whole(c)'
    BY <1>0 DEF ReadInv
<1>1. ASSUME backlog # <<>>, backlog' = Tail(backlog)
      PROVE  /\ Head(backlog) = backlog[1] /\ 1 \in 1..Len(backlog)
             /\ \A k \in 1..Len(backlog') :
                   backlog'[k] = backlog[k + 1] /\ k + 1 \in 1..Len(backlog) /\ k + 1 # 1
             /\ \A j, k \in 1..Len(backlog') : j + 1 = k + 1 => j = k
    BY <1>1, TailMovesUp DEF IndInv, Types, ConnectionTypes, ConnectionsTypeOK
<1>2. CASE Accept
    <2>1. PICK s \in Sockets : AcceptOn(s)
        BY <1>2 DEF Accept
    <2>2. /\ s \notin Open /\ backlog # <<>> /\ backlog' = Tail(backlog)
          /\ peer'[s] = backlog[1]
          /\ \A r \in Sockets \ {s} : peer'[r] = peer[r]
        BY <1>1, <2>1 DEF AcceptOn, IndInv, Types, ConnectionTypes, ConnectionsTypeOK
    <2>3. \A r \in Open : peer'[r] = peer[r] /\ r # s
        BY <2>2
    <2>4. Open' = Open \cup {s}
        BY <1>1, <2>2, ConnectionsAssumption DEF Open
    <2>5. OnePlace'
        <3>1. \A j, k \in 1..Len(backlog') : backlog'[j] = backlog'[k] => j = k
            BY <1>1, <2>2 DEF ReadInv, OnePlace
        <3>2. \A k \in 1..Len(backlog'), r \in Sockets : peer'[r] # backlog'[k]
            BY <1>1, <2>2 DEF ReadInv, OnePlace
        <3>3. \A r \in Open : peer[r] # backlog[1]
            BY <1>1, <2>2 DEF ReadInv, OnePlace
        <3>4. \A q, r \in Open' : peer'[q] = peer'[r] => q = r
            BY <2>2, <2>3, <2>4, <3>3 DEF ReadInv, OnePlace
        <3> QED BY <3>1, <3>2, <3>4 DEF OnePlace
    <2>f. Untouched(backlog[1])
        BY <1>1, <2>2 DEF ReadInv, NotReceivedYet
    <2>6. NotReceivedYet'
        <3>1. \A c \in Clients \ connected' : sent'[c] = 0 /\ unread'[c] = 0
            BY <1>0 DEF ReadInv, NotReceivedYet
        <3>2. \A k \in 1..Len(backlog') : Untouched(backlog[k + 1])
            BY <1>1, <2>2 DEF ReadInv, NotReceivedYet
        <3>3. \A r \in Open : \/ unread'[peer'[r]] = sent'[peer'[r]]
                              \/ \E w \in Workers : step'[w] \in Holding /\ task'[w] = r
            BY <1>0, <2>3 DEF ReadInv, NotReceivedYet, Untouched
        <3>4. unread'[peer'[s]] = sent'[peer'[s]]
            BY <1>0, <2>2, <2>f DEF Untouched
        <3> QED BY <1>0, <1>1, <2>2, <2>4, <3>1, <3>2, <3>3, <3>4 DEF NotReceivedYet, Untouched
    <2>7. Collected'
        <3> SUFFICES ASSUME NEW w \in Workers
                     PROVE  /\ step[w] = "idle" => data[w] = 0
                            /\ step[w] = "recv" =>
                                 IF task[w] \in Open'
                                 THEN data[w] + unread[peer'[task[w]]] = sent[peer'[task[w]]]
                                 ELSE data[w] = 0
                            /\ step[w] = "send" => task[w] \in Open' /\ Whole(peer'[task[w]])
            BY <1>0 DEF Collected, Whole
        <3>1. sent[backlog[1]] \in Nat /\ unread[backlog[1]] = sent[backlog[1]]
            BY <1>1, <2>2, <2>f DEF Untouched
        <3>2. CASE task[w] \in Open
            BY <2>3, <2>4, <3>2 DEF ReadInv, Collected
        <3>3. CASE task[w] \notin Open
            BY <2>2, <2>4, <3>1, <3>3 DEF ReadInv, Collected
        <3> QED BY <3>2, <3>3
    <2> QED BY <1>r, <2>5, <2>6, <2>7 DEF ReadInv
<1>3. CASE AcceptFails /\ AcceptAborted
    <2>1. /\ backlog # <<>> /\ backlog' = Tail(backlog)
          /\ UNCHANGED <<peer, Open>>
        BY <1>3 DEF AcceptAborted, Open
    <2>2. OnePlace'
        BY <1>1, <2>1 DEF ReadInv, OnePlace
    <2>3. NotReceivedYet'
        BY <1>0, <1>1, <2>1 DEF ReadInv, NotReceivedYet, Untouched
    <2>4. Collected'
        BY <1>0, <2>1 DEF ReadInv, Collected, Whole
    <2> QED BY <1>r, <2>2, <2>3, <2>4 DEF ReadInv
<1>4. CASE UNCHANGED connVars
    BY <1>0, <1>4 DEF connVars, ReadInv, OnePlace, NotReceivedYet, Collected, Untouched,
                      Whole, Open
<1> QED BY <1>2, <1>3, <1>4 DEF MainStep, EpollWait, HandleRead, HandleAccept, AcceptFails,
                                AddEvent, AddEventFails, BatchEnds

\* A worker that starts, throws or removes its event receives nothing.
LEMMA OthersKeepRead ==
    ASSUME IndInv, ReadInv, NEW w \in Workers,
           \/ WorkerStarts(w) /\ UNCHANGED <<requestVars, connVars>>
           \/ RecvThrows(w)
           \/ RemoveEvent(w)
           \/ SendKills(w)
    PROVE  ReadInv'
<1>1. /\ UNCHANGED connVars
      /\ \A v \in Workers \ {w} : step'[v] = step[v] /\ data'[v] = data[v] /\ task'[v] = task[v]
      /\ \/ UNCHANGED <<step, data, task>>
         \/ step[w] = "recv" /\ step'[w] = "close" /\ task' = task
         \/ step[w] = "callback" /\ step'[w] = "idle" /\ data'[w] = 0
    BY DEF WorkerStarts, RecvThrows, RemoveEvent, SendKills, Finish, TaskEnds, Queue!Release,
           Goto, requestVars, poolVars, IndInv, Types, WorkerTypes
<1>2. OnePlace'
    BY <1>1 DEF ReadInv, OnePlace, connVars, Open
<1>3. NotReceivedYet'
  <2>1. \A v \in Workers : step[v] \in Holding =>
            step'[v] \in Holding /\ task'[v] = task[v]
      BY <1>1 DEF Holding
  <2> QED BY <1>1, <2>1 DEF ReadInv, NotReceivedYet, Untouched, Open, connVars
<1>4. Collected'
    BY <1>1 DEF ReadInv, Collected, Whole, Open, connVars
<1>5. \A c \in replied' : Whole(c)'
    BY <1>1 DEF ReadInv, Whole, connVars
<1> QED BY <1>2, <1>3, <1>4, <1>5 DEF ReadInv

\* Nothing of what a client sent is received while no worker is at its socket,
\* and so the one worker starts from nothing.
LEMMA TakeKeepsRead ==
    ASSUME OneWorker, IndInv, ReadInv, NEW w \in Workers, Take(w)
    PROVE  ReadInv'
<1>1. /\ step[w] = "idle" /\ step'[w] = "recv"
      /\ \A v \in Workers : v = w
      /\ UNCHANGED <<data, connVars>>
    BY DEF OneWorker, Take, GetTask, Queue!Get, Goto, IndInv, Types, WorkerTypes
<1>2. OnePlace'
    BY <1>1 DEF ReadInv, OnePlace, connVars, Open
<1>3. \A s \in Open : Untouched(peer[s])
    BY <1>1 DEF ReadInv, NotReceivedYet, Holding
<1>4. NotReceivedYet'
    BY <1>1, <1>3 DEF ReadInv, NotReceivedYet, Untouched, Open, connVars
<1>5. Collected'
  <2>1. data[w] = 0
      BY <1>1 DEF ReadInv, Collected
  <2>2. \A s \in Open : 0 + unread[peer[s]] = sent[peer[s]]
      BY <1>3, PeersAreClients DEF Untouched
  <2>3. task'[w] \in Open => data[w] + unread[peer[task'[w]]] = sent[peer[task'[w]]]
      BY <2>1, <2>2
  <2> QED BY <1>1, <2>1, <2>3 DEF Collected, Open, connVars
<1>6. \A c \in replied' : Whole(c)'
    BY <1>1 DEF ReadInv, Whole, connVars
<1> QED BY <1>2, <1>4, <1>5, <1>6 DEF ReadInv

LEMMA RecvKeepsRead ==
    ASSUME OneWorker, IndInv, ReadInv, NEW w \in Workers, Recv(w)
    PROVE  ReadInv'
<1> DEFINE c == peer[task[w]]
<1>1. /\ c \in Clients /\ task[w] \in Open
      /\ step[w] = "recv" /\ unread'[c] = 0
      /\ \A d \in Clients \ {c} : unread'[d] = unread[d]
      /\ data'[w] = data[w] + unread[c]
      /\ \A v \in Workers : v = w
      /\ UNCHANGED <<backlog, peer, sent, connected, replied, task>>
      /\ step'[w] = IF ~isAllData(c, data'[w]) THEN "recv"
                    ELSE IF parseRawDataThrows(c) THEN "close" ELSE "send"
  <2>1. c \in Clients /\ task[w] \in Open
      BY PeersAreClients DEF Recv, Receive
  <2> QED BY <2>1 DEF OneWorker, Recv, Receive, Goto, IndInv, Types, ConnectionTypes,
                      WorkerTypes, poolVars
<1>2. Open' = Open
    BY <1>1 DEF Open
<1>3. /\ \A s \in Open : s # task[w] => peer[s] \in Clients \ {c}
      /\ \A k \in 1..Len(backlog) : backlog[k] \in Clients \ {c}
  <2>1. \A s \in Open : s # task[w] => peer[s] # c
      BY <1>1 DEF ReadInv, OnePlace
  <2>2. \A k \in 1..Len(backlog) : backlog[k] # c
      BY <1>1 DEF ReadInv, OnePlace, Open
  <2> QED BY <2>1, <2>2, PeersAreClients
<1>4. /\ data[w] \in Nat /\ sent[c] \in Nat /\ unread[c] \in Nat
      /\ replied \subseteq Clients
    BY <1>1, PeersAreClients
<1> HIDE DEF c
<1>5. OnePlace'
    BY <1>1, <1>2 DEF ReadInv, OnePlace
<1>6. NotReceivedYet'
  <2>1. \A d \in Clients \ connected : sent[d] = 0 /\ unread'[d] = 0
      BY <1>1 DEF ReadInv, NotReceivedYet
  <2>2. \A k \in 1..Len(backlog) : unread'[backlog[k]] = sent[backlog[k]]
      BY <1>1, <1>3 DEF ReadInv, NotReceivedYet, Untouched
  <2>3. \A s \in Open \ {task[w]} : unread'[peer[s]] = sent[peer[s]]
      BY <1>1, <1>3 DEF ReadInv, NotReceivedYet, Untouched
  <2>4. data'[w] = sent[c] /\ unread'[c] = 0
      BY <1>1, <1>4 DEF ReadInv, Collected, c
  <2>5. step'[w] \in Holding
      BY <1>1 DEF Holding
  <2> QED BY <1>1, <1>2, <2>1, <2>2, <2>3, <2>5 DEF NotReceivedYet, Untouched
<1>7. Collected'
  <2>1. data'[w] = sent[c] /\ data'[w] + unread'[c] = sent[c]
      BY <1>1, <1>4 DEF ReadInv, Collected, c
  <2>2. step'[w] = "send" => Request[c].kind = "good" /\ sent[c] = Request[c].segments
    <3>1. Request[c].kind \in {"good", "bad", "endless"}
        BY <1>1, ConnectionsAssumption
    <3> QED BY <1>1, <2>1, <3>1 DEF isAllData, parseRawDataThrows
  <2>3. step'[w] # "idle"
      BY <1>1
  <2> QED BY <1>1, <1>2, <2>1, <2>2, <2>3 DEF Collected, Whole, c
<1>8. \A d \in replied' : Whole(d)'
  <2>1. \A d \in replied : d \in Clients /\ Whole(d)
      BY <1>4 DEF ReadInv
  <2> QED BY <1>1, <2>1 DEF Whole
<1> QED BY <1>5, <1>6, <1>7, <1>8 DEF ReadInv

LEMMA SendKeepsRead ==
    ASSUME IndInv, ReadInv, NEW w \in Workers, Send(w)
    PROVE  ReadInv'
<1>1. /\ step[w] = "send" /\ step'[w] = "close"
      /\ \A v \in Workers \ {w} : step'[v] = step[v]
      /\ replied' \subseteq replied \cup {peer[task[w]]}
      /\ UNCHANGED <<backlog, peer, sent, unread, connected, data, task>>
    BY DEF Send, SendTo, Goto, IndInv, Types, WorkerTypes, poolVars
<1>2. OnePlace'
    BY <1>1 DEF ReadInv, OnePlace, Open
<1>3. NotReceivedYet'
  <2>1. \A v \in Workers : step[v] \in Holding => step'[v] \in Holding
      BY <1>1 DEF Holding
  <2> QED BY <1>1, <2>1 DEF ReadInv, NotReceivedYet, Untouched, Open
<1>4. Collected'
    BY <1>1 DEF ReadInv, Collected, Whole, Open
<1>5. \A d \in replied' : Whole(d)'
  <2>1. \A d \in replied' : Whole(d)
      BY <1>1 DEF ReadInv, Collected
  <2> QED BY <1>1, <2>1 DEF Whole
<1> QED BY <1>2, <1>3, <1>4, <1>5 DEF ReadInv

\* What is dropped with the socket is its own client's.
LEMMA CloseKeepsRead ==
    ASSUME OneWorker, IndInv, ReadInv, NEW w \in Workers, Close(w)
    PROVE  ReadInv'
<1> DEFINE c == peer[task[w]]
<1>1. /\ step[w] = "close" /\ step'[w] = "callback"
      /\ \A v \in Workers : v = w
      /\ peer' = [peer EXCEPT ![task[w]] = NoClient]
      /\ unread' = [d \in Clients |-> IF d = c THEN 0 ELSE unread[d]]
      /\ UNCHANGED <<backlog, sent, connected, replied, data, task>>
    BY DEF OneWorker, Close, CloseSocket, Goto, IndInv, Types, WorkerTypes, poolVars
<1>2. /\ Open' \subseteq Open \ {task[w]}
      /\ \A s \in Open' : peer'[s] = peer[s]
      /\ \A s \in Sockets : peer'[s] \in {peer[s], NoClient}
    BY <1>1 DEF Open, IndInv, Types, ConnectionTypes, ConnectionsTypeOK
<1>3. /\ \A s \in Open' : peer[s] \in Clients \ {c}
      /\ \A k \in 1..Len(backlog) : backlog[k] \in Clients \ {c}
  <2>0. task[w] \in Sockets
      BY <1>1 DEF IndInv, Types, WorkerTypes
  <2>1. \A s \in Open' : peer[s] # c
    <3>1. CASE task[w] \in Open
        BY <1>2, <3>1 DEF ReadInv, OnePlace
    <3>2. CASE task[w] \notin Open
        BY <1>2, <2>0, <3>2 DEF Open
    <3> QED BY <3>1, <3>2
  <2>2. \A k \in 1..Len(backlog) : backlog[k] # c
      BY <2>0 DEF ReadInv, OnePlace
  <2> QED BY <1>2, <2>1, <2>2, PeersAreClients
<1> HIDE DEF c
<1>4. OnePlace'
  <2>1. \A k \in 1..Len(backlog) : backlog[k] # NoClient
      BY <1>3, ConnectionsAssumption
  <2>2. \A k \in 1..Len(backlog), s \in Sockets : peer'[s] # backlog[k]
      BY <1>2, <2>1 DEF ReadInv, OnePlace
  <2> QED BY <1>1, <1>2, <2>2 DEF ReadInv, OnePlace
<1>5. NotReceivedYet'
  <2>1. \A d \in Clients \ connected : sent[d] = 0 /\ unread'[d] = 0
      BY <1>1 DEF ReadInv, NotReceivedYet
  <2>2. \A k \in 1..Len(backlog) : unread'[backlog[k]] = sent[backlog[k]]
      BY <1>1, <1>3 DEF ReadInv, NotReceivedYet, Untouched
  <2>3. \A s \in Open' : unread'[peer'[s]] = sent[peer'[s]]
    <3>1. \A s \in Open' : Untouched(peer[s])
        BY <1>1, <1>2 DEF ReadInv, NotReceivedYet
    <3> QED BY <1>1, <1>2, <1>3, <3>1 DEF Untouched
  <2> QED BY <1>1, <2>1, <2>2, <2>3 DEF NotReceivedYet, Untouched
<1>6. Collected'
    BY <1>1 DEF Collected
<1>7. \A d \in replied' : Whole(d)'
  <2>1. \A d \in replied : d \in Clients /\ Whole(d)
      BY PeersAreClients DEF ReadInv
  <2> QED BY <1>1, <2>1 DEF Whole
<1> QED BY <1>4, <1>5, <1>6, <1>7 DEF ReadInv

LEMMA NextKeepsRead == OneWorker /\ IndInv /\ ReadInv /\ [Next]_vars => ReadInv'
<1> SUFFICES ASSUME OneWorker, IndInv, ReadInv, [Next]_vars PROVE ReadInv'
    OBVIOUS
<1>1. CASE MainStep
    BY <1>1, MainKeepsRead
<1>2. ASSUME NEW w \in Workers, WorkerStep(w) PROVE ReadInv'
    BY <1>2, OthersKeepRead, TakeKeepsRead, RecvKeepsRead, SendKeepsRead, CloseKeepsRead
       DEF WorkerStep
<1>3. ASSUME NEW c \in Clients, ClientActs(c) PROVE ReadInv'
    BY <1>3, ClientKeepsRead
<1>4. CASE UNCHANGED vars
    BY <1>4 DEF vars, ReadInv, OnePlace, NotReceivedYet, Collected, Untouched, Whole, Open,
                connVars, poolVars, requestVars
<1> QED BY <1>1, <1>2, <1>3, <1>4 DEF Next

\* With the one worker of the Linux build, what it has collected is all of the
\* client it is connected with, though tasks come too late and find another
\* connection on their number; and only whole good requests are answered
\* (HttpRequest.h, 67-105; HttpResponse.h, 203-213).
THEOREM AnswersOnlyWhatWasSent ==
    ASSUME OneWorker
    PROVE  Spec => []AnswersWhatWasSent
<1>1. Init => IndInv /\ ReadInv
    BY InitInv, InitRead
<1>2. IndInv /\ ReadInv /\ [Next]_vars => (IndInv /\ ReadInv)'
    BY NextKeepsInv, NextKeepsRead
<1>3. IndInv /\ ReadInv => AnswersWhatWasSent
    BY DEF ReadInv, Collected, Whole, AnswersWhatWasSent
<1> QED BY <1>1, <1>2, <1>3, PTL DEF Spec

----------------------------------------------------------------------------
\* The server uses its task queue as FifoQueue allows: what SyncQueue implements
\* is all that the pool needs of it (ThreadPool.h, submitTask and getTask).
THEOREM PoolUsesTheQueue == Spec => Queue!Spec
<1>1. Init => Queue!Init
    BY DEF Init, PoolInit
<1>2. [Next]_vars => [Queue!Next]_<<taskQueue, task>>
  <2> SUFFICES ASSUME [Next]_vars
               PROVE  Queue!Next \/ UNCHANGED <<taskQueue, task>>
      OBVIOUS
  <2>1. CASE HandleRead
      BY <2>1, EpollAssumption DEF HandleRead, SubmitTask, Queue!Next
  <2>2. CASE MainStep /\ ~ HandleRead
      BY <2>2 DEF MainStep, EpollWait, HandleAccept, Accept, AcceptFails, AddEvent,
                  AddEventFails, BatchEnds, poolVars
  <2>3. ASSUME NEW w \in Workers, WorkerStep(w)
        PROVE  Queue!Get(w) \/ Queue!Release(w) \/ UNCHANGED <<taskQueue, task>>
      BY <2>3 DEF WorkerStep, WorkerStarts, Take, GetTask, Recv, RecvThrows, Send, Close,
                  RemoveEvent, SendKills, Finish, TaskEnds, poolVars
  <2>4. ASSUME NEW c \in Clients, ClientActs(c) PROVE UNCHANGED <<taskQueue, task>>
      BY <2>4 DEF ClientActs, poolVars
  <2>5. CASE UNCHANGED vars
      BY <2>5 DEF vars, poolVars
  <2> QED BY <2>1, <2>2, <2>3, <2>4, <2>5 DEF Next, Queue!Next
<1> QED BY <1>1, <1>2, PTL DEF Spec, Queue!Spec
=============================================================================
