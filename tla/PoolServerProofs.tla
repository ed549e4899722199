-------------------------- MODULE PoolServerProofs --------------------------
(***************************************************************************)
(* What TLC checks of PoolServer on two sockets and two workers, proved    *)
(* for any number of clients, sockets and workers: that every open socket  *)
(* is in the hands of exactly one, that a worker collects what its client  *)
(* sent and answers whole requests only, and what the counters say.        *)
(*                                                                         *)
(* OwnedOnce counts; Hands says the same without counting, and is what the *)
(* steps preserve.  The counters need it: to accept a socket adds one to   *)
(* the open ones because it was free, to close one takes one off because   *)
(* its worker had it open.  ReadInv is about clients: one is in the listen *)
(* queue or behind one open socket, and nothing of it has been received    *)
(* before a worker begins with that socket.                                *)
(***************************************************************************)
EXTENDS PoolServer, FiniteSetTheorems, TLAPS

\* Where a worker still has the socket of its task open.
Holding == {"recv", "send", "close"}

\* The types of the connections, with what closed and replied need to stay
\* subsets of connected: only who connected is in the listen queue or a peer.
ConnectionTypes ==
    /\ ConnectionsTypeOK
    /\ sent \in [Clients -> Nat]
    /\ unread \in [Clients -> Nat]
    /\ \A k \in 1..Len(backlog) : backlog[k] \in connected
    /\ \A s \in Sockets : peer[s] \in connected \cup {NoClient}

\* TypeOK, without the bounds of the two numbers that Numbers gives.
Types ==
    /\ ConnectionTypes
    /\ taskQueue \in Seq(Sockets)
    /\ task \in [Workers -> Sockets \cup {NoSocket}]
    /\ worker \in [Workers -> {"start", "getTask", "task"}]
    /\ currentWorkerNumber \in Nat
    /\ RequestTypeOK
    /\ currentConnectionNumber \in Int
    /\ totalConnectionNumber \in Nat
    /\ totalReceivedRequestNumber \in Nat
    /\ totalRespondedRequestNumber \in Nat
    /\ main \in Calls
    /\ newConnSocket \in Sockets \cup {NoSocket}

\* A worker runs a task exactly while HandleRequest is somewhere in it, and
\* the main thread has a socket exactly between accept and submitTask.
Control ==
    /\ \A w \in Workers : worker[w] = "task" <=> step[w] # "idle"
    /\ main = "accept" <=> newConnSocket = NoSocket

\* What the main thread, the queue and the workers hold is open.
HeldIsOpen ==
    /\ newConnSocket # NoSocket => newConnSocket \in Open
    /\ \A k \in 1..Len(taskQueue) : taskQueue[k] \in Open
    /\ \A w \in Workers : step[w] \in Holding => task[w] \in Open

\* No two of them hold the same socket.
HeldOnce ==
    /\ \A k \in 1..Len(taskQueue) : taskQueue[k] # newConnSocket
    /\ \A w \in Workers : step[w] \in Holding => task[w] # newConnSocket
    /\ \A k, n \in 1..Len(taskQueue) : taskQueue[k] = taskQueue[n] => k = n
    /\ \A k \in 1..Len(taskQueue), w \in Workers :
          step[w] \in Holding => task[w] # taskQueue[k]
    /\ \A v, w \in Workers :
          step[v] \in Holding /\ step[w] \in Holding /\ task[v] = task[w] => v = w

\* Every open socket is held.
OpenIsHeld ==
    \A s \in Open :
        \/ newConnSocket = s
        \/ \E k \in 1..Len(taskQueue) : taskQueue[k] = s
        \/ \E w \in Workers : step[w] \in Holding /\ task[w] = s

Hands == HeldIsOpen /\ HeldOnce /\ OpenIsHeld

Calling == {w \in Workers : step[w] = "callback"}
Busy == {w \in Workers : step[w] # "idle"}
Started == {w \in Workers : worker[w] # "start"}

\* What the counters are, in terms of the rest of the state.
Numbers ==
    /\ currentConnectionNumber =
           Cardinality(Open) + Cardinality(Calling)
           - (IF main = "current" THEN 1 ELSE 0)
    /\ totalReceivedRequestNumber - totalRespondedRequestNumber =
           Len(taskQueue) + Cardinality(Busy) + (IF main = "submit" THEN 1 ELSE 0)
    /\ currentWorkerNumber = Cardinality(Started)

SafeInv == Types /\ Control /\ Hands

IndInv == SafeInv /\ Numbers

----------------------------------------------------------------------------
LEMMA InitSafe == Init => SafeInv
<1> SUFFICES ASSUME Init PROVE SafeInv
    OBVIOUS
<1> USE ConnectionsAssumption, PoolServerAssumption
    DEF Init, ConnectionsInit, PoolInit, RequestInit, CountersInit, Queue!Init
<1>1. Types
    BY DEF Types, ConnectionTypes, ConnectionsTypeOK, RequestTypeOK, Calls
<1>2. Control
    BY DEF Control
<1>3. Hands
    BY DEF Hands, HeldIsOpen, HeldOnce, OpenIsHeld, Open, Holding
<1> QED BY <1>1, <1>2, <1>3 DEF SafeInv

\* Nobody gets a socket or gives one away.
LEMMA HandsStay ==
    ASSUME Hands, Open' = Open, UNCHANGED <<taskQueue, newConnSocket>>,
           \A v \in Workers :
              /\ step'[v] \in Holding <=> step[v] \in Holding
              /\ step[v] \in Holding => task'[v] = task[v]
    PROVE  Hands'
<1>1. HeldIsOpen'
    BY DEF Hands, HeldIsOpen
<1>2. HeldOnce'
    BY DEF Hands, HeldOnce
<1>3. OpenIsHeld'
    BY DEF Hands, OpenIsHeld
<1> QED BY <1>1, <1>2, <1>3 DEF Hands

\* What a client does changes no socket and nothing of the server.
LEMMA ClientKeepsSafe ==
    ASSUME SafeInv, NEW c \in Clients, ClientStep(c),
           UNCHANGED <<poolVars, requestVars, counters, main, newConnSocket>>
    PROVE  SafeInv'
<1> USE ConnectionsAssumption DEF SafeInv
<1>1. ConnectionTypes'
    <2> USE DEF Types, ConnectionTypes, ConnectionsTypeOK
    <2>1. CASE Connect(c)
        BY <2>1 DEF Connect
    <2>2. CASE SendSegment(c)
        BY <2>2 DEF SendSegment
    <2>3. CASE Leave(c)
        BY <2>3 DEF Leave
    <2> QED BY <2>1, <2>2, <2>3 DEF ClientStep
<1>2. UNCHANGED peer
    BY DEF ClientStep, Connect, SendSegment, Leave
<1>3. Types'
    BY <1>1 DEF Types, RequestTypeOK, poolVars, requestVars, counters
<1>4. Control'
    BY DEF Control, poolVars, requestVars
<1>5. Hands'
    BY <1>2 DEF Hands, HeldIsOpen, HeldOnce, OpenIsHeld, Open, poolVars, requestVars
<1> QED BY <1>3, <1>4, <1>5

\* A free number is taken for the connection.
LEMMA AcceptKeepsSafe ==
    ASSUME SafeInv, Accept PROVE SafeInv'
<1> USE ConnectionsAssumption, PoolServerAssumption DEF SafeInv
<1> PICK s \in Sockets : AcceptOn(s) /\ newConnSocket' = s
    BY DEF Accept
<1>1. /\ main = "accept" /\ main' = "current"
      /\ UNCHANGED <<poolVars, requestVars, counters>>
    BY DEF Accept, After
<1>2. ConnectionTypes'
    <2> USE DEF Types, ConnectionTypes, ConnectionsTypeOK
    <2>1. /\ backlog \in Seq(Clients) /\ backlog # <<>>
          /\ peer' = [peer EXCEPT ![s] = Head(backlog)]
          /\ backlog' = Tail(backlog)
          /\ UNCHANGED <<sent, unread, connected, left, closed, replied>>
        BY DEF AcceptOn
    <2>2. /\ Head(backlog) = backlog[1] /\ 1 \in 1..Len(backlog)
          /\ backlog' \in Seq(Clients)
          /\ \A k \in 1..Len(backlog') :
                backlog'[k] = backlog[k + 1] /\ k + 1 \in 1..Len(backlog)
        BY <2>1
    <2> QED BY <2>1, <2>2
<1>3. Types'
    BY <1>1, <1>2 DEF Types, RequestTypeOK, Calls, poolVars, requestVars, counters
<1>4. Control'
    BY <1>1 DEF Control, poolVars, requestVars
<1>5. s \notin Open /\ Open' = Open \cup {s}
    <2>1. Head(backlog) \in Clients
        BY DEF AcceptOn, Types, ConnectionTypes, ConnectionsTypeOK
    <2> QED BY <2>1 DEF AcceptOn, Open, Types, ConnectionTypes, ConnectionsTypeOK
<1>6. Hands'
    <2>1. newConnSocket = NoSocket /\ newConnSocket' = s /\ s # NoSocket
        BY <1>1 DEF Control
    <2>2. UNCHANGED <<taskQueue, task, step>>
        BY <1>1 DEF poolVars, requestVars
    <2>3. HeldIsOpen'
        BY <1>5, <2>1, <2>2 DEF Hands, HeldIsOpen
    <2>4. HeldOnce'
        BY <1>5, <2>1, <2>2 DEF Hands, HeldIsOpen, HeldOnce
    <2>5. OpenIsHeld'
        BY <1>5, <2>1, <2>2 DEF Hands, OpenIsHeld, Open
    <2> QED BY <2>3, <2>4, <2>5 DEF Hands
<1> QED BY <1>3, <1>4, <1>6

LEMMA AcceptFailsKeepsSafe ==
    ASSUME SafeInv, AcceptFails PROVE SafeInv'
<1> USE ConnectionsAssumption DEF SafeInv, AcceptFails
<1>1. ConnectionTypes'
    <2> USE DEF Types, ConnectionTypes, ConnectionsTypeOK
    <2>1. /\ backlog \in Seq(Clients) /\ backlog # <<>>
          /\ backlog' = Tail(backlog)
          /\ closed' = closed \cup {Head(backlog)}
          /\ UNCHANGED <<peer, sent, unread, connected, left, replied>>
        BY DEF AcceptAborted
    <2>2. /\ Head(backlog) = backlog[1] /\ 1 \in 1..Len(backlog)
          /\ backlog' \in Seq(Clients)
          /\ \A k \in 1..Len(backlog') :
                backlog'[k] = backlog[k + 1] /\ k + 1 \in 1..Len(backlog)
        BY <2>1
    <2>3. /\ closed' \subseteq connected
          /\ \A k \in 1..Len(backlog') : backlog'[k] \in connected
        BY <2>1, <2>2
    <2> QED BY <2>1, <2>2, <2>3
<1>2. Types'
    BY <1>1 DEF Types, RequestTypeOK, poolVars, requestVars, counters
<1>3. Control' /\ Hands'
    BY DEF Control, Hands, HeldIsOpen, HeldOnce, OpenIsHeld, Open, AcceptAborted,
           poolVars, requestVars
<1> QED BY <1>2, <1>3

LEMMA CountKeepsSafe ==
    ASSUME SafeInv, Count PROVE SafeInv'
<1> USE DEF SafeInv, Count
<1>1. Types'
    BY DEF Types, ConnectionTypes, ConnectionsTypeOK, RequestTypeOK, Calls, After,
           addCurrentConnectionNumber, addTotalConnectionNumber,
           addTotalReceivedRequestNumber, connVars, poolVars, requestVars
<1>2. Control'
    BY DEF Control, After, poolVars, requestVars
<1>3. Hands'
    BY DEF Hands, HeldIsOpen, HeldOnce, OpenIsHeld, Open, connVars, poolVars,
           requestVars
<1> QED BY <1>1, <1>2, <1>3

\* The socket goes from the main thread to the queue.
LEMMA SubmitKeepsSafe ==
    ASSUME SafeInv, Submit PROVE SafeInv'
<1> USE ConnectionsAssumption, PoolServerAssumption DEF SafeInv
<1>1. /\ main = "submit" /\ main' = "accept" /\ newConnSocket' = NoSocket
      /\ taskQueue' = Append(taskQueue, newConnSocket)
      /\ UNCHANGED <<connVars, requestVars, counters, task, worker,
                     currentWorkerNumber>>
    BY DEF Submit, SubmitTask, Queue!Put, After
<1>2. newConnSocket \in Sockets
    BY <1>1 DEF Control, Types
<1>3. Types'
    BY <1>1, <1>2 DEF Types, ConnectionTypes, ConnectionsTypeOK, RequestTypeOK,
                      Calls, connVars, requestVars, counters
<1>4. Control'
    BY <1>1 DEF Control, requestVars
<1>5. Hands'
    <2>1. /\ Len(taskQueue') = Len(taskQueue) + 1
          /\ taskQueue'[Len(taskQueue) + 1] = newConnSocket
          /\ \A k \in 1..Len(taskQueue) : taskQueue'[k] = taskQueue[k]
          /\ Len(taskQueue) \in Nat
        BY <1>1, <1>2 DEF Types
    <2>2. UNCHANGED <<Open, step, task>> /\ NoSocket \notin Open
        BY <1>1 DEF Open, connVars, requestVars
    <2>3. HeldIsOpen'
        BY <1>1, <1>2, <2>1, <2>2 DEF Hands, HeldIsOpen
    <2>4. HeldOnce'
        <3>1. \A k \in 1..Len(taskQueue') : taskQueue'[k] # NoSocket
            BY <2>1, <2>2, <2>3, <1>1 DEF HeldIsOpen
        <3>2. \A w \in Workers : step[w] \in Holding => task[w] # NoSocket
            BY <2>2 DEF Hands, HeldIsOpen
        <3> QED BY <1>1, <1>2, <2>1, <2>2, <3>1, <3>2 DEF Hands, HeldOnce
    <2>5. OpenIsHeld'
        <3> SUFFICES ASSUME NEW s \in Open
                     PROVE  \/ \E k \in 1..Len(taskQueue') : taskQueue'[k] = s
                            \/ \E w \in Workers : step[w] \in Holding /\ task[w] = s
            BY <2>2 DEF OpenIsHeld
        <3>1. CASE newConnSocket = s
            BY <2>1, <3>1
        <3>2. CASE \E k \in 1..Len(taskQueue) : taskQueue[k] = s
            BY <2>1, <3>2
        <3> QED BY <3>1, <3>2 DEF Hands, OpenIsHeld
    <2> QED BY <2>3, <2>4, <2>5 DEF Hands
<1> QED BY <1>3, <1>4, <1>5

\* The socket goes from the queue to a worker.
LEMMA TakeKeepsSafe ==
    ASSUME SafeInv, NEW w \in Workers, Take(w),
           UNCHANGED <<counters, main, newConnSocket>>
    PROVE  SafeInv'
<1> USE ConnectionsAssumption, PoolServerAssumption DEF SafeInv
<1>1. /\ worker[w] = "getTask" /\ worker' = [worker EXCEPT ![w] = "task"]
      /\ taskQueue # <<>> /\ taskQueue' = Tail(taskQueue)
      /\ task' = [task EXCEPT ![w] = Head(taskQueue)]
      /\ step' = [step EXCEPT ![w] = "recv"]
      /\ UNCHANGED <<currentWorkerNumber, data, connVars>>
    BY DEF Take, GetTask, Queue!Get, Goto
<1>2. /\ Len(taskQueue) \in Nat \ {0} /\ Len(taskQueue') = Len(taskQueue) - 1
      /\ Head(taskQueue) = taskQueue[1] /\ taskQueue[1] \in Sockets
      /\ \A k \in 1..Len(taskQueue') : taskQueue'[k] = taskQueue[k + 1]
      /\ taskQueue' \in Seq(Sockets)
    BY <1>1 DEF Types
<1>3. Types'
    BY <1>1, <1>2 DEF Types, ConnectionTypes, ConnectionsTypeOK, RequestTypeOK,
                      connVars, counters
<1>4. Control' /\ step[w] = "idle"
    BY <1>1 DEF Control, Types, RequestTypeOK
<1>5. Hands'
    <2> DEFINE s == taskQueue[1]
    <2>1. /\ UNCHANGED <<Open, newConnSocket>>
          /\ step'[w] = "recv" /\ task'[w] = s
          /\ \A v \in Workers \ {w} : step'[v] = step[v] /\ task'[v] = task[v]
        BY <1>1, <1>2 DEF Open, connVars, Types, RequestTypeOK
    <2>2. HeldIsOpen'
        BY <1>2, <2>1 DEF Hands, HeldIsOpen
    <2>3. HeldOnce'
        <3>1. 1 \in 1..Len(taskQueue) /\ \A k \in 1..Len(taskQueue') :
                  k + 1 \in 1..Len(taskQueue) /\ k + 1 # 1
            BY <1>2
        <3>2. \A k, n \in 1..Len(taskQueue') : taskQueue'[k] = taskQueue'[n] => k = n
            <4> TAKE k, n \in 1..Len(taskQueue')
            <4> HAVE taskQueue'[k] = taskQueue'[n]
            <4>1. k + 1 = n + 1
                BY <1>2, <3>1 DEF Hands, HeldOnce
            <4> QED BY <4>1, <1>2
        <3>3. \A k \in 1..Len(taskQueue') : taskQueue'[k] # s
            BY <1>2, <3>1 DEF Hands, HeldOnce
        <3>4. \A k \in 1..Len(taskQueue') :
                  taskQueue'[k] # newConnSocket /\ s # newConnSocket
            BY <1>2, <3>1 DEF Hands, HeldOnce
        <3>5. \A v \in Workers \ {w} : step[v] \in Holding =>
                  task[v] # s /\ \A k \in 1..Len(taskQueue') : task[v] # taskQueue'[k]
            BY <1>2, <3>1 DEF Hands, HeldOnce
        <3> QED BY <2>1, <3>1, <3>2, <3>3, <3>4, <3>5 DEF Hands, HeldOnce
    <2>4. OpenIsHeld'
        <3> SUFFICES ASSUME NEW r \in Open
                     PROVE  \/ newConnSocket = r
                            \/ \E k \in 1..Len(taskQueue') : taskQueue'[k] = r
                            \/ \E v \in Workers : step'[v] \in Holding /\ task'[v] = r
            BY <2>1 DEF OpenIsHeld
        <3>1. CASE r = s
            BY <2>1, <3>1 DEF Holding
        <3>2. ASSUME NEW k \in 1..Len(taskQueue), taskQueue[k] = r, r # s
              PROVE  \E n \in 1..Len(taskQueue') : taskQueue'[n] = r
            <4>1. k - 1 \in 1..Len(taskQueue') /\ k = (k - 1) + 1
                BY <3>2, <1>2
            <4> QED BY <4>1, <3>2, <1>2
        <3>3. ASSUME NEW v \in Workers, step[v] \in Holding, task[v] = r
              PROVE  step'[v] \in Holding /\ task'[v] = r
            BY <3>3, <1>4, <2>1 DEF Holding
        <3> QED BY <3>1, <3>2, <3>3 DEF Hands, OpenIsHeld
    <2> QED BY <2>2, <2>3, <2>4 DEF Hands
<1> QED BY <1>3, <1>4, <1>5

\* The steps of a worker that leave every socket where it is.
LEMMA WorkerKeepsSafe ==
    ASSUME SafeInv, NEW w \in Workers,
           \/ WorkerStarts(w) /\ UNCHANGED <<requestVars, connVars, counters>>
           \/ (Recv(w) \/ RecvThrows(w) \/ Send(w)) /\ UNCHANGED counters
           \/ SubCurrent(w)
           \/ CountResponded(w),
           UNCHANGED <<main, newConnSocket>>
    PROVE  SafeInv'
<1> USE ConnectionsAssumption, PoolServerAssumption DEF SafeInv
<1>1. CASE WorkerStarts(w) /\ UNCHANGED <<requestVars, connVars, counters>>
    <2> USE <1>1 DEF WorkerStarts, requestVars, connVars, counters
    <2>1. Types'
        BY DEF Types, ConnectionTypes, ConnectionsTypeOK, RequestTypeOK
    <2>2. Control'
        BY DEF Types, Control
    <2>3. Hands'
        BY HandsStay DEF Open
    <2> QED BY <2>1, <2>2, <2>3
<1>2. CASE Recv(w) /\ UNCHANGED counters
    <2>1. PICK next \in {"recv", "close", "send"} : step' = [step EXCEPT ![w] = next]
        BY <1>2 DEF Recv, Goto
    <2>2. /\ step[w] = "recv" /\ task[w] \in Open
          /\ unread' = [unread EXCEPT ![peer[task[w]]] = 0]
          /\ data' = [data EXCEPT ![w] = @ + unread[peer[task[w]]]]
          /\ UNCHANGED <<backlog, peer, sent, connected, left, closed, replied,
                         poolVars, counters>>
        BY <1>2 DEF Recv, Receive
    <2>3. peer[task[w]] \in Clients
        BY <2>2 DEF Open, Types, ConnectionTypes, ConnectionsTypeOK
    <2>4. ConnectionTypes'
        BY <2>2, <2>3 DEF Types, ConnectionTypes, ConnectionsTypeOK
    <2>5. Types'
        BY <2>1, <2>2, <2>3, <2>4 DEF Types, ConnectionTypes, RequestTypeOK, poolVars, counters
    <2>6. Control'
        BY <2>1, <2>2 DEF Types, RequestTypeOK, Control, poolVars
    <2>7. Hands'
        BY <2>1, <2>2, HandsStay DEF Types, RequestTypeOK, Open, Holding, poolVars
    <2> QED BY <2>5, <2>6, <2>7
<1>3. CASE RecvThrows(w) /\ UNCHANGED counters
    <2> USE <1>3 DEF RecvThrows, Goto, connVars, poolVars, counters
    <2>1. Types'
        BY DEF Types, ConnectionTypes, ConnectionsTypeOK, RequestTypeOK
    <2>2. Control'
        BY DEF Types, RequestTypeOK, Control
    <2>3. Hands'
        BY HandsStay DEF Types, RequestTypeOK, Open, Holding
    <2> QED BY <2>1, <2>2, <2>3
<1>4. CASE Send(w) /\ UNCHANGED counters
    <2> USE <1>4 DEF Send, SendTo, Goto, poolVars, counters
    <2>1. task[w] \in Sockets
        BY DEF Hands, HeldIsOpen, Open, Holding
    <2>2. Types'
        BY <2>1 DEF Types, ConnectionTypes, ConnectionsTypeOK, RequestTypeOK
    <2>3. Control'
        BY DEF Types, RequestTypeOK, Control
    <2>4. Hands'
        BY HandsStay DEF Types, RequestTypeOK, Open, Holding
    <2> QED BY <2>2, <2>3, <2>4
<1>5. CASE SubCurrent(w)
    <2> USE <1>5 DEF SubCurrent, subCurrentConnectionNumber, Goto, connVars, poolVars
    <2>1. Types'
        BY DEF Types, ConnectionTypes, ConnectionsTypeOK, RequestTypeOK
    <2>2. Control'
        BY DEF Types, RequestTypeOK, Control
    <2>3. Hands'
        BY HandsStay DEF Types, RequestTypeOK, Open, Holding
    <2> QED BY <2>1, <2>2, <2>3
<1>6. CASE CountResponded(w)
    <2> USE <1>6 DEF CountResponded, addTotalRespondedRequestNumber, Finish,
                     TaskEnds, Queue!Release, Goto, connVars
    <2>1. Types'
        BY DEF Types, ConnectionTypes, ConnectionsTypeOK, RequestTypeOK
    <2>2. Control'
        BY DEF Types, RequestTypeOK, Control
    <2>3. Hands'
        BY HandsStay DEF Types, RequestTypeOK, Open, Holding
    <2> QED BY <2>1, <2>2, <2>3
<1> QED BY <1>1, <1>2, <1>3, <1>4, <1>5, <1>6

\* The worker lets go of the socket as it closes it.
LEMMA CloseKeepsSafe ==
    ASSUME SafeInv, NEW w \in Workers, Close(w),
           UNCHANGED <<counters, main, newConnSocket>>
    PROVE  SafeInv' /\ task[w] \in Open /\ Open' = Open \ {task[w]}
<1> USE ConnectionsAssumption, PoolServerAssumption DEF SafeInv
<1> DEFINE s == task[w]
<1>1. /\ step[w] = "close" /\ step' = [step EXCEPT ![w] = "callback"]
      /\ peer' = [peer EXCEPT ![s] = NoClient]
      /\ closed' = closed \cup ({peer[s]} \ {NoClient})
      /\ unread' = [c \in Clients |-> IF c = peer[s] THEN 0 ELSE unread[c]]
      /\ UNCHANGED <<backlog, sent, connected, left, replied, data, poolVars>>
    BY DEF Close, CloseSocket, Goto
<1>2. s \in Open
    BY <1>1 DEF Hands, HeldIsOpen, Holding
<1>3. Open' = Open \ {s}
    BY <1>1, <1>2 DEF Open, Types, ConnectionTypes, ConnectionsTypeOK
<1>4. ConnectionTypes'
    BY <1>1, <1>2 DEF Types, ConnectionTypes, ConnectionsTypeOK, Open
<1>5. Types'
    BY <1>1, <1>4 DEF Types, RequestTypeOK, poolVars, counters
<1>6. Control'
    BY <1>1 DEF Control, Types, RequestTypeOK, poolVars
<1>7. Hands'
    <2>1. /\ step'[w] \notin Holding /\ step[w] \in Holding
          /\ \A v \in Workers \ {w} : step'[v] = step[v]
          /\ UNCHANGED <<taskQueue, task, newConnSocket>>
        BY <1>1 DEF Types, RequestTypeOK, Holding, poolVars
    <2>2. HeldIsOpen'
        BY <1>3, <2>1 DEF Hands, HeldIsOpen, HeldOnce
    <2>3. HeldOnce'
        BY <2>1 DEF Hands, HeldOnce
    <2>4. OpenIsHeld'
        BY <1>3, <2>1 DEF Hands, OpenIsHeld
    <2> QED BY <2>2, <2>3, <2>4 DEF Hands
<1> QED BY <1>2, <1>3, <1>5, <1>6, <1>7

LEMMA NextKeepsSafe == SafeInv /\ [Next]_vars => SafeInv'
<1> SUFFICES ASSUME SafeInv, [Next]_vars PROVE SafeInv'
    OBVIOUS
<1>1. CASE MainStep
    BY <1>1, AcceptKeepsSafe, AcceptFailsKeepsSafe, CountKeepsSafe, SubmitKeepsSafe
       DEF MainStep
<1>2. ASSUME NEW w \in Workers, WorkerStep(w) PROVE SafeInv'
    BY <1>2, WorkerKeepsSafe, TakeKeepsSafe, CloseKeepsSafe DEF WorkerStep, Handle
<1>3. ASSUME NEW c \in Clients, ClientStep(c),
             UNCHANGED <<poolVars, requestVars, counters, main, newConnSocket>>
      PROVE  SafeInv'
    BY <1>3, ClientKeepsSafe
<1>4. CASE UNCHANGED vars
    BY <1>4 DEF vars, SafeInv, Types, ConnectionTypes, ConnectionsTypeOK,
                RequestTypeOK, Control, Hands, HeldIsOpen, HeldOnce, OpenIsHeld,
                Open, connVars, poolVars, requestVars, counters
<1> QED BY <1>1, <1>2, <1>3, <1>4 DEF Next

----------------------------------------------------------------------------
(* The counters.  Open, Calling, Busy and Started gain or lose one member  *)
(* at a time, and the counter goes along.                                  *)

LEMMA CountedAreFinite ==
    /\ IsFiniteSet(Open) /\ Cardinality(Open) \in Nat
    /\ IsFiniteSet(Calling) /\ Cardinality(Calling) \in Nat
    /\ IsFiniteSet(Busy) /\ Cardinality(Busy) \in Nat
    /\ IsFiniteSet(Started) /\ Cardinality(Started) \in Nat
<1>1. /\ Open \subseteq Sockets /\ Calling \subseteq Workers
      /\ Busy \subseteq Workers /\ Started \subseteq Workers
    BY DEF Open, Calling, Busy, Started
<1>2. /\ IsFiniteSet(Open) /\ IsFiniteSet(Calling)
      /\ IsFiniteSet(Busy) /\ IsFiniteSet(Started)
    BY <1>1, FS_Subset, ConnectionsAssumption, PoolServerAssumption
<1> QED BY <1>2, FS_CardinalityType

LEMMA InitNumbers == Init => Numbers
<1> SUFFICES ASSUME Init PROVE Numbers
    OBVIOUS
<1>1. Open = {} /\ Calling = {} /\ Busy = {} /\ Started = {} /\ taskQueue = <<>>
    BY DEF Init, ConnectionsInit, PoolInit, RequestInit, Queue!Init, Open,
           Calling, Busy, Started
<1>2. Cardinality({}) = 0
    BY FS_EmptySet
<1> QED BY <1>1, <1>2 DEF Init, CountersInit, PoolInit, Numbers

LEMMA MainKeepsNumbers ==
    ASSUME SafeInv, Numbers, MainStep PROVE Numbers'
<1> USE CountedAreFinite DEF Numbers
<1>0. /\ Len(taskQueue) \in Nat
      /\ currentConnectionNumber \in Int /\ totalReceivedRequestNumber \in Nat
      /\ totalRespondedRequestNumber \in Nat
    BY DEF SafeInv, Types
<1>1. CASE Accept
    <2>1. PICK s \in Sockets : AcceptOn(s)
        BY <1>1 DEF Accept
    <2>2. Head(backlog) \in Clients
        BY <2>1 DEF AcceptOn, SafeInv, Types, ConnectionTypes, ConnectionsTypeOK
    <2>3. s \notin Open /\ Open' = Open \cup {s}
        BY <2>1, <2>2, ConnectionsAssumption
           DEF AcceptOn, Open, SafeInv, Types, ConnectionTypes, ConnectionsTypeOK
    <2>4. Cardinality(Open') = Cardinality(Open) + 1
        BY <2>3, FS_AddElement
    <2>5. /\ main = "accept" /\ main' = "current"
          /\ UNCHANGED <<Calling, Busy, Started, taskQueue, counters,
                         currentWorkerNumber>>
        BY <1>1 DEF Accept, After, Calling, Busy, Started, poolVars, requestVars
    <2> QED BY <1>0, <2>4, <2>5 DEF counters
<1>2. CASE AcceptFails
    <2>1. UNCHANGED <<Open, Calling, Busy, Started, taskQueue, main, counters,
                      currentWorkerNumber>>
        BY <1>2 DEF AcceptFails, AcceptAborted, Open, Calling, Busy, Started,
                    poolVars, requestVars
    <2> QED BY <2>1 DEF counters
<1>3. CASE Count
    <2>1. UNCHANGED <<Open, Calling, Busy, Started, taskQueue, currentWorkerNumber>>
        BY <1>3 DEF Count, Open, Calling, Busy, Started, connVars, poolVars,
                    requestVars
    <2>2. CASE main = "current" /\ main' = "total" /\ addCurrentConnectionNumber
        BY <1>0, <2>1, <2>2 DEF addCurrentConnectionNumber
    <2>3. CASE main = "total" /\ main' = "received" /\ addTotalConnectionNumber
        BY <1>0, <2>1, <2>3 DEF addTotalConnectionNumber
    <2>4. CASE main = "received" /\ main' = "submit" /\ addTotalReceivedRequestNumber
        BY <1>0, <2>1, <2>4 DEF addTotalReceivedRequestNumber
    <2> QED BY <1>3, <2>2, <2>3, <2>4 DEF Count, After
<1>4. CASE Submit
    <2>1. /\ main = "submit" /\ main' = "accept"
          /\ taskQueue' = Append(taskQueue, newConnSocket)
          /\ UNCHANGED <<Open, Calling, Busy, Started, counters, currentWorkerNumber>>
        BY <1>4 DEF Submit, SubmitTask, Queue!Put, After, Open, Calling, Busy,
                    Started, connVars, requestVars
    <2>2. Len(taskQueue') = Len(taskQueue) + 1
        BY <2>1 DEF SafeInv, Types, Control
    <2> QED BY <1>0, <2>1, <2>2 DEF counters
<1> QED BY <1>1, <1>2, <1>3, <1>4 DEF MainStep

LEMMA WorkerKeepsNumbers ==
    ASSUME SafeInv, Numbers, NEW w \in Workers, WorkerStep(w) PROVE Numbers'
<1> USE CountedAreFinite DEF Numbers
<1>0. /\ Len(taskQueue) \in Nat
      /\ currentConnectionNumber \in Int /\ totalReceivedRequestNumber \in Nat
      /\ totalRespondedRequestNumber \in Nat
      /\ worker \in [Workers -> {"start", "getTask", "task"}]
      /\ step \in [Workers -> {"idle", "recv", "send", "close", "callback",
                               "respond"}]
    BY DEF SafeInv, Types, RequestTypeOK
<1>m. UNCHANGED <<main, newConnSocket>>
    BY DEF WorkerStep
<1>1. CASE WorkerStarts(w) /\ UNCHANGED <<requestVars, connVars, counters>>
    <2>1. /\ UNCHANGED <<Open, Calling, Busy, taskQueue, counters>>
          /\ w \notin Started /\ Started' = Started \cup {w}
          /\ currentWorkerNumber' = currentWorkerNumber + 1
        BY <1>0, <1>1 DEF WorkerStarts, Open, Calling, Busy, Started,
                          requestVars, connVars
    <2>2. Cardinality(Started') = Cardinality(Started) + 1
        BY <2>1, FS_AddElement
    <2> QED BY <1>m, <2>1, <2>2 DEF counters
<1>2. CASE Take(w) /\ UNCHANGED counters
    <2>1. worker[w] = "getTask" /\ step[w] = "idle"
        BY <1>0, <1>2 DEF Take, GetTask, SafeInv, Control
    <2>2. /\ taskQueue # <<>> /\ taskQueue' = Tail(taskQueue)
          /\ UNCHANGED <<Open, Calling, Started, currentWorkerNumber>>
          /\ w \notin Busy /\ Busy' = Busy \cup {w}
        BY <1>0, <1>2, <2>1 DEF Take, GetTask, Queue!Get, Goto, Open, Calling,
                                Busy, Started, connVars
    <2>3. Cardinality(Busy') = Cardinality(Busy) + 1
        BY <2>2, FS_AddElement
    <2>4. Len(taskQueue') = Len(taskQueue) - 1
        BY <2>2 DEF SafeInv, Types
    <2> QED BY <1>0, <1>2, <1>m, <2>2, <2>3, <2>4 DEF counters
<1>3. CASE (Recv(w) \/ RecvThrows(w) \/ Send(w)) /\ UNCHANGED counters
    <2>1. /\ UNCHANGED <<peer, poolVars>>
          /\ \E next \in {"recv", "send", "close"} : step' = [step EXCEPT ![w] = next]
          /\ step[w] \in {"recv", "send"}
        BY <1>3 DEF Recv, RecvThrows, Send, Receive, SendTo, Goto, connVars
    <2>2. UNCHANGED <<Open, Calling, Busy, Started, taskQueue, currentWorkerNumber>>
        BY <1>0, <2>1 DEF Open, Calling, Busy, Started, poolVars
    <2> QED BY <1>3, <1>m, <2>2 DEF counters
<1>4. CASE Close(w) /\ UNCHANGED counters
    <2>1. /\ UNCHANGED <<Busy, Started, taskQueue, currentWorkerNumber>>
          /\ w \notin Calling /\ Calling' = Calling \cup {w}
        BY <1>0, <1>4 DEF Close, Goto, Calling, Busy, Started, poolVars
    <2>2. task[w] \in Open /\ Open' = Open \ {task[w]}
        BY <1>4, <1>m, CloseKeepsSafe
    <2>3. Cardinality(Calling') = Cardinality(Calling) + 1
        BY <2>1, FS_AddElement
    <2>4. Cardinality(Open') = Cardinality(Open) - 1
        BY <2>2, FS_RemoveElement
    <2> QED BY <1>0, <1>4, <1>m, <2>1, <2>3, <2>4 DEF counters
<1>5. CASE SubCurrent(w)
    <2>1. /\ UNCHANGED <<Open, Busy, Started, taskQueue, currentWorkerNumber>>
          /\ w \in Calling /\ Calling' = Calling \ {w}
        BY <1>0, <1>5 DEF SubCurrent, Goto, Open, Calling, Busy, Started,
                          connVars, poolVars
    <2>2. Cardinality(Calling') = Cardinality(Calling) - 1
        BY <2>1, FS_RemoveElement
    <2> QED BY <1>0, <1>5, <1>m, <2>1, <2>2 DEF SubCurrent, subCurrentConnectionNumber
<1>6. CASE CountResponded(w)
    <2>1. /\ UNCHANGED <<Open, Calling, Started, taskQueue, currentWorkerNumber>>
          /\ w \in Busy /\ Busy' = Busy \ {w}
        BY <1>0, <1>6 DEF CountResponded, Finish, TaskEnds, Queue!Release, Goto,
                          Open, Calling, Busy, Started, connVars
    <2>2. Cardinality(Busy') = Cardinality(Busy) - 1
        BY <2>1, FS_RemoveElement
    <2>3. /\ UNCHANGED <<currentConnectionNumber, totalReceivedRequestNumber, main>>
          /\ totalRespondedRequestNumber' = totalRespondedRequestNumber + 1
        BY <1>6, <1>m DEF CountResponded, addTotalRespondedRequestNumber
    <2>4. (totalReceivedRequestNumber - totalRespondedRequestNumber)'
              = (Len(taskQueue) + Cardinality(Busy) + (IF main = "submit" THEN 1 ELSE 0))'
        <3>1. Cardinality(Busy) \in Nat /\ Len(taskQueue') = Len(taskQueue)
            BY <2>1, CountedAreFinite
        <3>2. PICK n : n = IF main = "submit" THEN 1 ELSE 0
            OBVIOUS
        <3>3. n \in Nat /\ n = IF main' = "submit" THEN 1 ELSE 0
            BY <2>3, <3>2
        <3>4. totalReceivedRequestNumber - totalRespondedRequestNumber
                  = Len(taskQueue) + Cardinality(Busy) + n
            BY <3>2
        <3> QED BY <1>0, <2>2, <2>3, <3>1, <3>3, <3>4
    <2> QED BY <2>1, <2>3, <2>4
<1> QED BY <1>1, <1>2, <1>3, <1>4, <1>5, <1>6 DEF WorkerStep, Handle

LEMMA NextKeepsNumbers == SafeInv /\ Numbers /\ [Next]_vars => Numbers'
<1> SUFFICES ASSUME SafeInv, Numbers, [Next]_vars PROVE Numbers'
    OBVIOUS
<1>1. ASSUME NEW c \in Clients, ClientStep(c),
             UNCHANGED <<poolVars, requestVars, counters, main, newConnSocket>>
      PROVE  Numbers'
    <2>1. UNCHANGED peer
        BY <1>1 DEF ClientStep, Connect, SendSegment, Leave
    <2> QED BY <1>1, <2>1 DEF Numbers, Open, Calling, Busy, Started, poolVars,
                              requestVars, counters
<1>2. CASE UNCHANGED vars
    BY <1>2 DEF vars, Numbers, Open, Calling, Busy, Started, connVars, poolVars,
                requestVars, counters
<1> QED BY <1>1, <1>2, MainKeepsNumbers, WorkerKeepsNumbers DEF Next

LEMMA Inductive == Spec => []IndInv
<1>1. Init => IndInv
    BY InitSafe, InitNumbers DEF IndInv
<1>2. IndInv /\ [Next]_vars => IndInv'
    BY NextKeepsSafe, NextKeepsNumbers DEF IndInv
<1> QED BY <1>1, <1>2, PTL DEF Spec

----------------------------------------------------------------------------
\* The current number of connections is exact and never negative, whatever the
\* order in which the threads count (HttpServer.h, 126-145).
THEOREM CurrentAlwaysExact == Spec => []CurrentIsExact
<1>1. ASSUME IndInv PROVE CurrentIsExact
    <2> USE <1>1, CountedAreFinite DEF IndInv
    <2>1. main = "current" => Cardinality(Open) >= 1
        <3> SUFFICES ASSUME main = "current" PROVE Cardinality(Open) # 0
            OBVIOUS
        <3>1. newConnSocket \in Open
            BY DEF SafeInv, Control, Hands, HeldIsOpen
        <3> QED BY <3>1, FS_EmptySet
    <2> QED BY <2>1 DEF CurrentIsExact, Numbers, Calling
<1> QED BY <1>1, Inductive, PTL

\* Received minus responded is the number of requests between the two counts:
\* with the main thread, queued, or being handled (HttpServer.h, 34-37).
InFlightIsExact ==
    totalReceivedRequestNumber - totalRespondedRequestNumber =
        Len(taskQueue) + Cardinality({w \in Workers : step[w] # "idle"})
        + (IF main = "submit" THEN 1 ELSE 0)

\* Received minus responded is the number of requests under way, exceptions
\* included (HttpServer.h, 34-37; HttpResponse.h, 223-233).
THEOREM InFlightAlwaysExact == Spec => []InFlightIsExact
<1>1. IndInv => InFlightIsExact
    BY DEF IndInv, Numbers, InFlightIsExact, Busy
<1> QED BY <1>1, Inductive, PTL

\* The values of the variables are those the code can give them: the counters
\* are natural numbers, and there are never more workers than were created.
LEMMA TypeCorrect == Spec => []TypeOK
<1>1. ASSUME IndInv, CurrentIsExact PROVE TypeOK
    <2> USE <1>1 DEF IndInv, SafeInv
    <2>1. currentConnectionNumber \in Nat
        BY DEF CurrentIsExact, Types
    <2>2. currentWorkerNumber \in 0..Cardinality(Workers)
        <3>1. Started \subseteq Workers
            BY DEF Started
        <3>2. /\ Cardinality(Started) <= Cardinality(Workers)
              /\ Cardinality(Started) \in Nat /\ Cardinality(Workers) \in Nat
            BY <3>1, PoolServerAssumption, FS_Subset, FS_CardinalityType
        <3> QED BY <3>2 DEF Numbers
    <2>3. PoolTypeOK
        BY <2>2, PoolServerAssumption DEF PoolTypeOK, Types
    <2> QED BY <2>1, <2>3 DEF TypeOK, Types, ConnectionTypes
<1> QED BY <1>1, Inductive, CurrentAlwaysExact, PTL

\* Every open socket is in the hands of exactly one of the main thread, the
\* queue and the workers, and nobody has a closed one (HttpServer_v1_1.h, 33-44).
THEOREM SocketsOwnedOnce == Spec => []OwnedOnce
<1>1. ASSUME IndInv, TypeOK PROVE OwnedOnce
    <2> USE <1>1, ConnectionsAssumption DEF IndInv, SafeInv, Hands
    <2> SUFFICES ASSUME NEW s \in Sockets
                 PROVE  Cardinality(Using(s)) + Cardinality(Queued(s))
                            + (IF newConnSocket = s THEN 1 ELSE 0)
                        = IF s \in Open THEN 1 ELSE 0
        BY DEF OwnedOnce
    <2>0. /\ DOMAIN taskQueue = 1..Len(taskQueue)
          /\ s # NoSocket
          /\ Cardinality({}) = 0
        BY FS_EmptySet DEF Types
    <2>1. CASE newConnSocket = s
        <3>1. Using(s) = {} /\ Queued(s) = {} /\ s \in Open
            BY <2>0, <2>1 DEF HeldIsOpen, HeldOnce, Using, Queued, Holding
        <3> QED BY <2>0, <2>1, <3>1
    <2>2. ASSUME NEW k \in 1..Len(taskQueue), taskQueue[k] = s
          PROVE  Cardinality(Using(s)) + Cardinality(Queued(s)) = 1
                 /\ s \in Open /\ newConnSocket # s
        <3>1. Using(s) = {} /\ Queued(s) = {k} /\ s \in Open /\ newConnSocket # s
            BY <2>0, <2>2 DEF HeldIsOpen, HeldOnce, Using, Queued, Holding
        <3>2. Cardinality({k}) = 1
            BY FS_Singleton
        <3> QED BY <2>0, <3>1, <3>2
    <2>3. ASSUME NEW w \in Workers, step[w] \in Holding, task[w] = s
          PROVE  Cardinality(Using(s)) + Cardinality(Queued(s)) = 1
                 /\ s \in Open /\ newConnSocket # s
        <3>1. Using(s) = {w} /\ Queued(s) = {} /\ s \in Open /\ newConnSocket # s
            BY <2>0, <2>3 DEF HeldIsOpen, HeldOnce, Using, Queued, Holding
        <3>2. Cardinality({w}) = 1
            BY FS_Singleton
        <3> QED BY <2>0, <3>1, <3>2
    <2>4. CASE s \notin Open
        <3>1. Using(s) = {} /\ Queued(s) = {} /\ newConnSocket # s
            BY <2>0, <2>4 DEF HeldIsOpen, Using, Queued, Holding
        <3> QED BY <2>0, <2>4, <3>1
    <2>5. CASE \E k \in 1..Len(taskQueue) : taskQueue[k] = s
        BY <2>2, <2>5
    <2>6. CASE \E w \in Workers : step[w] \in Holding /\ task[w] = s
        BY <2>3, <2>6
    <2> QED BY <2>1, <2>4, <2>5, <2>6 DEF OpenIsHeld
<1> QED BY <1>1, Inductive, TypeCorrect, PTL

----------------------------------------------------------------------------
(* What the workers collect.                                               *)

\* Nothing of what c sent has been received.
Untouched(c) == unread[c] = sent[c]

\* A good request, received to its end.
Whole(c) == Request[c].kind = "good" /\ sent[c] = Request[c].segments /\ unread[c] = 0

\* A client is in the listen queue or behind a socket, and only once.
OnePlace ==
    /\ \A j, k \in 1..Len(backlog) : backlog[j] = backlog[k] => j = k
    /\ \A k \in 1..Len(backlog), s \in Sockets : peer[s] # backlog[k]
    /\ \A r, s \in Open : peer[r] = peer[s] => r = s

\* Only a worker receives.
NotReceivedYet ==
    /\ \A c \in Clients \ connected : sent[c] = 0 /\ unread[c] = 0
    /\ \A k \in 1..Len(backlog) : Untouched(backlog[k])
    /\ newConnSocket # NoSocket => Untouched(peer[newConnSocket])
    /\ \A k \in 1..Len(taskQueue) : Untouched(peer[taskQueue[k]])

Collected ==
    \A w \in Workers :
        /\ step[w] = "idle" => data[w] = 0
        /\ step[w] = "recv" => data[w] + unread[peer[task[w]]] = sent[peer[task[w]]]
        /\ step[w] = "send" => Whole(peer[task[w]])

ReadInv == OnePlace /\ NotReceivedYet /\ Collected /\ \A c \in replied : Whole(c)

LEMMA InitRead == Init => ReadInv
    BY ConnectionsAssumption, PoolServerAssumption
       DEF Init, ConnectionsInit, PoolInit, RequestInit, Queue!Init, ReadInv, OnePlace,
           NotReceivedYet, Collected, Untouched, Open

\* The clients of the queued sockets, of the main thread's and of the workers'
\* are clients.
LEMMA PeersAreClients ==
    ASSUME SafeInv
    PROVE  /\ \A s \in Open : s \in Sockets /\ peer[s] \in Clients
           /\ \A k \in 1..Len(backlog) : backlog[k] \in Clients /\ backlog[k] \in connected
           /\ \A c \in Clients : sent[c] \in Nat /\ unread[c] \in Nat /\ Request[c].segments \in Nat
           /\ replied \subseteq Clients /\ connected \subseteq Clients
           /\ \A w \in Workers : data[w] \in Nat
<1> USE ConnectionsAssumption DEF SafeInv, Types, ConnectionTypes, ConnectionsTypeOK
<1>1. \A s \in Open : s \in Sockets /\ peer[s] \in Clients
    BY DEF Open
<1>2. \A k \in 1..Len(backlog) : backlog[k] \in Clients /\ backlog[k] \in connected
    OBVIOUS
<1>3. replied \subseteq Clients /\ connected \subseteq Clients
    OBVIOUS
<1>4. \A w \in Workers : data[w] \in Nat
    BY DEF RequestTypeOK
<1>5. \A c \in Clients : Request[c].segments \in Nat
    OBVIOUS
<1>6. \A c \in Clients : sent[c] \in Nat /\ unread[c] \in Nat
    OBVIOUS
<1> QED BY <1>1, <1>2, <1>3, <1>4, <1>5, <1>6

\* What a client sends is unread, and nobody takes it for received.
LEMMA ClientKeepsRead ==
    ASSUME SafeInv, ReadInv, NEW c \in Clients, ClientStep(c),
           UNCHANGED <<poolVars, requestVars, counters, main, newConnSocket>>
    PROVE  ReadInv'
<1> USE PeersAreClients
<1>0. /\ UNCHANGED <<peer, replied, taskQueue, task, step, data, newConnSocket>>
      /\ Open' = Open
    BY DEF ClientStep, Connect, SendSegment, Leave, poolVars, requestVars, Open
<1>1. CASE Connect(c)
    <2>1. /\ c \notin connected /\ connected' = connected \cup {c}
          /\ backlog' = Append(backlog, c) /\ UNCHANGED <<sent, unread>>
        BY <1>1 DEF Connect
    <2>2. /\ Len(backlog) \in Nat /\ Len(backlog') = Len(backlog) + 1
          /\ backlog'[Len(backlog) + 1] = c
          /\ \A k \in 1..Len(backlog) : backlog'[k] = backlog[k]
        BY <2>1 DEF SafeInv, Types, ConnectionTypes, ConnectionsTypeOK
    <2>3. \A k \in 1..Len(backlog) : backlog[k] # c
        BY <2>1
    <2>4. \A s \in Sockets : peer[s] # c
        BY <2>1, ConnectionsAssumption DEF SafeInv, Types, ConnectionTypes
    <2>5. OnePlace'
        BY <1>0, <2>2, <2>3, <2>4 DEF ReadInv, OnePlace
    <2>6. NotReceivedYet'
        BY <1>0, <2>1, <2>2 DEF ReadInv, NotReceivedYet, Untouched
    <2>7. Collected' /\ \A d \in replied' : Whole(d)'
        BY <1>0, <2>1 DEF ReadInv, Collected, Whole
    <2> QED BY <2>5, <2>6, <2>7 DEF ReadInv
<1>2. CASE SendSegment(c)
    <2>1. /\ c \in connected /\ sent[c] < Request[c].segments
          /\ \A d \in Clients \ {c} : sent'[d] = sent[d] /\ unread'[d] = unread[d]
          /\ sent'[c] = sent[c] + 1 /\ unread'[c] = unread[c] + 1
          /\ UNCHANGED <<backlog, connected>>
        BY <1>2 DEF SendSegment, SafeInv, Types, ConnectionTypes
    <2>2. \A d \in Clients :
              /\ unread[d] = sent[d] => unread'[d] = sent'[d]
              /\ sent[d] = Request[d].segments /\ unread[d] = 0 =>
                     sent'[d] = Request[d].segments /\ unread'[d] = 0
        BY <2>1
    <2>3. \A d \in Clients, n \in Nat :
              n + unread[d] = sent[d] => n + unread'[d] = sent'[d]
        BY <2>1
    <2>4. OnePlace'
        BY <1>0, <2>1 DEF ReadInv, OnePlace
    <2>5. NotReceivedYet'
        <3>1. \A d \in Clients \ connected' : sent'[d] = 0 /\ unread'[d] = 0
            BY <2>1 DEF ReadInv, NotReceivedYet
        <3>2. \A k \in 1..Len(backlog') : unread'[backlog'[k]] = sent'[backlog'[k]]
            BY <2>1, <2>2 DEF ReadInv, NotReceivedYet, Untouched
        <3>3. newConnSocket # NoSocket =>
                  unread'[peer[newConnSocket]] = sent'[peer[newConnSocket]]
            <4>1. newConnSocket # NoSocket =>
                      /\ peer[newConnSocket] \in Clients
                      /\ unread[peer[newConnSocket]] = sent[peer[newConnSocket]]
                BY DEF ReadInv, NotReceivedYet, Untouched, SafeInv, Hands, HeldIsOpen
            <4> QED BY <2>2, <4>1
        <3>4. \A k \in 1..Len(taskQueue) :
                  unread'[peer[taskQueue[k]]] = sent'[peer[taskQueue[k]]]
            <4>1. \A k \in 1..Len(taskQueue) :
                      /\ peer[taskQueue[k]] \in Clients
                      /\ unread[peer[taskQueue[k]]] = sent[peer[taskQueue[k]]]
                BY DEF ReadInv, NotReceivedYet, Untouched, SafeInv, Hands, HeldIsOpen
            <4> QED BY <2>2, <4>1
        <3> QED BY <1>0, <3>1, <3>2, <3>3, <3>4 DEF NotReceivedYet, Untouched
    <2>6. Collected'
        <3> SUFFICES ASSUME NEW w \in Workers
                     PROVE  /\ step[w] = "idle" => data[w] = 0
                            /\ step[w] = "recv" =>
                                 data[w] + unread'[peer[task[w]]] = sent'[peer[task[w]]]
                            /\ step[w] = "send" =>
                                 /\ Request[peer[task[w]]].kind = "good"
                                 /\ sent'[peer[task[w]]] = Request[peer[task[w]]].segments
                                 /\ unread'[peer[task[w]]] = 0
            BY <1>0 DEF Collected, Whole
        <3>1. step[w] \in {"recv", "send"} => peer[task[w]] \in Clients
            BY DEF SafeInv, Hands, HeldIsOpen, Holding
        <3>2. data[w] \in Nat
            OBVIOUS
        <3>3. /\ step[w] = "idle" => data[w] = 0
              /\ step[w] = "recv" => data[w] + unread[peer[task[w]]] = sent[peer[task[w]]]
              /\ step[w] = "send" => /\ Request[peer[task[w]]].kind = "good"
                                     /\ sent[peer[task[w]]] = Request[peer[task[w]]].segments
                                     /\ unread[peer[task[w]]] = 0
            BY DEF ReadInv, Collected, Whole
        <3> QED BY <2>2, <2>3, <3>1, <3>2, <3>3
    <2>7. \A d \in replied' : Whole(d)'
        <3>1. \A d \in replied : d \in Clients /\ Request[d].kind = "good"
                                /\ sent[d] = Request[d].segments /\ unread[d] = 0
            BY DEF ReadInv, Whole
        <3> QED BY <1>0, <2>2, <3>1 DEF Whole
    <2> QED BY <2>4, <2>5, <2>6, <2>7 DEF ReadInv
<1>3. CASE Leave(c)
    BY <1>0, <1>3 DEF Leave, ReadInv, OnePlace, NotReceivedYet, Collected, Untouched, Whole
<1> QED BY <1>1, <1>2, <1>3 DEF ClientStep

\* The main thread receives nothing: the client goes from the listen queue to a
\* socket, and the socket to the task queue.
LEMMA MainKeepsRead ==
    ASSUME SafeInv, ReadInv, MainStep PROVE ReadInv'
<1> USE PeersAreClients
<1>0. /\ UNCHANGED <<replied, task, step, data, sent, unread, connected>>
      /\ \A c : (Untouched(c) => Untouched(c)') /\ (Whole(c) => Whole(c)')
    BY DEF MainStep, Accept, AcceptOn, AcceptFails, AcceptAborted, Count, Submit, SubmitTask,
           Queue!Put, poolVars, requestVars, connVars, Untouched, Whole
<1>r. \A c \in replied' : Whole(c)'
    BY <1>0 DEF ReadInv
<1>1. ASSUME backlog # <<>>, backlog' = Tail(backlog)
      PROVE  /\ Head(backlog) = backlog[1] /\ 1 \in 1..Len(backlog)
             /\ \A k \in 1..Len(backlog') :
                   backlog'[k] = backlog[k + 1] /\ k + 1 \in 1..Len(backlog) /\ k + 1 # 1
             /\ \A j, k \in 1..Len(backlog') : j + 1 = k + 1 => j = k
    BY <1>1 DEF SafeInv, Types, ConnectionTypes, ConnectionsTypeOK
<1>2. CASE Accept
    <2>1. PICK s \in Sockets : AcceptOn(s) /\ newConnSocket' = s
        BY <1>2 DEF Accept
    <2>2. /\ s \notin Open /\ backlog # <<>> /\ backlog' = Tail(backlog)
          /\ peer'[s] = backlog[1]
          /\ \A r \in Sockets \ {s} : peer'[r] = peer[r]
          /\ taskQueue' = taskQueue
        BY <1>1, <1>2, <2>1 DEF Accept, AcceptOn, poolVars, SafeInv, Types, ConnectionTypes,
                                ConnectionsTypeOK
    <2>3. \A r \in Open : peer'[r] = peer[r] /\ r # s
        BY <2>2
    <2>4. Open' = Open \cup {s}
        BY <1>1, <2>2, ConnectionsAssumption DEF Open
    <2>5. OnePlace'
        <3>1. \A j, k \in 1..Len(backlog') : backlog'[j] = backlog'[k] => j = k
            BY <1>1, <2>2 DEF ReadInv, OnePlace
        <3>2. \A k \in 1..Len(backlog'), r \in Sockets : peer'[r] # backlog'[k]
            BY <1>1, <2>2 DEF ReadInv, OnePlace
        <3>3. \A r \in Open : peer[r] # backlog[1]
            BY <1>1, <2>2 DEF ReadInv, OnePlace
        <3>4. \A q, r \in Open' : peer'[q] = peer'[r] => q = r
            BY <2>2, <2>3, <2>4, <3>3 DEF ReadInv, OnePlace
        <3> QED BY <3>1, <3>2, <3>4 DEF OnePlace
    <2>6. NotReceivedYet'
        <3>1. \A c \in Clients \ connected' : sent'[c] = 0 /\ unread'[c] = 0
            BY <1>0 DEF ReadInv, NotReceivedYet
        <3>2. \A k \in 1..Len(backlog') : Untouched(backlog[k + 1])
            BY <1>1, <2>2 DEF ReadInv, NotReceivedYet
        <3>3. Untouched(backlog[1])
            BY <1>1, <2>2 DEF ReadInv, NotReceivedYet
        <3>4. \A k \in 1..Len(taskQueue) : Untouched(peer[taskQueue[k]])
                                          /\ peer'[taskQueue[k]] = peer[taskQueue[k]]
            BY <2>3 DEF ReadInv, NotReceivedYet, SafeInv, Hands, HeldIsOpen
        <3> QED BY <1>0, <1>1, <2>1, <2>2, <3>1, <3>2, <3>3, <3>4 DEF NotReceivedYet, Untouched
    <2>7. Collected'
        BY <1>0, <2>3 DEF ReadInv, Collected, Whole, SafeInv, Hands, HeldIsOpen, Holding
    <2> QED BY <1>r, <2>5, <2>6, <2>7 DEF ReadInv
<1>3. CASE AcceptFails
    <2>1. /\ backlog # <<>> /\ backlog' = Tail(backlog)
          /\ UNCHANGED <<peer, taskQueue, newConnSocket, Open>>
        BY <1>3 DEF AcceptFails, AcceptAborted, poolVars, Open
    <2>2. OnePlace'
        BY <1>1, <2>1 DEF ReadInv, OnePlace
    <2>3. NotReceivedYet'
        BY <1>0, <1>1, <2>1 DEF ReadInv, NotReceivedYet, Untouched
    <2>4. Collected'
        BY <1>0, <2>1 DEF ReadInv, Collected, Whole
    <2> QED BY <1>r, <2>2, <2>3, <2>4 DEF ReadInv
<1>4. CASE Count
    BY <1>4 DEF Count, connVars, poolVars, requestVars, ReadInv, OnePlace, NotReceivedYet,
                Collected, Untouched, Whole, Open
<1>5. CASE Submit
    <2>1. /\ newConnSocket # NoSocket /\ newConnSocket' = NoSocket
          /\ taskQueue' = Append(taskQueue, newConnSocket)
          /\ UNCHANGED <<connVars, Open>>
        BY <1>5, PoolServerAssumption
           DEF Submit, SubmitTask, Queue!Put, connVars, Open, SafeInv, Control
    <2>2. /\ Len(taskQueue) \in Nat /\ Len(taskQueue') = Len(taskQueue) + 1
          /\ taskQueue'[Len(taskQueue) + 1] = newConnSocket
          /\ \A k \in 1..Len(taskQueue) : taskQueue'[k] = taskQueue[k]
        BY <2>1 DEF SafeInv, Types
    <2>3. OnePlace' /\ Collected'
        BY <1>0, <2>1 DEF ReadInv, OnePlace, Collected, Whole, connVars
    <2>4. NotReceivedYet'
        BY <2>1, <2>2 DEF ReadInv, NotReceivedYet, Untouched, connVars
    <2> QED BY <1>r, <2>3, <2>4 DEF ReadInv
<1> QED BY <1>2, <1>3, <1>4, <1>5 DEF MainStep

\* A worker that starts, throws, or is past the close receives nothing, and
\* nobody gets a socket.
LEMMA OthersKeepRead ==
    ASSUME SafeInv, ReadInv, NEW w \in Workers,
           \/ WorkerStarts(w) /\ UNCHANGED <<requestVars, connVars, counters>>
           \/ RecvThrows(w)
           \/ SubCurrent(w)
           \/ CountResponded(w),
           UNCHANGED <<main, newConnSocket>>
    PROVE  ReadInv'
<1>1. /\ UNCHANGED <<connVars, newConnSocket, taskQueue>>
      /\ \A v \in Workers \ {w} : step'[v] = step[v] /\ data'[v] = data[v] /\ task'[v] = task[v]
      /\ \/ UNCHANGED <<step, data, task>>
         \/ step'[w] \in {"close", "respond"}
         \/ step'[w] = "idle" /\ data'[w] = 0
    BY DEF WorkerStarts, RecvThrows, SubCurrent, CountResponded, Finish, TaskEnds,
           Queue!Release, Goto, requestVars, poolVars, SafeInv, Types, RequestTypeOK
<1>2. OnePlace'
    BY <1>1 DEF ReadInv, OnePlace, connVars, Open
<1>3. NotReceivedYet'
    BY <1>1 DEF ReadInv, NotReceivedYet, Untouched, connVars
<1>4. Collected'
    BY <1>1 DEF ReadInv, Collected, Whole, connVars
<1>5. \A c \in replied' : Whole(c)'
    BY <1>1 DEF ReadInv, Whole, connVars
<1> QED BY <1>2, <1>3, <1>4, <1>5 DEF ReadInv

\* Nothing of what a client sent is received while its socket is queued, and
\* so the worker starts from nothing.
LEMMA TakeKeepsRead ==
    ASSUME SafeInv, ReadInv, NEW w \in Workers, Take(w),
           UNCHANGED <<main, newConnSocket>>
    PROVE  ReadInv'
<1>1. /\ step[w] = "idle" /\ step'[w] = "recv"
      /\ taskQueue # <<>> /\ taskQueue' = Tail(taskQueue)
      /\ task'[w] = Head(taskQueue)
      /\ \A v \in Workers \ {w} : step'[v] = step[v] /\ task'[v] = task[v]
      /\ UNCHANGED <<data, connVars>>
    BY DEF Take, GetTask, Queue!Get, Goto, SafeInv, Types, RequestTypeOK, Control
<1>2. /\ Head(taskQueue) = taskQueue[1] /\ 1 \in 1..Len(taskQueue)
      /\ \A k \in 1..Len(taskQueue') :
            taskQueue'[k] = taskQueue[k + 1] /\ k + 1 \in 1..Len(taskQueue)
    BY <1>1 DEF SafeInv, Types
<1>3. OnePlace'
    BY <1>1 DEF ReadInv, OnePlace, connVars, Open
<1>4. NotReceivedYet'
    BY <1>1, <1>2 DEF ReadInv, NotReceivedYet, Untouched, connVars
<1>5. Collected'
  <2>1. unread[peer[taskQueue[1]]] = sent[peer[taskQueue[1]]] /\ data[w] = 0
      BY <1>1, <1>2 DEF ReadInv, NotReceivedYet, Collected, Untouched
  <2>2. sent[peer[taskQueue[1]]] \in Nat
      BY <1>2, PeersAreClients DEF SafeInv, Hands, HeldIsOpen
  <2>3. data[w] + unread[peer[taskQueue[1]]] = sent[peer[taskQueue[1]]]
      BY <2>1, <2>2
  <2> QED BY <1>1, <1>2, <2>3 DEF ReadInv, Collected, Whole, connVars
<1>6. \A c \in replied' : Whole(c)'
    BY <1>1 DEF ReadInv, Whole, connVars
<1> QED BY <1>3, <1>4, <1>5, <1>6 DEF ReadInv

\* The sockets of two workers, or of a worker and the queue or the main thread,
\* have different clients at their other ends.
LEMMA OtherPeers ==
    ASSUME SafeInv, ReadInv, NEW w \in Workers, step[w] \in Holding
    PROVE  /\ peer[task[w]] \in Clients /\ task[w] \in Open
           /\ \A k \in 1..Len(backlog) : backlog[k] # peer[task[w]]
           /\ newConnSocket # NoSocket => peer[newConnSocket] # peer[task[w]]
           /\ \A k \in 1..Len(taskQueue) : peer[taskQueue[k]] # peer[task[w]]
           /\ \A v \in Workers \ {w} : step[v] \in Holding => peer[task[v]] # peer[task[w]]
<1>1. task[w] \in Open /\ peer[task[w]] \in Clients /\ task[w] \in Sockets
    BY PeersAreClients DEF SafeInv, Hands, HeldIsOpen
<1>2. \A s \in Open : s # task[w] => peer[s] # peer[task[w]]
    BY <1>1 DEF ReadInv, OnePlace
<1>3. \A k \in 1..Len(backlog) : backlog[k] # peer[task[w]]
    BY <1>1 DEF ReadInv, OnePlace
<1>4. newConnSocket # NoSocket => newConnSocket \in Open /\ newConnSocket # task[w]
    BY DEF SafeInv, Hands, HeldIsOpen, HeldOnce
<1>5. \A k \in 1..Len(taskQueue) : taskQueue[k] \in Open /\ taskQueue[k] # task[w]
    BY DEF SafeInv, Hands, HeldIsOpen, HeldOnce
<1>6. \A v \in Workers \ {w} : step[v] \in Holding => task[v] \in Open /\ task[v] # task[w]
    BY DEF SafeInv, Hands, HeldIsOpen, HeldOnce
<1> QED BY <1>1, <1>2, <1>3, <1>4, <1>5, <1>6

LEMMA RecvKeepsRead ==
    ASSUME SafeInv, ReadInv, NEW w \in Workers, Recv(w),
           UNCHANGED <<main, newConnSocket>>
    PROVE  ReadInv'
<1> DEFINE c == peer[task[w]]
<1>1. /\ step[w] = "recv" /\ unread'[c] = 0
      /\ \A d \in Clients \ {c} : unread'[d] = unread[d]
      /\ data'[w] = data[w] + unread[c]
      /\ \A v \in Workers \ {w} : step'[v] = step[v] /\ data'[v] = data[v]
      /\ UNCHANGED <<backlog, peer, sent, connected, replied, poolVars>>
      /\ step'[w] = IF ~isAllData(c, data'[w]) THEN "recv"
                    ELSE IF parseRawDataThrows(c) THEN "close" ELSE "send"
  <2>1. c \in Clients
      BY OtherPeers DEF Recv, Holding
  <2> QED BY <2>1 DEF Recv, Receive, Goto, SafeInv, Types, ConnectionTypes, RequestTypeOK
<1>2. /\ c \in Clients
      /\ \A k \in 1..Len(backlog) : backlog[k] # c
      /\ newConnSocket # NoSocket => peer[newConnSocket] # c
      /\ \A k \in 1..Len(taskQueue) : peer[taskQueue[k]] # c
      /\ \A v \in Workers \ {w} : step[v] \in Holding => peer[task[v]] # c
    BY <1>1, OtherPeers DEF Holding
<1>3. /\ \A s \in Open : peer[s] \in Clients
      /\ \A k \in 1..Len(backlog) : backlog[k] \in Clients
      /\ replied \subseteq Clients /\ data[w] \in Nat /\ sent[c] \in Nat /\ unread[c] \in Nat
    BY <1>2, PeersAreClients
<1> HIDE DEF c
<1>4. OnePlace'
    BY <1>1 DEF ReadInv, OnePlace, Open
<1>5. NotReceivedYet'
  <2>1. \A d \in Clients \ connected : unread'[d] = 0
      BY <1>1 DEF ReadInv, NotReceivedYet
  <2>2. \A k \in 1..Len(backlog) : unread'[backlog[k]] = unread[backlog[k]]
      BY <1>1, <1>2, <1>3
  <2>3. newConnSocket # NoSocket => unread'[peer[newConnSocket]] = unread[peer[newConnSocket]]
      BY <1>1, <1>2, <1>3 DEF SafeInv, Hands, HeldIsOpen
  <2>4. \A k \in 1..Len(taskQueue) :
            unread'[peer[taskQueue[k]]] = unread[peer[taskQueue[k]]]
      BY <1>1, <1>2, <1>3 DEF SafeInv, Hands, HeldIsOpen
  <2>5. UNCHANGED <<backlog, peer, sent, connected, newConnSocket, taskQueue>>
      BY <1>1 DEF poolVars
  <2> QED BY <2>1, <2>2, <2>3, <2>4, <2>5 DEF ReadInv, NotReceivedYet, Untouched
<1>6. Collected'
  <2>1. data'[w] = sent[c] /\ data'[w] + unread'[c] = sent[c]
      BY <1>1, <1>3 DEF ReadInv, Collected, c
  <2>2. step'[w] = "send" => Request[c].kind = "good" /\ sent[c] = Request[c].segments
    <3>1. Request[c].kind \in {"good", "bad", "endless"}
        BY <1>2, ConnectionsAssumption
    <3> QED BY <1>1, <2>1, <3>1 DEF isAllData, parseRawDataThrows
  <2>3. step'[w] # "idle"
      BY <1>1
  <2>4. \A v \in Workers \ {w} : step[v] \in {"recv", "send"} =>
            unread'[peer[task[v]]] = unread[peer[task[v]]]
      BY <1>1, <1>2, <1>3 DEF SafeInv, Hands, HeldIsOpen, Holding
  <2>5. UNCHANGED <<peer, task, sent>>
      BY <1>1 DEF poolVars
  <2>6. ASSUME NEW v \in Workers \ {w}
        PROVE  /\ step'[v] = "idle" => data'[v] = 0
               /\ step'[v] = "recv" => data'[v] + unread'[peer[task[v]]] = sent[peer[task[v]]]
               /\ step'[v] = "send" => /\ Request[peer[task[v]]].kind = "good"
                                       /\ sent[peer[task[v]]] = Request[peer[task[v]]].segments
                                       /\ unread'[peer[task[v]]] = 0
      BY <1>1, <2>4 DEF ReadInv, Collected, Whole
  <2> QED BY <1>1, <2>1, <2>2, <2>3, <2>5, <2>6 DEF Collected, Whole, c
<1>7. \A d \in replied' : Whole(d)'
  <2>1. \A d \in replied : d \in Clients /\ Whole(d)
      BY <1>3 DEF ReadInv
  <2> QED BY <1>1, <2>1 DEF Whole
<1> QED BY <1>4, <1>5, <1>6, <1>7 DEF ReadInv

LEMMA SendKeepsRead ==
    ASSUME SafeInv, ReadInv, NEW w \in Workers, Send(w),
           UNCHANGED <<main, newConnSocket>>
    PROVE  ReadInv'
<1>1. /\ step[w] = "send" /\ step'[w] = "close"
      /\ \A v \in Workers \ {w} : step'[v] = step[v]
      /\ replied' \subseteq replied \cup {peer[task[w]]}
      /\ UNCHANGED <<backlog, peer, sent, unread, connected, data, poolVars>>
    BY DEF Send, SendTo, Goto, SafeInv, Types, RequestTypeOK
<1>2. OnePlace'
    BY <1>1 DEF ReadInv, OnePlace, Open
<1>3. NotReceivedYet'
    BY <1>1 DEF ReadInv, NotReceivedYet, Untouched, poolVars
<1>4. Collected'
    BY <1>1 DEF ReadInv, Collected, Whole, poolVars
<1>5. \A d \in replied' : Whole(d)'
  <2>1. \A d \in replied' : Whole(d)
      BY <1>1 DEF ReadInv, Collected
  <2> QED BY <1>1, <2>1 DEF Whole
<1> QED BY <1>2, <1>3, <1>4, <1>5 DEF ReadInv

\* What is dropped with the socket is its own client's.
LEMMA CloseKeepsRead ==
    ASSUME SafeInv, ReadInv, NEW w \in Workers, Close(w),
           UNCHANGED <<counters, main, newConnSocket>>
    PROVE  ReadInv'
<1> DEFINE c == peer[task[w]]
<1>1. /\ step[w] = "close" /\ step'[w] = "callback"
      /\ \A v \in Workers \ {w} : step'[v] = step[v]
      /\ peer' = [peer EXCEPT ![task[w]] = NoClient]
      /\ unread' = [d \in Clients |-> IF d = c THEN 0 ELSE unread[d]]
      /\ UNCHANGED <<backlog, sent, connected, replied, data, poolVars>>
    BY DEF Close, CloseSocket, Goto, SafeInv, Types, RequestTypeOK
<1>2. /\ c \in Clients
      /\ \A k \in 1..Len(backlog) : backlog[k] # c
      /\ newConnSocket # NoSocket => peer[newConnSocket] # c
      /\ \A k \in 1..Len(taskQueue) : peer[taskQueue[k]] # c
      /\ \A v \in Workers \ {w} : step[v] \in Holding => peer[task[v]] # c
    BY <1>1, OtherPeers DEF Holding
<1>3. /\ \A s \in Open : s \in Sockets /\ peer[s] \in Clients
      /\ \A k \in 1..Len(backlog) : backlog[k] \in Clients
      /\ replied \subseteq Clients
    BY PeersAreClients
<1>4. Open' = Open \ {task[w]} /\ peer \in [Sockets -> Clients \cup {NoClient}]
    BY CloseKeepsSafe DEF SafeInv, Types, ConnectionTypes, ConnectionsTypeOK
<1>5. \A s \in Open : peer[s] # c => peer'[s] = peer[s] /\ unread'[peer[s]] = unread[peer[s]]
    BY <1>1, <1>3, <1>4
<1> HIDE DEF c
<1>6. OnePlace'
  <2>1. \A s \in Sockets : peer'[s] = peer[s] \/ peer'[s] = NoClient
      BY <1>1, <1>4
  <2>2. \A s \in Open' : peer'[s] = peer[s] /\ s \in Open
      BY <1>1, <1>3, <1>4
  <2>3. \A k \in 1..Len(backlog) : backlog[k] # NoClient
      BY <1>3, ConnectionsAssumption
  <2> QED BY <1>1, <2>1, <2>2, <2>3 DEF ReadInv, OnePlace
<1>7. NotReceivedYet'
  <2>1. \A d \in Clients \ connected : unread'[d] = 0
      BY <1>1 DEF ReadInv, NotReceivedYet
  <2>2. \A k \in 1..Len(backlog) : unread'[backlog[k]] = unread[backlog[k]]
      BY <1>1, <1>2, <1>3
  <2>3. newConnSocket # NoSocket =>
            /\ peer'[newConnSocket] = peer[newConnSocket]
            /\ unread'[peer[newConnSocket]] = unread[peer[newConnSocket]]
      BY <1>2, <1>5 DEF SafeInv, Hands, HeldIsOpen
  <2>4. \A k \in 1..Len(taskQueue) :
            /\ peer'[taskQueue[k]] = peer[taskQueue[k]]
            /\ unread'[peer[taskQueue[k]]] = unread[peer[taskQueue[k]]]
      BY <1>2, <1>5 DEF SafeInv, Hands, HeldIsOpen
  <2>5. UNCHANGED <<backlog, sent, connected, newConnSocket, taskQueue>>
      BY <1>1 DEF poolVars
  <2> QED BY <2>1, <2>2, <2>3, <2>4, <2>5 DEF ReadInv, NotReceivedYet, Untouched
<1>8. Collected'
  <2>1. \A v \in Workers \ {w} : step[v] \in {"recv", "send"} =>
            /\ peer'[task[v]] = peer[task[v]]
            /\ unread'[peer[task[v]]] = unread[peer[task[v]]]
      BY <1>2, <1>5 DEF SafeInv, Hands, HeldIsOpen, Holding
  <2>2. UNCHANGED <<task, sent, data>>
      BY <1>1 DEF poolVars
  <2> QED BY <1>1, <2>1, <2>2 DEF ReadInv, Collected, Whole
<1>9. \A d \in replied' : Whole(d)'
  <2>1. \A d \in replied : d \in Clients /\ Whole(d)
      BY <1>3 DEF ReadInv
  <2> QED BY <1>1, <2>1 DEF Whole
<1> QED BY <1>6, <1>7, <1>8, <1>9 DEF ReadInv

LEMMA NextKeepsRead == SafeInv /\ ReadInv /\ [Next]_vars => ReadInv'
<1> SUFFICES ASSUME SafeInv, ReadInv, [Next]_vars PROVE ReadInv'
    OBVIOUS
<1>1. CASE MainStep
    BY <1>1, MainKeepsRead
<1>2. ASSUME NEW w \in Workers, WorkerStep(w) PROVE ReadInv'
    BY <1>2, OthersKeepRead, TakeKeepsRead, RecvKeepsRead, SendKeepsRead, CloseKeepsRead
       DEF WorkerStep, Handle
<1>3. ASSUME NEW c \in Clients, ClientStep(c),
             UNCHANGED <<poolVars, requestVars, counters, main, newConnSocket>>
      PROVE  ReadInv'
    BY <1>3, ClientKeepsRead
<1>4. CASE UNCHANGED vars
    BY <1>4 DEF vars, ReadInv, OnePlace, NotReceivedYet, Collected, Untouched, Whole, Open,
                connVars, poolVars, requestVars
<1> QED BY <1>1, <1>2, <1>3, <1>4 DEF Next

\* What a worker has collected is its own client's, and only a good request
\* that was received to its end is answered, for any number of clients, sockets
\* and workers (HttpRequest.h, 67-105; HttpResponse.h, 203-213).
THEOREM AnswersOnlyWhatWasSent == Spec => []AnswersWhatWasSent
<1>1. Init => SafeInv /\ ReadInv
    BY InitSafe, InitRead
<1>2. SafeInv /\ ReadInv /\ [Next]_vars => (SafeInv /\ ReadInv)'
    BY NextKeepsSafe, NextKeepsRead
<1>3. SafeInv /\ ReadInv => AnswersWhatWasSent
    BY DEF ReadInv, Collected, Whole, AnswersWhatWasSent
<1> QED BY <1>1, <1>2, <1>3, PTL DEF Spec

----------------------------------------------------------------------------
\* The server uses its task queue as FifoQueue allows: what SyncQueue implements
\* is all that the pool needs of it (ThreadPool.h, submitTask and getTask).
THEOREM PoolUsesTheQueue == Spec => Queue!Spec
<1>1. Init => Queue!Init
    BY DEF Init, PoolInit
<1>2. IndInv /\ [Next]_vars => [Queue!Next]_<<taskQueue, task>>
  <2> SUFFICES ASSUME IndInv, [Next]_vars
               PROVE  Queue!Next \/ UNCHANGED <<taskQueue, task>>
      OBVIOUS
  <2>1. CASE Submit
    <3>1. newConnSocket \in Tasks
        BY <2>1, PoolServerAssumption DEF Submit, IndInv, SafeInv, Control, Types
    <3> QED BY <2>1, <3>1 DEF Submit, SubmitTask, Queue!Next
  <2>2. CASE Accept \/ AcceptFails \/ Count
      BY <2>2 DEF Accept, AcceptFails, Count, poolVars
  <2>3. ASSUME NEW w \in Workers, WorkerStep(w)
        PROVE  Queue!Get(w) \/ Queue!Release(w) \/ UNCHANGED <<taskQueue, task>>
      BY <2>3 DEF WorkerStep, WorkerStarts, Take, GetTask, Handle, Recv, RecvThrows, Send, Close,
                  SubCurrent, CountResponded, Finish, TaskEnds, poolVars
  <2>4. CASE UNCHANGED <<poolVars, requestVars, counters, main, newConnSocket>>
      BY <2>4 DEF poolVars
  <2>5. CASE UNCHANGED vars
      BY <2>5 DEF vars, poolVars
  <2> QED BY <2>1, <2>2, <2>3, <2>4, <2>5 DEF Next, MainStep, Queue!Next
<1> QED BY <1>1, <1>2, Inductive, PTL DEF Spec, Queue!Spec
=============================================================================
