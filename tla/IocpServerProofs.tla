-------------------------- MODULE IocpServerProofs --------------------------
(***************************************************************************)
(* What TLC checks of IocpServer on three clients and two workers, proved  *)
(* for any number of clients, sockets, workers and posted accepts: that an *)
(* IO_DATA is in one place, that its socket is its own, why one is lost,   *)
(* and what v4 counts.                                                     *)
(*                                                                         *)
(* Place is inductive alone and Owned rests on it: an IO_DATA in one place *)
(* is closed by one worker, and the number of its socket is not given out  *)
(* before.  Unsent shows that nothing ever reports a reply, so that no     *)
(* worker gets to the code for SEND_FINISHED.  The others rest on these.   *)
(***************************************************************************)
EXTENDS IocpServer, FiniteSetTheorems, TLAPS

\* The types of the connections, with what closed and replied need to stay
\* subsets of connected: only who connected is in the listen queue or a peer.
ConnectionTypes ==
    /\ ConnectionsTypeOK
    /\ sent \in [Clients -> Nat]
    /\ unread \in [Clients -> Nat]
    /\ \A k \in 1..Len(backlog) : backlog[k] \in connected
    /\ \A s \in Sockets : peer[s] \in connected \cup {NoClient}

Completions == [data : IoData, size : Nat \cup {Failed}]

IoTypes ==
    /\ allocated \subseteq IoData
    /\ socketOf \in [IoData -> Sockets \cup {NoSocket}]
    /\ opCode \in [IoData -> {"NEW_ACCEPT", "RECV_FINISHED", "SEND_FINISHED"}]
    /\ kernel \subseteq allocated
    /\ port \in Seq(Completions)
    /\ bound \subseteq Sockets
    /\ step \in [Workers -> {"get", "post", "log", "handle", "send", "close",
                             "sub", "delete"}]
    /\ pIoData \in [Workers -> IoData \cup {NoData}]
    /\ size \in [Workers -> Nat]

\* The main thread of v4 has a socket between accept and WSARecv only, and that
\* of v4_1 posts as long as it may.
MainTypes ==
    /\ client \in Sockets \cup {NoSocket}
    /\ posted \in 0..nPosted
    /\ \/ /\ version = "v4"
          /\ main \in {"accept", "count", "post", "exit"}
          /\ main = "accept" => client = NoSocket
       \/ /\ version = "v4_1"
          /\ main \in {"post", "bind", "wait"}
          /\ main = "post" => posted < nPosted

Types == ConnectionTypes /\ IoTypes /\ MainTypes

Acts(w) == step[w] \notin {"get", "log"}

\* An IO_DATA is in the kernel, or once at the port, or one worker acts on it.
Place ==
    /\ \A k \in 1..Len(port) : port[k].data \in allocated \ kernel
    /\ \A k, n \in 1..Len(port) : port[k].data = port[n].data => k = n
    /\ \A w \in Workers : Acts(w) =>
          /\ pIoData[w] \in allocated \ kernel
          /\ \A k \in 1..Len(port) : port[k].data # pIoData[w]
    /\ \A v, w \in Workers : Acts(v) /\ Acts(w) /\ pIoData[v] = pIoData[w] => v = w
    /\ \A w \in Workers : step[w] = "get" => pIoData[w] = NoData

\* The IO_DATA that wait for a connection.
Waiting == {d \in kernel : opCode[d] = "NEW_ACCEPT" /\ socketOf[d] \notin Open}

\* The socket of an IO_DATA is its own.  In v4, where none waits for a
\* connection, it is bound to the port, and the socket just accepted is still
\* the main thread's.
Owned ==
    /\ \A d \in Pending : socketOf[d] \in Sockets /\ (socketOf[d] \in Open \/ d \in Waiting)
    /\ \A d, e \in Pending : socketOf[d] = socketOf[e] => d = e
    /\ version = "v4" =>
          /\ \A d \in allocated : opCode[d] # "NEW_ACCEPT"
          /\ \A d \in Pending : socketOf[d] \in bound
          /\ client # NoSocket => client \in Open \ Created

\* No operation that was posted is a send, so none completes as one, and only
\* v4 counts out a connection whose client is gone.
Unsent ==
    /\ \A d \in kernel : opCode[d] # "SEND_FINISHED"
    /\ \A k \in 1..Len(port) : opCode[port[k].data] # "SEND_FINISHED"
    /\ \A w \in Workers : step[w] = "sub" => version = "v4"

\* v4_1: a socket that is not bound is the one the main thread is about to bind.
BoundNext ==
    version = "v4_1" =>
        \A d \in Pending : socketOf[d] \in bound
                            \/ (main = "bind" /\ client = socketOf[d])

\* The response was sent; or the operation failed as the client had left.
Answered(d) == opCode[d] = "SEND_FINISHED" /\ peer[socketOf[d]] \in replied \cup left
FailedFor(d) == opCode[d] # "SEND_FINISHED" /\ peer[socketOf[d]] \in left

AtPort(d) == \E k \in 1..Len(port) : port[k].data = d
ActedOn(d) == \E w \in Workers : Acts(w) /\ pIoData[w] = d

Reasons ==
    /\ missed \subseteq IoData
    /\ \A k \in 1..Len(port) : port[k].size = Failed => FailedFor(port[k].data)
    /\ \A w \in Workers :
          step[w] \in {"handle", "send"} => opCode[pIoData[w]] = "SEND_FINISHED"
    /\ \A d \in allocated :
          \/ d \in kernel \/ AtPort(d) \/ ActedOn(d)
          \/ Answered(d) \/ FailedFor(d) \/ d \in missed

Subbing == {w \in Workers : step[w] = "sub"}

\* What v4 counts.
Numbers ==
    /\ currentConnectionNumber \in Int
    /\ version = "v4" =>
          currentConnectionNumber >= Cardinality(Open) + Cardinality(Subbing)
                                     - (IF main = "count" THEN 1 ELSE 0)

IndInv == Types /\ Place /\ Owned /\ Unsent /\ BoundNext /\ Reasons /\ Numbers

Core == Types /\ Place /\ Owned

----------------------------------------------------------------------------
LEMMA InitCore == Init => Core
<1> SUFFICES ASSUME Init PROVE Core
    OBVIOUS
<1> USE ConnectionsAssumption, IocpServerAssumption DEF Init, ConnectionsInit
<1>1. ConnectionTypes
    BY DEF ConnectionTypes, ConnectionsTypeOK
<1>2. IoTypes
    BY DEF IoTypes, Completions
<1>3. MainTypes
    BY DEF MainTypes
<1>4. Place
    BY DEF Place, Acts
<1>5. Owned
    BY DEF Owned, Pending
<1> QED BY <1>1, <1>2, <1>3, <1>4, <1>5 DEF Core, Types

\* Every call and every act of a client keeps the types of the connections.
LEMMA ConnectionsKeepTypes ==
    ASSUME ConnectionTypes,
           \/ AcceptAborted
           \/ \E s \in Sockets : AcceptOn(s) \/ Receive(s) \/ SendTo(s) \/ CloseSocket(s)
           \/ \E c \in Clients : ClientStep(c)
           \/ UNCHANGED connVars
    PROVE  ConnectionTypes'
<1> USE ConnectionsAssumption DEF ConnectionTypes, ConnectionsTypeOK
<1>0. ASSUME backlog # <<>>, backlog' = Tail(backlog)
      PROVE  /\ Head(backlog) = backlog[1] /\ Head(backlog) \in connected
             /\ backlog' \in Seq(Clients)
             /\ \A k \in 1..Len(backlog') :
                   backlog'[k] = backlog[k + 1] /\ k + 1 \in 1..Len(backlog)
    BY <1>0
<1>1. CASE AcceptAborted
    <2>1. /\ backlog' \in Seq(Clients) /\ closed' \subseteq connected
          /\ \A k \in 1..Len(backlog') : backlog'[k] \in connected
          /\ UNCHANGED <<peer, sent, unread, connected, left, replied>>
        BY <1>0, <1>1 DEF AcceptAborted
    <2> QED BY <2>1
<1>2. ASSUME NEW s \in Sockets, AcceptOn(s) PROVE ConnectionTypes'
    <2>1. /\ backlog' \in Seq(Clients)
          /\ \A k \in 1..Len(backlog') : backlog'[k] \in connected
          /\ peer' = [peer EXCEPT ![s] = Head(backlog)]
          /\ Head(backlog) \in connected
          /\ UNCHANGED <<sent, unread, connected, left, closed, replied>>
        BY <1>0, <1>2 DEF AcceptOn
    <2> QED BY <2>1
<1>3. ASSUME NEW s \in Sockets, Receive(s) PROVE ConnectionTypes'
    BY <1>3 DEF Receive, Open
<1>4. ASSUME NEW s \in Sockets, SendTo(s) PROVE ConnectionTypes'
    BY <1>4 DEF SendTo
<1>5. ASSUME NEW s \in Sockets, CloseSocket(s) PROVE ConnectionTypes'
    BY <1>5 DEF CloseSocket
<1>6. ASSUME NEW c \in Clients, ClientStep(c) PROVE ConnectionTypes'
    <2>1. CASE Connect(c)
        BY <2>1 DEF Connect
    <2>2. CASE SendSegment(c)
        BY <2>2 DEF SendSegment
    <2>3. CASE Leave(c)
        BY <2>3 DEF Leave
    <2> QED BY <1>6, <2>1, <2>2, <2>3 DEF ClientStep
<1>7. CASE UNCHANGED connVars
    BY <1>7 DEF connVars
<1> QED BY <1>1, <1>2, <1>3, <1>4, <1>5, <1>6, <1>7

----------------------------------------------------------------------------
\* Facts that many steps need

Done == {"sub", "delete", "repost"}

\* Pending is what is in its place, with the socket not yet closed.
LEMMA InPlaceIsPending ==
    ASSUME Types, Place
    PROVE  /\ kernel \subseteq Pending
           /\ \A k \in 1..Len(port) : port[k].data \in Pending
           /\ \A w \in Workers : Acts(w) /\ step[w] \notin Done => pIoData[w] \in Pending
           /\ \A w \in Workers : step[w] \in Done => pIoData[w] \notin Pending
BY DEF Types, IoTypes, Place, Pending, Acts, Done

LEMMA PendingStays ==
    ASSUME UNCHANGED allocated,
           \A w \in Workers : /\ step'[w] \in Done <=> step[w] \in Done
                              /\ step[w] \in Done => pIoData'[w] = pIoData[w]
    PROVE  Pending' = Pending
BY DEF Pending, Done

\* No socket is given out or closed.
LEMMA OwnedStays ==
    ASSUME Owned, UNCHANGED <<socketOf, version, client, bound, allocated>>,
           Open' = Open, Pending' = Pending,
           \A d \in allocated : opCode'[d] = "NEW_ACCEPT" => opCode[d] = "NEW_ACCEPT",
           \A d \in Waiting : d \in Waiting'
    PROVE  Owned'
<1>1. Created' = Created
    BY DEF Created
<1> QED BY <1>1 DEF Owned

\* Worker w goes on with the IO_DATA it acts on, or lets go of it.
LEMMA PlaceMoves ==
    ASSUME Place, NEW w \in Workers, UNCHANGED <<allocated, kernel, port>>,
           \A v \in Workers \ {w} : step'[v] = step[v] /\ pIoData'[v] = pIoData[v],
           Acts(w)' => Acts(w) /\ pIoData'[w] = pIoData[w],
           step'[w] = "get" => pIoData'[w] = NoData
    PROVE  Place'
<1>1. \A v \in Workers : Acts(v)' => Acts(v) /\ pIoData'[v] = pIoData[v]
    BY DEF Acts
<1> QED BY <1>1 DEF Place

LEMMA PlaceStays ==
    ASSUME Place, UNCHANGED <<allocated, kernel, port, step, pIoData>>
    PROVE  Place' /\ Pending' = Pending
BY DEF Place, Acts, Pending

\* A completion goes to the port.
LEMMA CompletePlaces ==
    ASSUME IoTypes, Place, NEW d \in kernel, NEW n \in Nat \cup {Failed}, Complete(d, n),
           UNCHANGED <<allocated, step, pIoData>>
    PROVE  /\ port' \in Seq(Completions) /\ kernel' \subseteq allocated
           /\ Place' /\ Pending' = Pending
           /\ Len(port') = Len(port) + 1 /\ Len(port) \in Nat
           /\ port'[Len(port) + 1] = [data |-> d, size |-> n]
           /\ \A k \in 1..Len(port) : port'[k] = port[k]
<1> USE DEF IoTypes
<1>1. /\ kernel' = kernel \ {d} /\ d \in IoData
      /\ [data |-> d, size |-> n] \in Completions
      /\ port' = Append(port, [data |-> d, size |-> n])
    BY DEF Complete, Completions
<1>2. /\ Len(port') = Len(port) + 1 /\ Len(port) \in Nat
      /\ port'[Len(port) + 1] = [data |-> d, size |-> n]
      /\ \A k \in 1..Len(port) : port'[k] = port[k]
      /\ port' \in Seq(Completions)
    BY <1>1
<1>3. \A k \in 1..Len(port') : k \in 1..Len(port) \/ k = Len(port) + 1
    BY <1>2
<1>4. /\ port'[Len(port) + 1].data = d
      /\ \A k \in 1..Len(port) : port'[k].data = port[k].data /\ port[k].data # d
    BY <1>2 DEF Place
<1>5. \A k \in 1..Len(port') : port'[k].data \in allocated \ kernel'
    BY <1>1, <1>2, <1>3, <1>4 DEF Place
<1>6. ASSUME NEW k \in 1..Len(port'), NEW m \in 1..Len(port'),
             port'[k].data = port'[m].data
      PROVE  k = m
    <2>1. CASE k = Len(port) + 1
        BY <1>3, <1>4, <1>6, <2>1
    <2>2. CASE m = Len(port) + 1
        BY <1>3, <1>4, <1>6, <2>2
    <2>3. CASE k \in 1..Len(port) /\ m \in 1..Len(port)
        <3>1. port[k].data = port[m].data
            BY <1>4, <1>6, <2>3
        <3> QED BY <2>3, <3>1 DEF Place
    <2> QED BY <1>3, <2>1, <2>2, <2>3
<1>7. ASSUME NEW w \in Workers, Acts(w)
      PROVE  /\ pIoData[w] \in allocated \ kernel'
             /\ \A k \in 1..Len(port') : port'[k].data # pIoData[w]
    <2>1. /\ pIoData[w] \in allocated \ kernel /\ pIoData[w] # d
          /\ \A k \in 1..Len(port) : port[k].data # pIoData[w]
        BY <1>7 DEF Place
    <2> QED BY <1>1, <1>3, <1>4, <2>1
<1>8. Place'
    BY <1>5, <1>6, <1>7 DEF Place, Acts
<1>9. Pending' = Pending
    BY DEF Pending
<1> QED BY <1>1, <1>2, <1>8, <1>9

----------------------------------------------------------------------------
\* The kernel

LEMMA AcceptTakesKeepsCore ==
    ASSUME Core, NEW d \in IoData, AcceptTakes(d), UNCHANGED <<workerVars, mainVars>>
    PROVE  /\ Core' /\ version = "v4_1" /\ socketOf[d] \in Sockets
           /\ d \in Waiting /\ Open' = Open \cup {socketOf[d]}
<1> USE ConnectionsAssumption DEF Core, Types
<1> DEFINE s == socketOf[d]
<1>1. /\ d \in kernel /\ opCode[d] = "NEW_ACCEPT" /\ AcceptOn(s)
      /\ UNCHANGED <<allocated, socketOf, opCode, kernel, port, bound, step, pIoData,
                     size, version, main, client, posted>>
    BY DEF AcceptTakes, ioVars, workerVars, mainVars
<1>2. version = "v4_1"
    BY <1>1 DEF Owned, IoTypes, MainTypes
<1>3. d \in Pending /\ s \in Sockets
    BY <1>1, InPlaceIsPending DEF Owned
<1>4. ConnectionTypes'
    BY <1>1, <1>3, ConnectionsKeepTypes
<1>5. s \notin Open /\ Open' = Open \cup {s} /\ d \in Waiting
    <2>1. Head(backlog) \in Clients /\ peer' = [peer EXCEPT ![s] = Head(backlog)]
          /\ s \notin Open
        BY <1>1 DEF AcceptOn, ConnectionTypes, ConnectionsTypeOK
    <2>2. Head(backlog) # NoClient
        BY <2>1
    <2> QED BY <1>1, <1>3, <2>1, <2>2 DEF Open, Waiting, ConnectionTypes, ConnectionsTypeOK
<1>6. IoTypes' /\ MainTypes'
    BY <1>1 DEF IoTypes, MainTypes
<1>7. Place' /\ Pending' = Pending
    BY <1>1, PlaceStays
<1>8. Waiting' = Waiting \ {d}
    BY <1>1, <1>3, <1>5, InPlaceIsPending DEF Waiting, Owned
<1>9. Owned'
    BY <1>1, <1>2, <1>5, <1>7, <1>8 DEF Owned
<1> QED BY <1>2, <1>3, <1>4, <1>5, <1>6, <1>7, <1>9

\* What the two completions have in common.
LEMMA CompletionKeepsCore ==
    ASSUME Core, NEW d \in kernel, NEW n \in Nat \cup {Failed},
           Complete(d, n) \/ (kernel' = kernel \ {d} /\ UNCHANGED port),
           d \notin Waiting, ConnectionTypes', UNCHANGED peer,
           UNCHANGED <<allocated, socketOf, opCode, bound, workerVars, mainVars>>
    PROVE  Core' /\ Pending' = Pending /\ Open' = Open /\ Waiting' = Waiting
<1> USE DEF Core, Types
<1>1. UNCHANGED <<step, pIoData, size, version, main, client, posted>>
    BY DEF workerVars, mainVars
<1>2. /\ port' \in Seq(Completions) /\ kernel' \subseteq allocated
      /\ Place' /\ Pending' = Pending
    <2>1. CASE Complete(d, n)
        BY <1>1, <2>1, CompletePlaces
    <2>2. CASE kernel' = kernel \ {d} /\ UNCHANGED port
        BY <1>1, <2>2 DEF IoTypes, Place, Acts, Pending
    <2> QED BY <2>1, <2>2
<1>3. IoTypes' /\ MainTypes'
    BY <1>1, <1>2 DEF IoTypes, MainTypes
<1>4. Open' = Open /\ kernel' = kernel \ {d}
    BY DEF Open, Complete
<1>5. Waiting' = Waiting
    BY <1>4 DEF Waiting
<1>6. Owned'
    BY <1>1, <1>2, <1>4, <1>5, OwnedStays
<1> QED BY <1>2, <1>3, <1>4, <1>5, <1>6

\* Where an accept or a receive that completes does so.
LEMMA CompletesOnOpen ==
    ASSUME Core, NEW d \in IoData, AcceptCompletes(d) \/ RecvCompletes(d)
    PROVE  /\ d \in kernel /\ d \notin Waiting /\ socketOf[d] \in Open
           /\ peer[socketOf[d]] \in Clients /\ opCode[d] # "SEND_FINISHED"
<1> USE DEF Core, Types
<1>1. d \in kernel /\ opCode[d] \in {"NEW_ACCEPT", "RECV_FINISHED"}
      /\ (opCode[d] = "NEW_ACCEPT" => socketOf[d] \in Open)
    BY DEF AcceptCompletes, RecvCompletes
<1>2. d \in Pending /\ d \notin Waiting
    BY <1>1, InPlaceIsPending DEF Waiting
<1>3. socketOf[d] \in Open
    BY <1>2 DEF Owned
<1>4. peer[socketOf[d]] \in Clients
    BY <1>3 DEF Open, ConnectionTypes, ConnectionsTypeOK
<1> QED BY <1>1, <1>2, <1>3, <1>4

LEMMA AcceptCompletesKeepsCore ==
    ASSUME Core, NEW d \in IoData, AcceptCompletes(d), UNCHANGED <<workerVars, mainVars>>
    PROVE  Core' /\ Pending' = Pending /\ Open' = Open /\ Waiting' = Waiting
<1> USE ConnectionsAssumption DEF Core, Types
<1> DEFINE c == peer[socketOf[d]]
<1>1. d \in kernel /\ d \notin Waiting /\ c \in Clients
    BY CompletesOnOpen
<1>2. /\ UNCHANGED <<backlog, peer, sent, connected, left, closed, replied,
                     allocated, socketOf, opCode, bound>>
      /\ \/ unread' = unread
         \/ unread[c] > 0 /\ \E rest \in {unread[c] - 1, unread[c]} :
                                 unread' = [unread EXCEPT ![c] = rest]
    BY DEF AcceptCompletes
<1>3. ConnectionTypes'
    BY <1>1, <1>2 DEF ConnectionTypes, ConnectionsTypeOK
<1>4. \E n \in Nat \cup {Failed} : Complete(d, n)
    BY DEF AcceptCompletes
<1> QED BY <1>1, <1>2, <1>3, <1>4, CompletionKeepsCore

LEMMA RecvCompletesKeepsCore ==
    ASSUME Core, NEW d \in IoData, RecvCompletes(d), UNCHANGED <<workerVars, mainVars>>
    PROVE  Core' /\ Pending' = Pending /\ Open' = Open /\ Waiting' = Waiting
<1> USE ConnectionsAssumption DEF Core, Types
<1> DEFINE s == socketOf[d] c == peer[s]
<1>1. d \in kernel /\ d \notin Waiting /\ s \in Open /\ c \in Clients
    BY CompletesOnOpen
<1>2. PICK n \in {unread[c], Failed} :
          /\ Complete(d, n) \/ (kernel' = kernel \ {d} /\ UNCHANGED port)
          /\ Receive(s) \/ UNCHANGED connVars
    BY DEF RecvCompletes
<1>3. n \in Nat \cup {Failed}
    BY <1>1 DEF ConnectionTypes
<1>4. ConnectionTypes' /\ UNCHANGED peer
    BY <1>1, <1>2, ConnectionsKeepTypes DEF Open, Receive, connVars
<1>5. UNCHANGED <<allocated, socketOf, opCode, bound>>
    BY DEF RecvCompletes
<1> QED BY <1>1, <1>2, <1>3, <1>4, <1>5, CompletionKeepsCore

----------------------------------------------------------------------------
\* The main threads

\* Nothing waits for a connection in v4, so what accept returns is free.
LEMMA AcceptKeepsCore ==
    ASSUME Core, Accept
    PROVE  /\ Core' /\ version = "v4" /\ Pending' = Pending
           /\ \/ Open' = Open /\ UNCHANGED peer
              \/ \E s \in Sockets \ Open : Open' = Open \cup {s} /\ AcceptOn(s)
<1> USE ConnectionsAssumption DEF Core, Types
<1>1. /\ main = "accept" /\ main' = "count"
      /\ UNCHANGED <<allocated, socketOf, opCode, kernel, port, bound, step, pIoData,
                     size, version, posted>>
    BY DEF Accept, ioVars, workerVars
<1>2. version = "v4"
    BY <1>1 DEF MainTypes
<1>3. ConnectionTypes'
    BY ConnectionsKeepTypes DEF Accept
<1>4. Place' /\ Pending' = Pending
    BY <1>1, PlaceStays
<1>5. client = NoSocket /\ client' \in Sockets \cup {NoSocket}
    BY <1>1, <1>2 DEF MainTypes, Accept
<1>6. IoTypes' /\ MainTypes'
    BY <1>1, <1>2, <1>5 DEF IoTypes, MainTypes
<1>7. Created' = Created /\ Waiting = {} /\ Waiting' = {}
    BY <1>1, <1>2, <1>4 DEF Created, Waiting, Owned, IoTypes
<1>8. CASE \E s \in Sockets : AcceptOn(s) /\ client' = s
    <2>1. PICK s \in Sockets : AcceptOn(s) /\ client' = s
        BY <1>8
    <2>2. s \notin Open /\ Open' = Open \cup {s}
        <3>1. Head(backlog) \in Clients /\ peer' = [peer EXCEPT ![s] = Head(backlog)]
            BY <2>1 DEF AcceptOn, ConnectionTypes, ConnectionsTypeOK
        <3>2. Head(backlog) # NoClient
            BY <3>1
        <3> QED BY <2>1, <3>1, <3>2 DEF AcceptOn, Open, ConnectionTypes, ConnectionsTypeOK
    <2>3. s \notin Created
        BY <1>7, <2>2 DEF Created, Owned
    <2>4. Owned'
        BY <1>1, <1>4, <1>7, <2>1, <2>2, <2>3 DEF Owned
    <2> QED BY <1>2, <1>3, <1>4, <1>6, <2>1, <2>2, <2>4
<1>9. CASE AcceptAborted /\ client' = NoSocket
    <2>1. Open' = Open /\ UNCHANGED peer
        BY <1>9 DEF AcceptAborted, Open
    <2>2. Owned'
        BY <1>1, <1>4, <1>5, <1>7, <1>9, <2>1, OwnedStays
    <2> QED BY <1>2, <1>3, <1>4, <1>6, <2>1, <2>2
<1> QED BY <1>8, <1>9 DEF Accept

LEMMA CountKeepsCore ==
    ASSUME Core, Count \/ BindFails
    PROVE  /\ Core' /\ version = "v4" /\ UNCHANGED <<connVars, ioVars, workerVars, version>>
           /\ Pending' = Pending
<1> USE DEF Core, Types
<1>1. /\ version = "v4" /\ main' \in {"accept", "post", "exit"}
      /\ main' = "accept" => client = NoSocket
      /\ UNCHANGED <<connVars, ioVars, workerVars, version, client, posted>>
    BY DEF Count, BindFails, MainTypes
<1>2. ConnectionTypes' /\ Open' = Open
    BY <1>1, ConnectionsKeepTypes DEF Open, connVars
<1>3. IoTypes' /\ MainTypes'
    BY <1>1 DEF IoTypes, MainTypes, ioVars, workerVars
<1>4. Place' /\ Pending' = Pending
    BY <1>1, PlaceStays DEF ioVars, workerVars
<1>5. Waiting' = Waiting
    BY <1>1, <1>2 DEF Waiting, ioVars
<1>6. Owned'
    BY <1>1, <1>2, <1>4, <1>5, OwnedStays DEF ioVars
<1> QED BY <1>1, <1>2, <1>3, <1>4, <1>6

\* A new IO_DATA goes to the kernel.
LEMMA NewPlaces ==
    ASSUME IoTypes, Place, NEW d \in IoData, NEW s \in Sockets,
           NEW op \in {"NEW_ACCEPT", "RECV_FINISHED"},
           New(d, s, op), kernel' = kernel \cup {d},
           UNCHANGED <<port, step, pIoData>>
    PROVE  /\ Place' /\ Pending' = Pending \cup {d} /\ d \notin allocated
           /\ allocated' = allocated \cup {d} /\ kernel' \subseteq allocated'
           /\ socketOf'[d] = s /\ opCode'[d] = op
           /\ \A e \in allocated : socketOf'[e] = socketOf[e] /\ opCode'[e] = opCode[e]
           /\ socketOf' \in [IoData -> Sockets \cup {NoSocket}]
           /\ opCode' \in [IoData -> {"NEW_ACCEPT", "RECV_FINISHED", "SEND_FINISHED"}]
<1> USE DEF IoTypes, New
<1>1. Place'
    BY DEF Place, Acts
<1>2. Pending' = Pending \cup {d}
    BY DEF Place, Acts, Pending
<1> QED BY <1>1, <1>2

LEMMA PostRecvKeepsCore ==
    ASSUME Core, PostRecv
    PROVE  /\ Core' /\ version = "v4"
           /\ \E d \in IoData : /\ d \notin allocated /\ d \in kernel'
                                /\ kernel' = kernel \cup {d}
                                /\ allocated' = allocated \cup {d}
                                /\ \A e \in allocated : /\ socketOf'[e] = socketOf[e]
                                                        /\ opCode'[e] = opCode[e]
<1> USE ConnectionsAssumption DEF Core, Types
<1>1. PICK d \in IoData : New(d, client, "RECV_FINISHED") /\ kernel' = kernel \cup {d}
    BY DEF PostRecv
<1>2. /\ version = "v4" /\ client \in Sockets /\ bound' = bound \cup {client}
      /\ client' = NoSocket /\ main' = "accept"
      /\ UNCHANGED <<connVars, port, step, pIoData, size, version, posted>>
    BY DEF PostRecv, MainTypes, workerVars
<1>3. /\ Place' /\ Pending' = Pending \cup {d} /\ d \notin allocated
      /\ allocated' = allocated \cup {d} /\ kernel' \subseteq allocated'
      /\ socketOf'[d] = client /\ opCode'[d] = "RECV_FINISHED"
      /\ \A e \in allocated : socketOf'[e] = socketOf[e] /\ opCode'[e] = opCode[e]
      /\ socketOf' \in [IoData -> Sockets \cup {NoSocket}]
      /\ opCode' \in [IoData -> {"NEW_ACCEPT", "RECV_FINISHED", "SEND_FINISHED"}]
    BY <1>1, <1>2, NewPlaces
<1>4. ConnectionTypes' /\ Open' = Open
    BY <1>2, ConnectionsKeepTypes DEF Open, connVars
<1>5. IoTypes' /\ MainTypes'
    BY <1>1, <1>2, <1>3 DEF IoTypes, MainTypes, New
<1>6. client \in Open \ Created
    BY <1>2 DEF Owned
<1>7. \A e \in Pending : /\ socketOf'[e] = socketOf[e] /\ socketOf[e] # client
                         /\ socketOf[e] \in Open /\ socketOf[e] \in bound
    BY <1>2, <1>3, <1>6 DEF Owned, Created, Pending, Waiting, IoTypes
<1>8. Owned'
    <2>1. \A e \in Pending' : /\ socketOf'[e] \in Open' /\ socketOf'[e] \in bound'
                              /\ socketOf'[e] \in Sockets
        BY <1>2, <1>3, <1>4, <1>6, <1>7 DEF Open
    <2>2. \A e, f \in Pending' : socketOf'[e] = socketOf'[f] => e = f
        BY <1>3, <1>7 DEF Owned
    <2>3. \A e \in allocated' : opCode'[e] # "NEW_ACCEPT"
        BY <1>2, <1>3 DEF Owned
    <2> QED BY <1>2, <2>1, <2>2, <2>3 DEF Owned
<1> QED BY <1>1, <1>2, <1>3, <1>4, <1>5, <1>8

\* The socket goes before it was any IO_DATA's.
LEMMA PostRecvFailsKeepsCore ==
    ASSUME Core, PostRecvFails
    PROVE  /\ Core' /\ version = "v4" /\ client \in Open /\ CloseSocket(client)
           /\ Open' = Open \ {client} /\ Pending' = Pending
           /\ \A d \in Pending : socketOf[d] # client
<1> USE ConnectionsAssumption DEF Core, Types
<1>1. /\ version = "v4" /\ client # NoSocket /\ client \in Sockets /\ CloseSocket(client)
      /\ client' = NoSocket /\ main' = "accept"
      /\ UNCHANGED <<allocated, socketOf, opCode, kernel, port, bound, step, pIoData,
                     size, version, posted>>
    BY DEF PostRecvFails, MainTypes, ioVars, workerVars
<1>2. ConnectionTypes'
    BY <1>1, ConnectionsKeepTypes
<1>3. client \in Open /\ Open' = Open \ {client}
    BY <1>1 DEF Owned, CloseSocket, Open, ConnectionTypes, ConnectionsTypeOK
<1>4. IoTypes' /\ MainTypes'
    BY <1>1 DEF IoTypes, MainTypes
<1>5. Place' /\ Pending' = Pending
    BY <1>1, PlaceStays
<1>6. \A d \in Pending : socketOf[d] # client /\ socketOf[d] \in Open
    BY <1>1 DEF Owned, Created, Waiting, IoTypes
<1>7. Owned'
    BY <1>1, <1>3, <1>5, <1>6 DEF Owned
<1> QED BY <1>1, <1>2, <1>3, <1>4, <1>5, <1>6, <1>7

LEMMA PostAcceptKeepsCore ==
    ASSUME Core, PostAccept
    PROVE  /\ Core' /\ version = "v4_1" /\ UNCHANGED <<connVars, version>>
           /\ posted' = posted + 1
           /\ main = "post" /\ main' = "bind"
           /\ UNCHANGED <<bound, port, step, pIoData>>
           /\ \E d \in IoData : /\ d \notin allocated /\ d \in kernel'
                                /\ kernel' = kernel \cup {d}
                                /\ allocated' = allocated \cup {d}
                                /\ Pending' = Pending \cup {d}
                                /\ socketOf'[d] = client' /\ opCode'[d] = "NEW_ACCEPT"
                                /\ \A e \in allocated : /\ socketOf'[e] = socketOf[e]
                                                        /\ opCode'[e] = opCode[e]
<1> USE ConnectionsAssumption, IocpServerAssumption DEF Core, Types
<1>1. PICK s \in Sockets \ Created, d \in IoData :
          New(d, s, "NEW_ACCEPT") /\ kernel' = kernel \cup {d} /\ client' = s
    BY DEF PostAccept, IsCreated
<1>2. /\ version = "v4_1" /\ main = "post" /\ main' = "bind" /\ posted' = posted + 1
      /\ UNCHANGED <<connVars, port, bound, step, pIoData, size, version>>
    BY DEF PostAccept, workerVars
<1>3. /\ Place' /\ Pending' = Pending \cup {d} /\ d \notin allocated
      /\ allocated' = allocated \cup {d} /\ kernel' \subseteq allocated'
      /\ socketOf'[d] = s /\ opCode'[d] = "NEW_ACCEPT"
      /\ \A e \in allocated : socketOf'[e] = socketOf[e] /\ opCode'[e] = opCode[e]
      /\ socketOf' \in [IoData -> Sockets \cup {NoSocket}]
      /\ opCode' \in [IoData -> {"NEW_ACCEPT", "RECV_FINISHED", "SEND_FINISHED"}]
    BY <1>1, <1>2, NewPlaces
<1>4. ConnectionTypes' /\ Open' = Open
    BY <1>2, ConnectionsKeepTypes DEF Open, connVars
<1>5. IoTypes'
    BY <1>1, <1>2, <1>3 DEF IoTypes, New
<1>6. MainTypes'
    BY <1>1, <1>2 DEF MainTypes
<1>7. \A e \in Pending : /\ socketOf'[e] = socketOf[e] /\ socketOf[e] # s
                         /\ socketOf'[e] \in Sockets
                         /\ e \in Waiting => e \in Waiting'
    BY <1>1, <1>3, <1>4 DEF Owned, Created, Pending, Waiting, IoTypes
<1>8. Owned'
    <2>1. s \in Open' \/ d \in Waiting'
        BY <1>1, <1>3 DEF Waiting
    <2>2. \A e \in Pending' : /\ socketOf'[e] \in Sockets
                              /\ socketOf'[e] \in Open' \/ e \in Waiting'
        BY <1>1, <1>3, <1>4, <1>7, <2>1 DEF Owned
    <2>3. \A e, f \in Pending' : socketOf'[e] = socketOf'[f] => e = f
        BY <1>3, <1>7 DEF Owned
    <2> QED BY <1>2, <2>2, <2>3 DEF Owned
<1> QED BY <1>1, <1>2, <1>3, <1>4, <1>5, <1>6, <1>8

LEMMA BindPostedKeepsCore ==
    ASSUME Core, BindPosted
    PROVE  /\ Core' /\ version = "v4_1" /\ Pending' = Pending
           /\ UNCHANGED <<connVars, allocated, socketOf, opCode, kernel, port, workerVars,
                          version, posted>>
<1> USE ConnectionsAssumption, IocpServerAssumption DEF Core, Types
<1>1. /\ version = "v4_1" /\ client' = NoSocket
      /\ main' = IF posted < nPosted THEN "post" ELSE "wait"
      /\ bound' = bound \cup ({client} \cap Created)
      /\ UNCHANGED <<connVars, allocated, socketOf, opCode, kernel, port, step, pIoData,
                     size, version, posted, workerVars>>
    BY DEF BindPosted, MainTypes, workerVars
<1>2. ConnectionTypes' /\ Open' = Open
    BY <1>1, ConnectionsKeepTypes DEF Open, connVars
<1>3. bound' \subseteq Sockets
    <2>1. Created \subseteq Sockets
        BY DEF Created, Owned
    <2> QED BY <1>1, <2>1 DEF IoTypes
<1>4. IoTypes' /\ MainTypes'
    <2>1. IoTypes'
        BY <1>1, <1>3 DEF IoTypes
    <2>2. MainTypes'
        BY <1>1 DEF MainTypes
    <2> QED BY <2>1, <2>2
<1>5. Place' /\ Pending' = Pending
    BY <1>1, PlaceStays
<1>6. Owned'
    BY <1>1, <1>2, <1>5 DEF Owned, Waiting
<1> QED BY <1>1, <1>2, <1>4, <1>5, <1>6

----------------------------------------------------------------------------
\* The workers

\* With what posts no send, a worker goes to one of three places.
LEMMA FirstIsNoReply ==
    ASSUME Core, Unsent, port # <<>>
    PROVE  /\ opCode[Head(port).data] \in {"NEW_ACCEPT", "RECV_FINISHED"}
           /\ \A n : Branch(Head(port).data, n) \in {"post", "close", "handle"}
<1> USE DEF Core, Types
<1>1. Head(port) = port[1] /\ 1 \in 1..Len(port)
    BY DEF IoTypes
<1>2. port[1].data \in IoData /\ opCode[port[1].data] # "SEND_FINISHED"
    BY <1>1 DEF Unsent, Place, IoTypes
<1>3. opCode[port[1].data] \in {"NEW_ACCEPT", "RECV_FINISHED"}
    BY <1>2 DEF IoTypes
<1> QED BY <1>1, <1>3 DEF Branch

\* A completion leaves the port for worker w, or is dropped.
LEMMA GetKeepsCore ==
    ASSUME Core, Unsent, NEW w \in Workers, Get(w), UNCHANGED mainVars
    PROVE  Core' /\ Pending' = Pending
<1> USE ConnectionsAssumption, IocpServerAssumption DEF Core, Types
<1> DEFINE d == Head(port).data n == Head(port).size
<1>1. /\ step[w] = "get" /\ port # <<>> /\ port' = Tail(port)
      /\ UNCHANGED <<connVars, allocated, socketOf, kernel, bound, version, main, client,
                     posted>>
    BY DEF Get, mainVars
<1>2. /\ Len(port) \in Nat /\ 1 \in 1..Len(port) /\ Head(port) = port[1]
      /\ Len(port') = Len(port) - 1 /\ port' \in Seq(Completions)
      /\ \A k \in 1..Len(port') : /\ port'[k] = port[k + 1] /\ k + 1 \in 1..Len(port)
                                  /\ k + 1 # 1
    BY <1>1 DEF IoTypes
<1>3. /\ d \in allocated \ kernel /\ d \in IoData /\ n \in Nat \cup {Failed}
      /\ \A k \in 1..Len(port') : port'[k].data # d
    <2>1. Head(port) \in Completions
        BY <1>1, <1>2 DEF IoTypes
    <2> QED BY <1>2, <2>1 DEF Place, Completions
<1>4. \/ n = Failed /\ UNCHANGED <<step, pIoData, size, opCode>>
      \/ /\ n # Failed
         /\ \E next \in {"post", "close", "handle"} : step' = [step EXCEPT ![w] = next]
         /\ pIoData' = [pIoData EXCEPT ![w] = d] /\ size' = [size EXCEPT ![w] = n]
         /\ opCode' \in {opCode, [opCode EXCEPT ![d] = "SEND_FINISHED"]}
    <2>1. Branch(d, n) \in {"post", "close", "handle"}
        BY <1>1, FirstIsNoReply
    <2> QED BY <2>1 DEF Get, Goto, workerVars
<1>5. ConnectionTypes' /\ Open' = Open
    BY <1>1, ConnectionsKeepTypes DEF Open, connVars
<1>6. IoTypes' /\ MainTypes'
    <2>1. step' \in [Workers -> {"get", "post", "log", "handle", "send", "close",
                                "sub", "delete"}]
        BY <1>4 DEF IoTypes
    <2>2. pIoData' \in [Workers -> IoData \cup {NoData}]
        BY <1>3, <1>4 DEF IoTypes
    <2>3. size' \in [Workers -> Nat]
        BY <1>3, <1>4 DEF IoTypes
    <2>4. opCode' \in [IoData -> {"NEW_ACCEPT", "RECV_FINISHED", "SEND_FINISHED"}]
        BY <1>3, <1>4 DEF IoTypes
    <2> QED BY <1>1, <1>2, <2>1, <2>2, <2>3, <2>4 DEF IoTypes, MainTypes
<1>7. /\ \A v \in Workers \ {w} : step'[v] = step[v] /\ pIoData'[v] = pIoData[v]
      /\ Acts(w)' => pIoData'[w] = d
      /\ step'[w] = "get" => pIoData'[w] = pIoData[w]
      /\ step'[w] \notin Done /\ step[w] \notin Done /\ ~Acts(w)
    BY <1>1, <1>4 DEF IoTypes, Acts, Done
<1>8. Place'
    <2>1. \A k \in 1..Len(port') : port'[k].data \in allocated \ kernel
        BY <1>2 DEF Place
    <2>2. \A k, m \in 1..Len(port') : port'[k].data = port'[m].data => k = m
        <3> SUFFICES ASSUME NEW k \in 1..Len(port'), NEW m \in 1..Len(port'),
                            port'[k].data = port'[m].data
                     PROVE  k = m
            OBVIOUS
        <3>1. k + 1 = m + 1
            BY <1>2 DEF Place
        <3> QED BY <1>2, <3>1
    <2>3. \A v \in Workers : Acts(v)' =>
              /\ pIoData'[v] \in allocated \ kernel
              /\ \A k \in 1..Len(port') : port'[k].data # pIoData'[v]
        BY <1>2, <1>3, <1>7 DEF Place, Acts
    <2>4. \A v \in Workers \ {w} : Acts(v)' => Acts(v) /\ pIoData'[v] # d
        BY <1>2, <1>7 DEF Place, Acts
    <2>5. \A u, v \in Workers : Acts(u)' /\ Acts(v)' /\ pIoData'[u] = pIoData'[v] => u = v
        BY <1>7, <2>4 DEF Place
    <2>6. \A v \in Workers : step'[v] = "get" => pIoData'[v] = NoData
        BY <1>1, <1>7 DEF Place
    <2> QED BY <1>1, <2>1, <2>2, <2>3, <2>5, <2>6 DEF Place
<1>9. Pending' = Pending
    BY <1>1, <1>7, PendingStays
<1>10. Owned'
    <2>1. \A e \in IoData : /\ opCode'[e] = "NEW_ACCEPT" => opCode[e] = "NEW_ACCEPT"
                            /\ e \in kernel => opCode'[e] = opCode[e]
        BY <1>3, <1>4 DEF IoTypes
    <2>2. \A e \in Waiting : e \in Waiting'
        BY <1>1, <1>5, <2>1 DEF Waiting, IoTypes
    <2> QED BY <1>1, <1>5, <1>9, <2>1, <2>2, OwnedStays DEF IoTypes
<1> QED BY <1>5, <1>6, <1>8, <1>9, <1>10

LEMMA RepostKeepsCore ==
    ASSUME Core, NEW w \in Workers, RepostRecv(w), UNCHANGED mainVars
    PROVE  Core' /\ Pending' = Pending /\ Waiting' \subseteq Waiting
<1> USE ConnectionsAssumption, IocpServerAssumption DEF Core, Types
<1> DEFINE d == pIoData[w]
<1>1. /\ step[w] = "post" /\ opCode' = [opCode EXCEPT ![d] = "RECV_FINISHED"]
      /\ \/ kernel' = kernel \cup {d} /\ step' = [step EXCEPT ![w] = "log"]
         \/ kernel' = kernel /\ step' = [step EXCEPT ![w] = "close"]
      /\ UNCHANGED <<connVars, allocated, socketOf, port, bound, pIoData, size,
                     version, main, client, posted>>
    BY DEF RepostRecv, Goto, mainVars
<1>2. Acts(w) /\ d \in allocated \ kernel /\ d \in IoData
    BY <1>1 DEF Place, Acts, IoTypes
<1>3. ConnectionTypes' /\ Open' = Open
    BY <1>1, ConnectionsKeepTypes DEF Open, connVars
<1>4. IoTypes' /\ MainTypes'
    BY <1>1, <1>2 DEF IoTypes, MainTypes
<1>5. \A v \in Workers \ {w} : step'[v] = step[v]
    BY <1>1 DEF IoTypes
<1>6. step'[w] \in {"log", "close"} /\ (step'[w] = "close" => kernel' = kernel)
    BY <1>1 DEF IoTypes
<1>7. Place'
    <2>1. \A v \in Workers : Acts(v)' =>
              Acts(v) /\ pIoData[v] \in allocated \ kernel'
        BY <1>1, <1>2, <1>5, <1>6 DEF Place, Acts
    <2>2. \A k \in 1..Len(port) : port[k].data \in allocated \ kernel'
        BY <1>1, <1>2 DEF Place
    <2> QED BY <1>1, <1>5, <1>6, <2>1, <2>2 DEF Place
<1>8. Pending' = Pending
    BY <1>1, <1>5, <1>6, PendingStays DEF Done
<1>9. /\ \A e \in IoData : e # d => opCode'[e] = opCode[e]
      /\ opCode'[d] = "RECV_FINISHED"
    BY <1>1, <1>2 DEF IoTypes
<1>10. Waiting' = Waiting
    BY <1>1, <1>2, <1>3, <1>9 DEF Waiting, IoTypes
<1>11. Owned'
    BY <1>1, <1>3, <1>8, <1>9, <1>10, OwnedStays DEF IoTypes
<1> QED BY <1>3, <1>4, <1>7, <1>8, <1>10, <1>11

\* Worker w goes on, with its IO_DATA or without, and the socket as it was.
LEMMA MoveKeepsCore ==
    ASSUME Core, Unsent, NEW w \in Workers,
           LogPosted(w) \/ Handle(w) \/ Send(w) \/ SubCurrent(w), UNCHANGED mainVars
    PROVE  /\ Core' /\ Pending' = Pending /\ Open' = Open /\ UNCHANGED <<ioVars, peer>>
<1> USE ConnectionsAssumption, IocpServerAssumption DEF Core, Types
<1>1. /\ UNCHANGED <<allocated, socketOf, opCode, kernel, port, bound, version, main,
                     client, posted, ioVars>>
      /\ UNCHANGED connVars \/ SendTo(socketOf[pIoData[w]])
    BY DEF LogPosted, Handle, Send, SubCurrent, mainVars, ioVars
<1>2. PICK next \in {"get", "send", "close", "delete"} :
          /\ step' = [step EXCEPT ![w] = next]
          /\ step[w] \in {"log", "handle", "send", "sub"}
          /\ next = "get" <=> step[w] \in {"log", "send"}
          /\ next = "delete" <=> step[w] = "sub"
          /\ pIoData' = IF next = "get" THEN [pIoData EXCEPT ![w] = NoData] ELSE pIoData
          /\ size' = IF next = "get" THEN [size EXCEPT ![w] = 0] ELSE size
    BY DEF LogPosted, Handle, Send, SubCurrent, Goto, Unsent
<1>3. ConnectionTypes'
    <2>1. CASE UNCHANGED connVars
        BY <2>1, ConnectionsKeepTypes
    <2>2. CASE Send(w)
        <3>1. Acts(w) /\ step[w] \notin Done
            BY <2>2 DEF Send, Acts, Done
        <3>2. socketOf[pIoData[w]] \in Sockets
            BY <3>1, InPlaceIsPending DEF Owned
        <3> QED BY <2>2, <3>2, ConnectionsKeepTypes DEF Send
    <2> QED BY <2>1, <2>2 DEF LogPosted, Handle, SubCurrent
<1>4. Open' = Open /\ UNCHANGED peer
    BY <1>1 DEF SendTo, Open, connVars
<1>5. IoTypes' /\ MainTypes'
    BY <1>1, <1>2 DEF IoTypes, MainTypes
<1>6. \A v \in Workers \ {w} : step'[v] = step[v] /\ pIoData'[v] = pIoData[v]
    BY <1>2 DEF IoTypes
<1>7. /\ step'[w] = next
      /\ Acts(w)' => Acts(w) /\ pIoData'[w] = pIoData[w]
      /\ step'[w] = "get" => pIoData'[w] = NoData
      /\ step'[w] \in Done <=> step[w] \in Done
      /\ step[w] \in Done => pIoData'[w] = pIoData[w]
    BY <1>2 DEF IoTypes, Acts, Done
<1>8. Place'
    BY <1>1, <1>6, <1>7, PlaceMoves
<1>9. Pending' = Pending
    BY <1>1, <1>6, <1>7, PendingStays
<1>10. Owned'
    BY <1>1, <1>4, <1>9, OwnedStays DEF Waiting
<1> QED BY <1>1, <1>3, <1>4, <1>5, <1>8, <1>9, <1>10

LEMMA CloseKeepsCore ==
    ASSUME Core, NEW w \in Workers, Close(w), UNCHANGED mainVars
    PROVE  LET s == socketOf[pIoData[w]] IN
           /\ Core' /\ s \in Open /\ Open' = Open \ {s} /\ CloseSocket(s)
           /\ Pending' = Pending \ {pIoData[w]} /\ pIoData[w] \in Pending
           /\ \A d \in Pending' : socketOf[d] # s
           /\ Waiting' = Waiting
           /\ step[w] = "close" /\ step' \in {[step EXCEPT ![w] = "sub"],
                                               [step EXCEPT ![w] = "delete"]}
           /\ UNCHANGED <<allocated, socketOf, opCode, kernel, port, pIoData, version>>
           /\ bound' = bound \ {s}
<1> USE ConnectionsAssumption, IocpServerAssumption DEF Core, Types
<1> DEFINE d == pIoData[w] s == socketOf[d]
<1>1. /\ step[w] = "close" /\ CloseSocket(s) /\ bound' = bound \ {s}
      /\ step' \in {[step EXCEPT ![w] = "sub"], [step EXCEPT ![w] = "delete"]}
      /\ UNCHANGED <<allocated, socketOf, opCode, kernel, port, pIoData, size, version,
                     main, client, posted>>
    BY DEF Close, Goto, mainVars, IoTypes
<1>2. Acts(w) /\ d \in allocated \ kernel /\ d \in Pending
    BY <1>1, InPlaceIsPending DEF Acts, Done, Place
<1>3. s \in Sockets /\ s \in Open
    BY <1>2 DEF Owned, Waiting
<1>4. ConnectionTypes'
    BY <1>1, <1>3, ConnectionsKeepTypes
<1>5. Open' = Open \ {s}
    BY <1>1, <1>3 DEF CloseSocket, Open, ConnectionTypes, ConnectionsTypeOK
<1>6. IoTypes' /\ MainTypes'
    BY <1>1 DEF IoTypes, MainTypes
<1>7. /\ \A v \in Workers \ {w} : step'[v] = step[v]
      /\ step'[w] \in Done
    BY <1>1 DEF IoTypes, Done
<1>8. Place'
    BY <1>1, <1>2, <1>7, PlaceMoves DEF Done
<1>9. Pending' = Pending \ {d}
    <2>1. \A v \in Workers : (step'[v] \in Done <=> step[v] \in Done) \/ v = w
        BY <1>7
    <2> QED BY <1>1, <1>2, <1>7, <2>1 DEF Pending, Done
<1>10. \A e \in Pending' : socketOf[e] # s
    BY <1>2, <1>9 DEF Owned
<1>11. Waiting' = Waiting
    <2>1. \A e \in kernel : socketOf[e] # s
        BY <1>2, <1>9, <1>10, InPlaceIsPending
    <2> QED BY <1>1, <1>5, <2>1 DEF Waiting
<1>12. Owned'
    <2>1. \A e \in Pending' : /\ socketOf[e] \in Sockets
                              /\ socketOf[e] \in Open' \/ e \in Waiting'
        BY <1>5, <1>9, <1>10, <1>11 DEF Owned
    <2>2. \A e, f \in Pending' : socketOf[e] = socketOf[f] => e = f
        BY <1>9 DEF Owned
    <2>3. version = "v4" => \A e \in Pending' : socketOf[e] \in bound'
        BY <1>1, <1>9, <1>10 DEF Owned
    <2>4. version = "v4" /\ client # NoSocket => client \in Open' \ Created'
        BY <1>1, <1>2, <1>5, <1>9 DEF Owned, Created
    <2> QED BY <1>1, <2>1, <2>2, <2>3, <2>4 DEF Owned
<1> QED BY <1>1, <1>2, <1>3, <1>4, <1>5, <1>6, <1>8, <1>9, <1>10, <1>11, <1>12

LEMMA DeleteKeepsCore ==
    ASSUME Core, NEW w \in Workers, Delete(w), UNCHANGED mainVars
    PROVE  /\ Core' /\ Pending' = Pending /\ Waiting' = Waiting
           /\ allocated' = allocated \ {pIoData[w]}
           /\ \A e \in allocated' : socketOf'[e] = socketOf[e] /\ opCode'[e] = opCode[e]
           /\ UNCHANGED <<connVars, kernel, port, version>>
           /\ \A v \in Workers \ {w} : step'[v] = step[v] /\ pIoData'[v] = pIoData[v]
           /\ step[w] = "delete" /\ step'[w] = "get"
<1> USE ConnectionsAssumption, IocpServerAssumption DEF Core, Types
<1> DEFINE d == pIoData[w]
<1>1. /\ step[w] = "delete" /\ step' = [step EXCEPT ![w] = "get"]
      /\ pIoData' = [pIoData EXCEPT ![w] = NoData] /\ size' = [size EXCEPT ![w] = 0]
      /\ allocated' = allocated \ {d}
      /\ socketOf' = [socketOf EXCEPT ![d] = NoSocket]
      /\ opCode' = [opCode EXCEPT ![d] = "NEW_ACCEPT"]
      /\ UNCHANGED <<connVars, kernel, port, bound, version, main, client, posted>>
    BY DEF Delete, Goto, mainVars, IoTypes
<1>2. Acts(w) /\ d \in allocated \ kernel /\ d \in IoData
    BY <1>1 DEF Acts, Place, IoTypes
<1>3. /\ \A e \in allocated' : socketOf'[e] = socketOf[e] /\ opCode'[e] = opCode[e]
      /\ kernel \subseteq allocated'
    BY <1>1, <1>2 DEF IoTypes
<1>4. ConnectionTypes' /\ Open' = Open
    BY <1>1, ConnectionsKeepTypes DEF Open, connVars
<1>5. IoTypes' /\ MainTypes'
    BY <1>1, <1>2, <1>3 DEF IoTypes, MainTypes
<1>6. /\ \A v \in Workers \ {w} : step'[v] = step[v] /\ pIoData'[v] = pIoData[v]
      /\ step'[w] = "get" /\ pIoData'[w] = NoData
    BY <1>1 DEF IoTypes
<1>7. Place'
    <2>1. \A v \in Workers : Acts(v)' => v # w /\ Acts(v) /\ pIoData[v] # d
        BY <1>2, <1>6 DEF Acts, Place
    <2>2. \A k \in 1..Len(port) : port[k].data # d
        BY <1>2 DEF Place
    <2> QED BY <1>1, <1>6, <2>1, <2>2 DEF Place
<1>8. Pending' = Pending
    <2>1. d \notin Pending
        BY <1>1 DEF Pending
    <2>2. ASSUME NEW e \in allocated' PROVE e \in Pending' <=> e \in Pending
        BY <1>1, <1>6, <2>2 DEF Pending
    <2> QED BY <1>1, <2>1, <2>2 DEF Pending
<1>9. Waiting' = Waiting
    BY <1>1, <1>3, <1>4 DEF Waiting
<1>10. Created' = Created
    BY <1>3, <1>8 DEF Created, Pending
<1>11. Owned'
    BY <1>1, <1>3, <1>4, <1>8, <1>9, <1>10 DEF Owned, Pending
<1> QED BY <1>1, <1>3, <1>4, <1>5, <1>6, <1>7, <1>8, <1>9, <1>11

----------------------------------------------------------------------------
LEMMA ClientKeepsCore ==
    ASSUME Core, UNCHANGED <<ioVars, workerVars, mainVars>>,
           UNCHANGED connVars \/ \E c \in Clients : ClientStep(c)
    PROVE  Core' /\ Pending' = Pending /\ Open' = Open /\ UNCHANGED peer
<1> USE DEF Core, Types, ioVars, workerVars, mainVars
<1>1. ConnectionTypes'
    BY ConnectionsKeepTypes
<1>2. Open' = Open /\ UNCHANGED peer
    BY DEF Open, connVars, ClientStep, Connect, SendSegment, Leave
<1>3. IoTypes' /\ MainTypes'
    BY DEF IoTypes, MainTypes
<1>4. Place' /\ Pending' = Pending
    BY PlaceStays
<1>5. Owned'
    BY <1>2, <1>4, OwnedStays DEF Waiting
<1> QED BY <1>1, <1>2, <1>3, <1>4, <1>5

LEMMA NextKeepsCore == Core /\ Unsent /\ [Next]_vars => Core'
<1> SUFFICES ASSUME Core, Unsent, [Next]_vars PROVE Core'
    OBVIOUS
<1>1. CASE MainStep
    BY <1>1, AcceptKeepsCore, CountKeepsCore, PostRecvKeepsCore, PostRecvFailsKeepsCore,
       PostAcceptKeepsCore, BindPostedKeepsCore DEF MainStep
<1>2. CASE KernelStep
    BY <1>2, AcceptTakesKeepsCore, AcceptCompletesKeepsCore, RecvCompletesKeepsCore
       DEF KernelStep
<1>3. CASE \E w \in Workers : WorkerStep(w)
    BY <1>3, GetKeepsCore, RepostKeepsCore, MoveKeepsCore, CloseKeepsCore, DeleteKeepsCore
       DEF WorkerStep
<1>4. CASE \E c \in Clients : ClientActs(c)
    BY <1>4, ClientKeepsCore DEF ClientActs
<1>5. CASE UNCHANGED vars
    BY <1>5, ClientKeepsCore DEF vars
<1> QED BY <1>1, <1>2, <1>3, <1>4, <1>5 DEF Next

----------------------------------------------------------------------------
\* What the worker never finds, and when a socket is not bound

\* The opCode of what is in the kernel or at the port is set when it is posted.
LEMMA NextKeepsUnsent == Core /\ Unsent /\ [Next]_vars => Unsent'
<1> SUFFICES ASSUME Core, Unsent, [Next]_vars PROVE Unsent'
    OBVIOUS
<1> USE DEF Core, Types
<1>1. CASE MainStep
    <2>1. UNCHANGED <<port, step, version>>
        BY <1>1 DEF MainStep, Accept, Count, BindFails, PostRecv, PostRecvFails, PostAccept,
                    BindPosted, ioVars, workerVars
    <2>2. \/ UNCHANGED <<kernel, opCode>>
          \/ \E d \in IoData : /\ kernel' = kernel \cup {d}
                               /\ opCode'[d] # "SEND_FINISHED"
                               /\ \A e \in allocated : opCode'[e] = opCode[e]
        <3>1. CASE Accept \/ Count \/ BindFails \/ PostRecvFails \/ BindPosted
            BY <3>1 DEF Accept, Count, BindFails, PostRecvFails, BindPosted, ioVars
        <3>2. CASE PostRecv \/ PostAccept
            BY <3>2 DEF PostRecv, PostAccept, New, IoTypes
        <3> QED BY <1>1, <3>1, <3>2 DEF MainStep
    <2>3. /\ kernel \subseteq allocated
          /\ \A k \in 1..Len(port) : port[k].data \in allocated
        BY DEF IoTypes, Place
    <2> QED BY <2>1, <2>2, <2>3 DEF Unsent
<1>2. CASE KernelStep
    <2>1. UNCHANGED <<step, version, opCode>>
        BY <1>2 DEF KernelStep, AcceptTakes, AcceptCompletes, RecvCompletes, ioVars,
                    workerVars, mainVars
    <2>2. \/ UNCHANGED <<kernel, port>>
          \/ \E d \in kernel : /\ kernel' = kernel \ {d}
                               /\ UNCHANGED port
                                  \/ \E n : port' = Append(port, [data |-> d, size |-> n])
        BY <1>2 DEF KernelStep, AcceptTakes, AcceptCompletes, RecvCompletes, Complete, ioVars
    <2>3. ASSUME NEW d \in kernel, NEW n, port' = Append(port, [data |-> d, size |-> n])
          PROVE  \A k \in 1..Len(port') : opCode[port'[k].data] # "SEND_FINISHED"
        <3>1. /\ Len(port) \in Nat /\ Len(port') = Len(port) + 1
              /\ port'[Len(port) + 1].data = d
              /\ \A k \in 1..Len(port) : port'[k] = port[k]
            BY <2>3 DEF IoTypes
        <3>2. \A k \in 1..Len(port') : k = Len(port) + 1 \/ k \in 1..Len(port)
            BY <3>1
        <3> QED BY <3>1, <3>2 DEF Unsent
    <2> QED BY <2>1, <2>2, <2>3 DEF Unsent
<1>3. ASSUME NEW w \in Workers, WorkerStep(w) PROVE Unsent'
    <2>1. UNCHANGED version
        BY <1>3 DEF WorkerStep, mainVars
    <2>2. CASE Get(w)
        <3>1. /\ port # <<>> /\ Len(port) \in Nat /\ Len(port') = Len(port) - 1
              /\ 1 \in 1..Len(port) /\ Head(port) = port[1]
              /\ \A k \in 1..Len(port') : /\ port'[k] = port[k + 1]
                                          /\ k + 1 \in 1..Len(port) /\ k + 1 # 1
            BY <2>2 DEF Get, IoTypes
        <3>2. PICK d \in allocated \ kernel : d = port[1].data
            BY <3>1 DEF Place
        <3>3. /\ UNCHANGED kernel
              /\ \A e \in allocated : e # d => opCode'[e] = opCode[e]
            BY <2>2, <3>1, <3>2 DEF Get, IoTypes
        <3>4. \A k \in 1..Len(port') : port'[k].data \in allocated /\ port'[k].data # d
            BY <3>1, <3>2 DEF Place
        <3>5. \A v \in Workers : step'[v] = "sub" => step[v] = "sub"
            <4>1. port # <<>>
                BY <2>2 DEF Get
            <4>2. Branch(Head(port).data, Head(port).size) # "sub"
                BY <4>1, FirstIsNoReply
            <4> QED BY <2>2, <4>2 DEF Get, Goto, workerVars, IoTypes
        <3>6. \A k \in 1..Len(port') : opCode'[port'[k].data] # "SEND_FINISHED"
            BY <3>1, <3>3, <3>4 DEF Unsent
        <3> QED BY <2>1, <3>2, <3>3, <3>5, <3>6 DEF Unsent, IoTypes
    <2>3. CASE RepostRecv(w) \/ Delete(w)
        <3>1. PICK d : d = pIoData[w]
            OBVIOUS
        <3>2. /\ opCode'[d] # "SEND_FINISHED" /\ kernel' \subseteq kernel \cup {d}
              /\ \A e \in IoData : e # d => opCode'[e] = opCode[e]
              /\ UNCHANGED port
              /\ \A v \in Workers : step'[v] = "sub" => step[v] = "sub"
            BY <2>3, <3>1 DEF RepostRecv, Delete, Goto, Place, Acts, IoTypes
        <3> QED BY <2>1, <3>2 DEF Unsent, IoTypes, Place
    <2>4. CASE LogPosted(w) \/ Handle(w) \/ Send(w) \/ Close(w) \/ SubCurrent(w)
        <3>1. UNCHANGED <<opCode, kernel, port>>
            BY <2>4 DEF LogPosted, Handle, Send, Close, SubCurrent, ioVars
        <3>2. \A v \in Workers : step'[v] = "sub" => step[v] = "sub" \/ version = "v4"
            BY <2>4 DEF LogPosted, Handle, Send, Close, SubCurrent, Goto, IoTypes
        <3> QED BY <2>1, <3>1, <3>2 DEF Unsent
    <2> QED BY <1>3, <2>2, <2>3, <2>4 DEF WorkerStep
<1>4. CASE (\E c \in Clients : ClientActs(c)) \/ UNCHANGED vars
    BY <1>4 DEF ClientActs, vars, ioVars, workerVars, mainVars, Unsent
<1> QED BY <1>1, <1>2, <1>3, <1>4 DEF Next

\* Between postAccept and the binding the main thread does nothing else.
LEMMA NextKeepsBoundNext == Core /\ Unsent /\ BoundNext /\ [Next]_vars => BoundNext'
<1> SUFFICES ASSUME Core, Unsent, BoundNext, [Next]_vars PROVE BoundNext'
    OBVIOUS
<1>1. CASE MainStep
    <2>1. CASE Accept \/ Count \/ BindFails \/ PostRecv \/ PostRecvFails
        <3>1. version' = "v4"
            BY <2>1, AcceptKeepsCore, CountKeepsCore, PostRecvKeepsCore
               DEF Accept, Count, BindFails, PostRecv, PostRecvFails, Core, Types, MainTypes
        <3> QED BY <3>1 DEF BoundNext
    <2>2. CASE PostAccept
        <3>1. /\ main = "post" /\ main' = "bind" /\ UNCHANGED <<bound, version>>
              /\ version = "v4_1"
            BY <2>2, PostAcceptKeepsCore
        <3>2. PICK d \in IoData : /\ Pending' = Pending \cup {d} /\ socketOf'[d] = client'
                                  /\ \A e \in allocated : socketOf'[e] = socketOf[e]
            BY <2>2, PostAcceptKeepsCore
        <3> QED BY <3>1, <3>2 DEF BoundNext, Pending
    <2>3. CASE BindPosted
        <3>1. /\ version = "v4_1" /\ Pending' = Pending /\ UNCHANGED <<socketOf, version>>
              /\ bound' = bound \cup ({client} \cap Created)
            BY <2>3, BindPostedKeepsCore DEF BindPosted
        <3> QED BY <3>1 DEF BoundNext, Created
    <2> QED BY <1>1, <2>1, <2>2, <2>3 DEF MainStep
<1>2. CASE KernelStep
    <2>1. UNCHANGED <<socketOf, bound, allocated, version, main, client, step, pIoData,
                      workerVars, mainVars>>
        BY <1>2 DEF KernelStep, AcceptTakes, AcceptCompletes, RecvCompletes, ioVars,
                    workerVars, mainVars
    <2>2. Pending' = Pending
        BY <2>1 DEF Pending
    <2> QED BY <2>1, <2>2 DEF BoundNext
<1>3. ASSUME NEW w \in Workers, WorkerStep(w) PROVE BoundNext'
    <2>1. UNCHANGED mainVars /\ UNCHANGED <<version, main, client>>
        BY <1>3 DEF WorkerStep, mainVars
    <2>2. CASE Close(w)
        <3>1. /\ UNCHANGED socketOf /\ Pending' = Pending \ {pIoData[w]}
              /\ bound' = bound \ {socketOf[pIoData[w]]}
              /\ \A d \in Pending' : socketOf[d] # socketOf[pIoData[w]]
            BY <2>1, <2>2, CloseKeepsCore
        <3> QED BY <2>1, <3>1 DEF BoundNext
    <2>3. CASE Delete(w)
        <3>1. /\ Pending' = Pending /\ UNCHANGED bound
              /\ \A d \in allocated' : socketOf'[d] = socketOf[d]
            BY <2>1, <2>3, DeleteKeepsCore DEF Delete
        <3>2. Pending' \subseteq allocated'
            BY DEF Pending
        <3> QED BY <2>1, <3>1, <3>2 DEF BoundNext
    <2>4. CASE Get(w) \/ RepostRecv(w)
        <3>1. Pending' = Pending /\ UNCHANGED <<socketOf, bound>>
            BY <2>1, <2>4, GetKeepsCore, RepostKeepsCore DEF Get, RepostRecv
        <3> QED BY <2>1, <3>1 DEF BoundNext
    <2>5. CASE LogPosted(w) \/ Handle(w) \/ Send(w) \/ SubCurrent(w)
        <3>1. Pending' = Pending /\ UNCHANGED <<socketOf, bound>>
            BY <2>1, <2>5, MoveKeepsCore DEF ioVars
        <3> QED BY <2>1, <3>1 DEF BoundNext
    <2> QED BY <1>3, <2>2, <2>3, <2>4, <2>5 DEF WorkerStep
<1>4. CASE (\E c \in Clients : ClientActs(c)) \/ UNCHANGED vars
    BY <1>4 DEF ClientActs, vars, ioVars, workerVars, mainVars, BoundNext, Pending
<1> QED BY <1>1, <1>2, <1>3, <1>4 DEF Next

----------------------------------------------------------------------------
\* Why an IO_DATA is lost

\* Nothing happens to the IO_DATA but that one is new, in the kernel, or one is
\* gone; and a socket that changes hands is of none that could be lost.
LEMMA ReasonsStay ==
    ASSUME Core, Reasons, Place', UNCHANGED <<version, port, missed>>,
           left \subseteq left', replied \subseteq replied',
           \A d \in allocated : d \in allocated' =>
              /\ socketOf'[d] = socketOf[d] /\ opCode'[d] = opCode[d]
              /\ d \in kernel => d \in kernel'
              /\ d \in kernel \/ ActedOn(d) \/ peer'[socketOf[d]] = peer[socketOf[d]],
           \A d \in allocated' : d \in allocated \/ d \in kernel',
           \A w \in Workers : /\ Acts(w) => pIoData[w] \notin allocated'
                                            \/ (Acts(w)' /\ pIoData'[w] = pIoData[w])
                              /\ step'[w] \in {"handle", "send"} =>
                                    /\ step[w] \in {"handle", "send"}
                                    /\ pIoData'[w] = pIoData[w]
    PROVE  Reasons'
<1> USE DEF Core, Types
<1>1. ASSUME NEW d \in allocated, d \in allocated', d \notin kernel, ~ActedOn(d)
      PROVE  /\ Answered(d) => Answered(d)'
             /\ FailedFor(d) => FailedFor(d)'
    BY <1>1 DEF Answered, FailedFor
<1>2. ASSUME NEW k \in 1..Len(port), port[k].size = Failed PROVE FailedFor(port[k].data)'
    <2>1. PICK d \in allocated : d = port[k].data
        BY DEF Place
    <2>2. d \in allocated' /\ d \notin kernel /\ ~ActedOn(d)
        BY <2>1 DEF Place, ActedOn
    <2>3. FailedFor(d)
        BY <1>2, <2>1 DEF Reasons
    <2>4. FailedFor(d)'
        BY <1>1, <2>2, <2>3
    <2> QED BY <2>1, <2>4 DEF FailedFor
<1>3. ASSUME NEW w \in Workers, step'[w] \in {"handle", "send"}
      PROVE  opCode'[pIoData'[w]] = "SEND_FINISHED"
    <2>1. pIoData[w] \in allocated /\ pIoData[w] \in allocated'
        BY <1>3 DEF Place, Acts
    <2> QED BY <1>3, <2>1 DEF Reasons
<1>4. ASSUME NEW d \in allocated'
      PROVE  \/ d \in kernel' \/ AtPort(d)' \/ ActedOn(d)' \/ Answered(d)' \/ FailedFor(d)'
             \/ d \in missed'
    <2>1. CASE d \notin allocated \/ d \in kernel
        BY <1>4, <2>1
    <2>2. CASE d \in allocated /\ AtPort(d)
        BY <2>2 DEF AtPort
    <2>3. CASE d \in allocated /\ ActedOn(d)
        BY <1>4, <2>3 DEF ActedOn
    <2>4. CASE d \in allocated \ kernel /\ ~AtPort(d) /\ ~ActedOn(d)
        BY <1>1, <1>4, <2>4 DEF Reasons
    <2> QED BY <2>1, <2>2, <2>3, <2>4
<1> QED BY <1>2, <1>3, <1>4 DEF Reasons

\* A completion is at the port, and a failed one is of a client that left.
LEMMA CompleteKeepsReasons ==
    ASSUME Core, Reasons, NEW d \in kernel, NEW n \in Nat \cup {Failed}, Complete(d, n),
           n = Failed => FailedFor(d),
           UNCHANGED <<allocated, socketOf, opCode, version, step, pIoData, peer, left,
                       replied, missed>>
    PROVE  Reasons'
<1>1. /\ kernel' = kernel \ {d} /\ Len(port) \in Nat
      /\ Len(port') = Len(port) + 1
      /\ port'[Len(port) + 1] = [data |-> d, size |-> n]
      /\ \A k \in 1..Len(port) : port'[k] = port[k]
    BY CompletePlaces DEF Core, Types, Complete
<1>2. \A e \in IoData : /\ Answered(e)' <=> Answered(e)
                        /\ FailedFor(e)' <=> FailedFor(e)
                        /\ ActedOn(e)' <=> ActedOn(e)
    BY DEF Answered, FailedFor, ActedOn, Acts
<1>3. AtPort(d)' /\ \A e \in IoData : AtPort(e) => AtPort(e)'
    BY <1>1 DEF AtPort
<1>4. ASSUME NEW k \in 1..Len(port'), port'[k].size = Failed
      PROVE  FailedFor(port[k].data)'
    <2>1. CASE k = Len(port) + 1
        <3>1. port'[k].data = d /\ FailedFor(d)
            BY <1>1, <1>4, <2>1
        <3> QED BY <3>1 DEF FailedFor
    <2>2. CASE k \in 1..Len(port)
        <3>1. port'[k] = port[k] /\ FailedFor(port[k].data)
            BY <1>1, <1>4, <2>2 DEF Reasons
        <3> QED BY <3>1 DEF FailedFor
    <2> QED BY <1>1, <2>1, <2>2
<1>5. \A e \in allocated : \/ e \in kernel' \/ AtPort(e)' \/ ActedOn(e)'
                           \/ Answered(e)' \/ FailedFor(e)' \/ e \in missed
    BY <1>1, <1>2, <1>3 DEF Reasons, Core, Types, IoTypes
<1> QED BY <1>4, <1>5 DEF Reasons

LEMMA KernelKeepsReasons ==
    ASSUME Core, Reasons, BoundNext, KernelStep PROVE Reasons'
<1> USE DEF Core, Types
<1>1. UNCHANGED <<step, pIoData, size, version, main, client, posted>>
    BY DEF KernelStep, workerVars, mainVars
<1>2. ASSUME NEW d \in IoData, AcceptTakes(d), UNCHANGED missed PROVE Reasons'
    <2>1. /\ d \in kernel /\ AcceptOn(socketOf[d]) /\ socketOf[d] \in Sockets
          /\ UNCHANGED <<allocated, socketOf, opCode, kernel, port, left, replied>>
        BY <1>2, AcceptTakesKeepsCore DEF AcceptTakes, AcceptOn, ioVars, KernelStep
    <2>2. \A e \in allocated : d = e \/ ActedOn(e) \/ socketOf[e] # socketOf[d]
        <3>1. ASSUME NEW e \in allocated, ~ActedOn(e) PROVE e \in Pending
            BY <3>1 DEF ActedOn, Pending, Acts
        <3> QED BY <2>1, <3>1, InPlaceIsPending DEF Owned
    <2>3. \A e \in allocated : e \in kernel \/ ActedOn(e)
                               \/ peer'[socketOf[e]] = peer[socketOf[e]]
        <3>1. \A e \in allocated : ~ActedOn(e) => e \in Pending
            BY DEF ActedOn, Pending, Acts
        <3>2. \A e \in allocated : e \in kernel \/ ActedOn(e) \/ socketOf[e] \in Sockets
            BY <3>1 DEF Owned
        <3> QED BY <2>1, <2>2, <3>2 DEF AcceptOn, ConnectionTypes, ConnectionsTypeOK
    <2>4. Place' /\ \A w \in Workers : Acts(w)' <=> Acts(w)
        BY <1>1, <2>1, PlaceStays DEF Acts
    <2> QED BY <1>1, <1>2, <2>1, <2>3, <2>4, ReasonsStay
<1>3. ASSUME NEW d \in IoData, AcceptCompletes(d), UNCHANGED missed PROVE Reasons'
    <2>1. d \in kernel /\ opCode[d] # "SEND_FINISHED"
        BY <1>3, CompletesOnOpen
    <2>2. PICK n \in Nat \cup {Failed} : /\ Complete(d, n)
                                         /\ n = Failed => peer[socketOf[d]] \in left
        BY <1>3 DEF AcceptCompletes, Failed
    <2>3. UNCHANGED <<allocated, socketOf, opCode, peer, left, replied>>
        BY <1>3 DEF AcceptCompletes
    <2> QED BY <1>1, <1>3, <2>1, <2>2, <2>3, CompleteKeepsReasons DEF FailedFor
<1>4. ASSUME NEW d \in IoData, RecvCompletes(d) PROVE Reasons'
    <2> DEFINE s == socketOf[d] c == peer[s]
    <2>1. /\ d \in kernel /\ opCode[d] = "RECV_FINISHED" /\ c \in Clients
          /\ UNCHANGED <<allocated, socketOf, opCode, peer, left, replied>>
        BY <1>4, CompletesOnOpen DEF RecvCompletes, Receive, connVars
    <2>2. PICK n \in {unread[c], Failed} :
              /\ n = Failed => c \in left
              /\ IF s \in bound THEN Complete(d, n)
                 ELSE kernel' = kernel \ {d} /\ UNCHANGED port
        BY <1>4 DEF RecvCompletes
    <2>3. n \in Nat \cup {Failed}
        BY <2>1, <2>2 DEF ConnectionTypes
    <2>4. CASE s \in bound
        <3>1. UNCHANGED missed
            BY <1>4, <2>4 DEF RecvCompletes
        <3> QED BY <1>1, <2>1, <2>2, <2>3, <2>4, <3>1, CompleteKeepsReasons DEF FailedFor
    <2>5. CASE s \notin bound
        <3>1. missed' = missed \cup {d}
            <4>1. main = "bind" /\ client = s
                BY <2>1, <2>5, InPlaceIsPending DEF Owned, MainTypes, BoundNext
            <4> QED BY <1>4, <2>5, <4>1 DEF RecvCompletes
        <3>2. kernel' = kernel \ {d} /\ UNCHANGED port
            BY <2>2, <2>5
        <3> QED BY <1>1, <2>1, <3>1, <3>2
            DEF Reasons, AtPort, ActedOn, Answered, FailedFor, Acts
    <2> QED BY <2>4, <2>5
<1> QED BY <1>2, <1>3, <1>4 DEF KernelStep

\* Only an IO_DATA that is pending and that no worker acts on can be lost.
LEMMA NotActedOnIsPending == \A d \in allocated : ~ActedOn(d) => d \in Pending
BY DEF ActedOn, Pending, Acts

LEMMA MainKeepsReasons ==
    ASSUME Core, Reasons, MainStep PROVE Reasons'
<1> USE DEF Core, Types
<1>1. UNCHANGED <<port, step, pIoData, version, missed>>
    BY DEF MainStep, Accept, Count, BindFails, PostRecv, PostRecvFails, PostAccept,
           BindPosted, ioVars, workerVars
<1>2. \A w \in Workers : Acts(w)' <=> Acts(w)
    BY <1>1 DEF Acts
<1>3. CASE Accept
    <2>1. UNCHANGED <<allocated, socketOf, opCode, kernel, left, replied>>
        BY <1>3 DEF Accept, AcceptOn, AcceptAborted, ioVars
    <2>2. Place' /\ version = "v4"
        BY <1>3, AcceptKeepsCore
    <2>3. \A d \in allocated : d \in kernel \/ ActedOn(d) \/ socketOf[d] \in Open
        BY NotActedOnIsPending DEF Owned, Waiting
    <2>4. \A s \in Open : peer'[s] = peer[s]
        BY <1>3 DEF Accept, AcceptOn, AcceptAborted, Open, ConnectionTypes,
                    ConnectionsTypeOK
    <2> QED BY <1>1, <1>2, <2>1, <2>2, <2>3, <2>4, ReasonsStay
<1>4. CASE Count \/ BindFails
    <2>1. Place' /\ UNCHANGED <<allocated, socketOf, opCode, kernel, peer, left, replied>>
        BY <1>4, CountKeepsCore DEF ioVars, connVars
    <2> QED BY <1>1, <1>2, <2>1, ReasonsStay
<1>5. CASE PostRecv
    <2>1. Place' /\ UNCHANGED <<peer, left, replied>>
        BY <1>5, PostRecvKeepsCore DEF PostRecv, connVars
    <2> QED BY <1>1, <1>2, <1>5, <2>1, PostRecvKeepsCore, ReasonsStay
<1>6. CASE PostRecvFails
    <2>1. UNCHANGED <<allocated, socketOf, opCode, kernel, left, replied>>
        BY <1>6 DEF PostRecvFails, CloseSocket, ioVars
    <2>2. /\ Place' /\ CloseSocket(client) /\ client \in Open
          /\ \A d \in Pending : socketOf[d] # client
        BY <1>6, PostRecvFailsKeepsCore
    <2>3. \A d \in Pending : peer'[socketOf[d]] = peer[socketOf[d]]
        BY <2>2 DEF CloseSocket, Owned, ConnectionTypes, ConnectionsTypeOK
    <2> QED BY <1>1, <1>2, <2>1, <2>2, <2>3, NotActedOnIsPending, ReasonsStay
<1>7. CASE PostAccept
    <2>1. Place' /\ UNCHANGED <<peer, left, replied>>
        BY <1>7, PostAcceptKeepsCore DEF connVars
    <2> QED BY <1>1, <1>2, <1>7, <2>1, PostAcceptKeepsCore, ReasonsStay
<1>8. CASE BindPosted
    <2>1. Place' /\ UNCHANGED <<allocated, socketOf, opCode, kernel, peer, left, replied>>
        BY <1>8, BindPostedKeepsCore DEF connVars
    <2> QED BY <1>1, <1>2, <2>1, ReasonsStay
<1> QED BY <1>3, <1>4, <1>5, <1>6, <1>7, <1>8 DEF MainStep

\* What was taken out of the port is acted on, or was failed and is lost.
LEMMA GetKeepsReasons ==
    ASSUME Core, Unsent, Reasons, NEW w \in Workers, Get(w), UNCHANGED <<mainVars, missed>>
    PROVE  Reasons'
<1> USE DEF Core, Types
<1>1. /\ port # <<>> /\ 1 \in 1..Len(port) /\ Head(port) = port[1]
      /\ Len(port) \in Nat /\ Len(port') = Len(port) - 1
      /\ \A k \in 1..Len(port') : /\ port'[k] = port[k + 1] /\ k + 1 \in 1..Len(port)
                                  /\ k + 1 # 1
      /\ \A k \in 1..Len(port) : k # 1 => k - 1 \in 1..Len(port')
    BY DEF Get, IoTypes
<1>2. PICK d \in IoData : d = port[1].data
    BY <1>1 DEF Place, IoTypes
<1>3. /\ step[w] = "get"
      /\ UNCHANGED <<connVars, allocated, socketOf, kernel, version>>
    BY DEF Get, mainVars
<1>4. \/ port[1].size = Failed /\ UNCHANGED <<step, pIoData, opCode>>
      \/ /\ pIoData' = [pIoData EXCEPT ![w] = d]
         /\ \E next \in {"post", "close", "handle"} : step' = [step EXCEPT ![w] = next]
         /\ opCode' \in {opCode, [opCode EXCEPT ![d] = "SEND_FINISHED"]}
         /\ step'[w] = "handle" => opCode'[d] = "SEND_FINISHED"
    <2>1. CASE Head(port).size = Failed
        BY <1>1, <1>3, <2>1 DEF Get, workerVars
    <2>2. CASE Head(port).size # Failed
        <3>1. PICK n : n = Head(port).size
            OBVIOUS
        <3>2. n \in Nat
            <4>1. Head(port) \in Completions
                BY <1>1 DEF IoTypes
            <4> QED BY <2>2, <3>1, <4>1 DEF Completions
        <3>3. PICK next \in {"post", "close", "handle"} :
                  /\ step' = [step EXCEPT ![w] = next]
                  /\ next = "handle" => opCode[d] # "NEW_ACCEPT" /\ n # 0
            <4>1. opCode[d] \in {"NEW_ACCEPT", "RECV_FINISHED"}
                BY <1>1, <1>2, FirstIsNoReply
            <4>2. /\ Branch(d, n) \in {"post", "close", "handle"}
                  /\ Branch(d, n) = "handle" => opCode[d] # "NEW_ACCEPT" /\ n # 0
                BY <4>1 DEF Branch
            <4> QED BY <1>1, <1>2, <2>2, <3>1, <4>2 DEF Get, Goto
        <3>4. /\ pIoData' = [pIoData EXCEPT ![w] = d]
              /\ opCode' = IF opCode[d] = "RECV_FINISHED" /\ n > 0
                           THEN [opCode EXCEPT ![d] = "SEND_FINISHED"] ELSE opCode
            BY <1>1, <1>2, <2>2, <3>1 DEF Get
        <3>5. step'[w] = "handle" => opCode'[d] = "SEND_FINISHED"
            BY <1>2, <3>2, <3>3, <3>4 DEF IoTypes
        <3> QED BY <3>3, <3>4, <3>5
    <2> QED BY <2>1, <2>2
<1>5. \A e \in IoData : e # d => opCode'[e] = opCode[e]
    BY <1>4 DEF IoTypes
<1>6. \A e \in IoData : e # d => /\ FailedFor(e) => FailedFor(e)'
                                 /\ Answered(e) => Answered(e)'
    BY <1>3, <1>5 DEF FailedFor, Answered, connVars
<1>7. /\ \A v \in Workers \ {w} : step'[v] = step[v] /\ pIoData'[v] = pIoData[v]
      /\ ~Acts(w)
    BY <1>3, <1>4 DEF IoTypes, Acts
<1>8. ASSUME NEW k \in 1..Len(port'), port'[k].size = Failed
      PROVE  FailedFor(port[k].data)'
    <2>1. PICK e \in IoData : e = port'[k].data /\ e # d
        <3>1. port[k + 1].data \in IoData /\ port[k + 1].data # port[1].data
            BY <1>1 DEF Place, IoTypes
        <3> QED BY <1>1, <1>2, <3>1
    <2>2. FailedFor(e)
        BY <1>1, <1>8, <2>1 DEF Reasons
    <2> QED BY <1>6, <2>1, <2>2 DEF FailedFor
<1>9. ASSUME NEW v \in Workers, step'[v] \in {"handle", "send"}
      PROVE  opCode'[pIoData'[v]] = "SEND_FINISHED"
    <2>1. CASE v = w
        BY <1>3, <1>4, <1>9, <2>1 DEF IoTypes
    <2>2. CASE v # w
        <3>1. step[v] \in {"handle", "send"} /\ pIoData'[v] = pIoData[v]
            BY <1>7, <1>9, <2>2 DEF IoTypes
        <3>2. pIoData[v] \in IoData /\ pIoData[v] # d
            BY <1>1, <1>2, <3>1 DEF Place, Acts, IoTypes
        <3> QED BY <1>5, <3>1, <3>2 DEF Reasons
    <2> QED BY <2>1, <2>2
<1>10. ASSUME NEW e \in allocated
       PROVE  \/ e \in kernel \/ AtPort(e)' \/ ActedOn(e)' \/ Answered(e)' \/ FailedFor(e)'
              \/ e \in missed
    <2>1. CASE e = d
        <3>1. CASE port[1].size = Failed /\ UNCHANGED <<step, pIoData, opCode>>
            <4>1. FailedFor(d)
                BY <1>1, <1>2, <3>1 DEF Reasons
            <4> QED BY <1>3, <2>1, <3>1, <4>1 DEF FailedFor, connVars
        <3>2. CASE pIoData' = [pIoData EXCEPT ![w] = d]
                   /\ \E next \in {"post", "close", "handle"} :
                          step' = [step EXCEPT ![w] = next]
            BY <2>1, <3>2 DEF ActedOn, Acts, IoTypes
        <3> QED BY <1>4, <3>1, <3>2
    <2>2. CASE e # d
        <3>1. AtPort(e) => AtPort(e)'
            <4> SUFFICES ASSUME NEW k \in 1..Len(port), port[k].data = e PROVE AtPort(e)'
                BY DEF AtPort
            <4>1. k # 1
                BY <1>2, <2>2
            <4>2. k - 1 \in 1..Len(port') /\ port'[k - 1] = port[k]
                BY <1>1, <4>1
            <4> QED BY <4>2 DEF AtPort
        <3>2. ActedOn(e) => ActedOn(e)'
            BY <1>7 DEF ActedOn, Acts
        <3>3. opCode'[e] = opCode[e]
            BY <1>5, <2>2 DEF IoTypes
        <3> QED BY <1>6, <2>2, <3>1, <3>2, <3>3 DEF Reasons, IoTypes
    <2> QED BY <2>1, <2>2
<1> QED BY <1>3, <1>8, <1>9, <1>10 DEF Reasons

\* It is pending again, or its worker closes it.
LEMMA RepostKeepsReasons ==
    ASSUME Core, Reasons, NEW w \in Workers, RepostRecv(w), UNCHANGED <<mainVars, missed>>
    PROVE  Reasons'
<1> USE DEF Core, Types
<1>1. PICK d : d = pIoData[w]
    OBVIOUS
<1>2. /\ step[w] = "post" /\ opCode' = [opCode EXCEPT ![d] = "RECV_FINISHED"]
      /\ \/ kernel' = kernel \cup {d} /\ step' = [step EXCEPT ![w] = "log"]
         \/ kernel' = kernel /\ step' = [step EXCEPT ![w] = "close"]
      /\ UNCHANGED <<connVars, allocated, socketOf, port, pIoData, version>>
    BY <1>1 DEF RepostRecv, Goto, mainVars
<1>3. /\ \A k \in 1..Len(port) : port[k].data # d
      /\ \A v \in Workers : Acts(v) /\ v # w => pIoData[v] # d
      /\ d \in IoData
    BY <1>1, <1>2 DEF Place, Acts, IoTypes
<1>4. \A e \in IoData : e # d => /\ FailedFor(e) => FailedFor(e)'
                                 /\ Answered(e) => Answered(e)'
                                 /\ opCode'[e] = opCode[e]
    BY <1>2 DEF FailedFor, Answered, connVars, IoTypes
<1>5. ASSUME NEW k \in 1..Len(port), port[k].size = Failed
      PROVE  FailedFor(port[k].data)'
    <2>1. PICK e \in IoData : e = port[k].data /\ e # d
        BY <1>3 DEF Place, IoTypes
    <2>2. FailedFor(e)
        BY <1>5, <2>1 DEF Reasons
    <2> QED BY <1>2, <1>4, <2>1, <2>2 DEF FailedFor
<1>6. \A v \in Workers : step'[v] \in {"handle", "send"} =>
          step[v] \in {"handle", "send"} /\ pIoData[v] \in IoData /\ pIoData[v] # d
    BY <1>2, <1>3 DEF IoTypes, Acts, Place
<1>7. d \in kernel' \/ ActedOn(d)'
    BY <1>1, <1>2 DEF ActedOn, Acts, IoTypes
<1>8. \A e \in IoData : e # d /\ ActedOn(e) => ActedOn(e)'
    BY <1>1, <1>2 DEF ActedOn, Acts, IoTypes
<1>9. ASSUME NEW e \in allocated
      PROVE  \/ e \in kernel' \/ AtPort(e)' \/ ActedOn(e)' \/ Answered(e)' \/ FailedFor(e)'
             \/ e \in missed
    <2>1. CASE e = d
        BY <1>7, <2>1
    <2>2. CASE e # d
        <3>1. (AtPort(e) => AtPort(e)') /\ (e \in kernel => e \in kernel')
            BY <1>2 DEF AtPort
        <3> QED BY <1>4, <1>8, <2>2, <3>1 DEF Reasons, IoTypes
    <2> QED BY <2>1, <2>2
<1> QED BY <1>2, <1>4, <1>5, <1>6, <1>9 DEF Reasons

\* What nobody acts on any more after the response was answered.
LEMMA SendKeepsReasons ==
    ASSUME Core, Reasons, NEW w \in Workers, Send(w), UNCHANGED <<mainVars, missed>>
    PROVE  Reasons'
<1> USE DEF Core, Types
<1>1. PICK d : d = pIoData[w]
    OBVIOUS
<1>2. /\ step[w] = "send" /\ SendTo(socketOf[d])
      /\ step' = [step EXCEPT ![w] = "get"] /\ pIoData' = [pIoData EXCEPT ![w] = NoData]
      /\ UNCHANGED <<allocated, socketOf, opCode, kernel, port, version>>
    BY <1>1 DEF Send, Goto, ioVars, mainVars
<1>3. d \in Pending /\ d \in IoData /\ opCode[d] = "SEND_FINISHED"
    BY <1>1, <1>2, InPlaceIsPending DEF Acts, Done, Reasons, Pending, IoTypes
<1>4. peer[socketOf[d]] \in Clients
    BY <1>3 DEF Owned, Waiting, Open, ConnectionTypes, ConnectionsTypeOK
<1>5. Answered(d)'
    BY <1>2, <1>3, <1>4, ConnectionsAssumption DEF Answered, SendTo
<1>6. \A e \in IoData : /\ FailedFor(e) => FailedFor(e)'
                        /\ Answered(e) => Answered(e)'
                        /\ AtPort(e) => AtPort(e)'
    BY <1>2 DEF FailedFor, Answered, AtPort, SendTo
<1>7. ASSUME NEW k \in 1..Len(port), port[k].size = Failed
      PROVE  FailedFor(port[k].data)'
    <2>1. PICK e \in IoData : e = port[k].data
        BY DEF Place, IoTypes
    <2>2. FailedFor(e)
        BY <1>7, <2>1 DEF Reasons
    <2> QED BY <1>2, <1>6, <2>1, <2>2 DEF FailedFor
<1>8. \A v \in Workers : step'[v] \in {"handle", "send"} =>
          step[v] \in {"handle", "send"} /\ pIoData'[v] = pIoData[v]
    BY <1>2 DEF IoTypes
<1>9. \A e \in IoData : e # d /\ ActedOn(e) => ActedOn(e)'
    BY <1>1, <1>2 DEF ActedOn, Acts, IoTypes
<1>10. ASSUME NEW e \in allocated
       PROVE  \/ e \in kernel \/ AtPort(e)' \/ ActedOn(e)' \/ Answered(e)' \/ FailedFor(e)'
              \/ e \in missed
    BY <1>5, <1>6, <1>9 DEF Reasons, IoTypes
<1> QED BY <1>2, <1>7, <1>8, <1>10 DEF Reasons

LEMMA WorkerKeepsReasons ==
    ASSUME Core, Unsent, Reasons, NEW w \in Workers, WorkerStep(w) PROVE Reasons'
<1> USE DEF Core, Types
<1>1. UNCHANGED mainVars /\ UNCHANGED <<version, missed>>
    BY DEF WorkerStep, mainVars
<1>2. CASE Get(w)
    BY <1>1, <1>2, GetKeepsReasons
<1>3. CASE RepostRecv(w)
    BY <1>1, <1>3, RepostKeepsReasons
<1>4. CASE Send(w)
    BY <1>1, <1>4, SendKeepsReasons
<1>5. CASE LogPosted(w) \/ Handle(w) \/ SubCurrent(w)
    <2>1. Place' /\ UNCHANGED <<allocated, socketOf, opCode, kernel, port>>
        BY <1>1, <1>5, MoveKeepsCore DEF ioVars
    <2>2. UNCHANGED <<peer, left, replied>>
        BY <1>5 DEF LogPosted, Handle, SubCurrent, connVars
    <2>3. /\ \A v \in Workers : Acts(v) => Acts(v)' /\ pIoData'[v] = pIoData[v]
          /\ \A v \in Workers : step'[v] \in {"handle", "send"} =>
                step[v] \in {"handle", "send"} /\ pIoData'[v] = pIoData[v]
        BY <1>5 DEF LogPosted, Handle, SubCurrent, Goto, Acts, IoTypes
    <2> QED BY <1>1, <2>1, <2>2, <2>3, ReasonsStay
<1>6. CASE Close(w)
    <2>1. /\ Place' /\ CloseSocket(socketOf[pIoData[w]]) /\ step[w] = "close"
          /\ \A d \in Pending \ {pIoData[w]} : socketOf[d] # socketOf[pIoData[w]]
          /\ step' \in {[step EXCEPT ![w] = "sub"], [step EXCEPT ![w] = "delete"]}
          /\ UNCHANGED <<allocated, socketOf, opCode, kernel, port, pIoData>>
        BY <1>1, <1>6, CloseKeepsCore
    <2>2. UNCHANGED <<left, replied>>
        BY <2>1 DEF CloseSocket
    <2>3. /\ \A v \in Workers : Acts(v) => Acts(v)'
          /\ \A v \in Workers : step'[v] \in {"handle", "send"} =>
                step[v] \in {"handle", "send"}
        BY <2>1 DEF Acts, IoTypes
    <2>4. \A d \in allocated : ActedOn(d) \/ peer'[socketOf[d]] = peer[socketOf[d]]
        <3>1. ActedOn(pIoData[w])
            BY <2>1 DEF ActedOn, Acts
        <3>2. \A d \in allocated : ~ActedOn(d) => d \in Pending \ {pIoData[w]}
            BY <3>1, NotActedOnIsPending
        <3> QED BY <2>1, <3>2 DEF CloseSocket, Owned, ConnectionTypes, ConnectionsTypeOK
    <2> QED BY <1>1, <2>1, <2>2, <2>3, <2>4, ReasonsStay
<1>7. CASE Delete(w)
    <2>1. /\ Place' /\ allocated' = allocated \ {pIoData[w]}
          /\ \A e \in allocated' : socketOf'[e] = socketOf[e] /\ opCode'[e] = opCode[e]
          /\ UNCHANGED <<peer, left, replied, kernel, port>>
          /\ \A v \in Workers \ {w} : step'[v] = step[v] /\ pIoData'[v] = pIoData[v]
          /\ step'[w] = "get"
        BY <1>1, <1>7, DeleteKeepsCore DEF connVars
    <2>2. \A v \in Workers : /\ Acts(v) => pIoData[v] \notin allocated'
                                           \/ (Acts(v)' /\ pIoData'[v] = pIoData[v])
                             /\ step'[v] \in {"handle", "send"} =>
                                   step[v] \in {"handle", "send"}
                                   /\ pIoData'[v] = pIoData[v]
        BY <2>1 DEF Acts
    <2> QED BY <1>1, <2>1, <2>2, ReasonsStay
<1> QED BY <1>2, <1>3, <1>4, <1>5, <1>6, <1>7 DEF WorkerStep

LEMMA NextKeepsReasons == Core /\ Unsent /\ BoundNext /\ Reasons /\ [Next]_vars => Reasons'
<1> SUFFICES ASSUME Core, Unsent, BoundNext, Reasons, [Next]_vars PROVE Reasons'
    OBVIOUS
<1>1. CASE MainStep \/ KernelStep \/ \E w \in Workers : WorkerStep(w)
    BY <1>1, MainKeepsReasons, KernelKeepsReasons, WorkerKeepsReasons
<1>2. CASE (\E c \in Clients : ClientActs(c)) \/ UNCHANGED vars
    <2>1. /\ UNCHANGED <<ioVars, workerVars, mainVars, missed>>
          /\ UNCHANGED connVars \/ \E c \in Clients : ClientStep(c)
        BY <1>2 DEF ClientActs, vars
    <2>2. Core' /\ UNCHANGED peer
        BY <2>1, ClientKeepsCore
    <2>3. left \subseteq left' /\ UNCHANGED replied
        BY <2>1 DEF ClientStep, Connect, SendSegment, Leave, connVars
    <2> QED BY <2>1, <2>2, <2>3, ReasonsStay DEF Core, ioVars, workerVars, mainVars, Acts
<1> QED BY <1>1, <1>2 DEF Next

----------------------------------------------------------------------------
\* The numbers

LEMMA SetsAreFinite ==
    ASSUME Core
    PROVE  /\ IsFiniteSet(Open) /\ Cardinality(Open) \in Nat
           /\ IsFiniteSet(Subbing) /\ Cardinality(Subbing) \in Nat
<1>1. Open \subseteq Sockets /\ Subbing \subseteq Workers
    BY DEF Open, Subbing
<1>2. IsFiniteSet(Open) /\ IsFiniteSet(Subbing)
    BY <1>1, FS_Subset, ConnectionsAssumption, IocpServerAssumption
<1> QED BY <1>2, FS_CardinalityType

LEMMA OneMore ==
    ASSUME NEW S, IsFiniteSet(S), NEW x
    PROVE  /\ IsFiniteSet(S \cup {x}) /\ Cardinality(S \cup {x}) \in Nat
           /\ Cardinality(S \cup {x}) <= Cardinality(S) + 1
<1>1. IsFiniteSet(S \cup {x}) /\ Cardinality(S) \in Nat
    BY FS_AddElement, FS_CardinalityType
<1>2. Cardinality(S \cup {x}) \in {Cardinality(S), Cardinality(S) + 1}
    <2>1. CASE x \in S
        <3>1. S \cup {x} = S
            BY <2>1
        <3> QED BY <3>1
    <2>2. CASE x \notin S
        BY <2>2, FS_AddElement
    <2> QED BY <2>1, <2>2
<1> QED BY <1>1, <1>2

\* Nothing that is counted grows.
LEMMA NumbersStay ==
    ASSUME Core, Numbers, UNCHANGED <<currentConnectionNumber, version>>,
           main' = "count" <=> main = "count",
           Open' \subseteq Open, Subbing' \subseteq Subbing
    PROVE  Numbers'
<1>1. /\ Cardinality(Open') <= Cardinality(Open) /\ Cardinality(Open') \in Nat
      /\ Cardinality(Subbing') <= Cardinality(Subbing) /\ Cardinality(Subbing') \in Nat
    BY SetsAreFinite, FS_Subset, FS_CardinalityType
<1> QED BY <1>1, SetsAreFinite DEF Numbers, Core, Types, MainTypes

LEMMA KernelKeepsNumbers ==
    ASSUME Core, Numbers, KernelStep PROVE Numbers'
<1>1. /\ UNCHANGED <<workerVars, mainVars, currentConnectionNumber, version, main>>
      /\ Subbing' = Subbing
    BY DEF KernelStep, counters, workerVars, mainVars, Subbing
<1>2. ASSUME NEW d \in IoData, AcceptTakes(d) PROVE Numbers'
    <2>1. version = "v4_1"
        BY <1>1, <1>2, AcceptTakesKeepsCore
    <2> QED BY <1>1, <2>1 DEF Numbers
<1>3. ASSUME NEW d \in IoData, AcceptCompletes(d) \/ RecvCompletes(d) PROVE Numbers'
    <2>1. Open' = Open
        BY <1>1, <1>3, AcceptCompletesKeepsCore, RecvCompletesKeepsCore
    <2> QED BY <1>1, <2>1, NumbersStay
<1> QED BY <1>2, <1>3 DEF KernelStep

LEMMA MainKeepsNumbers ==
    ASSUME Core, Numbers, MainStep PROVE Numbers'
<1> USE DEF Core, Types
<1>1. Subbing' = Subbing /\ UNCHANGED version
    BY DEF MainStep, Accept, Count, BindFails, PostRecv, PostRecvFails, PostAccept,
           BindPosted, workerVars, Subbing
<1>2. Cardinality(Open) \in Nat /\ Cardinality(Subbing) \in Nat
    BY SetsAreFinite
<1>3. CASE Accept
    <2>1. /\ version = "v4"
          /\ Open' = Open \/ \E s \in Sockets \ Open : Open' = Open \cup {s}
        BY <1>3, AcceptKeepsCore
    <2>2. Cardinality(Open') \in {Cardinality(Open), Cardinality(Open) + 1}
        BY <2>1, SetsAreFinite, FS_AddElement
    <2>3. main = "accept" /\ main' = "count" /\ UNCHANGED currentConnectionNumber
        BY <1>3 DEF Accept, counters
    <2> QED BY <1>1, <1>2, <2>1, <2>2, <2>3 DEF Numbers
<1>4. CASE Count
    <2>1. version = "v4" /\ Open' = Open
        BY <1>4, CountKeepsCore DEF Open, connVars
    <2>2. main = "count" /\ main' = "post"
          /\ currentConnectionNumber' = currentConnectionNumber + 1
        BY <1>4 DEF Count
    <2> QED BY <1>1, <1>2, <2>1, <2>2 DEF Numbers
<1>5. CASE BindFails
    <2>1. /\ UNCHANGED currentConnectionNumber /\ main = "post" /\ main' # "count"
          /\ Open' = Open
        BY <1>5 DEF BindFails, connVars, counters, Open
    <2> QED BY <1>1, <2>1, NumbersStay
<1>6. CASE PostRecv
    <2>1. /\ UNCHANGED currentConnectionNumber /\ main = "post" /\ main' # "count"
          /\ Open' = Open /\ version = "v4"
        BY <1>6 DEF PostRecv, connVars, counters, Open
    <2> QED BY <1>1, <2>1 DEF Numbers
<1>7. CASE PostRecvFails
    <2>1. /\ UNCHANGED currentConnectionNumber /\ main = "post" /\ main' # "count"
          /\ version = "v4" /\ Open' = Open \ {client} /\ client \in Open
        BY <1>7, PostRecvFailsKeepsCore DEF PostRecvFails, counters
    <2>2. Cardinality(Open') = Cardinality(Open) - 1
        BY <2>1, SetsAreFinite, FS_RemoveElement
    <2> QED BY <1>1, <1>2, <2>1, <2>2 DEF Numbers
<1>8. CASE PostAccept \/ BindPosted
    <2>1. version = "v4_1"
        BY <1>8, PostAcceptKeepsCore, BindPostedKeepsCore
    <2>2. UNCHANGED currentConnectionNumber
        BY <1>8 DEF PostAccept, BindPosted, counters
    <2> QED BY <1>1, <2>1, <2>2 DEF Numbers
<1> QED BY <1>3, <1>4, <1>5, <1>6, <1>7, <1>8 DEF MainStep

LEMMA WorkerKeepsNumbers ==
    ASSUME Core, Unsent, Numbers, NEW w \in Workers, WorkerStep(w) PROVE Numbers'
<1> USE DEF Core, Types
<1>1. UNCHANGED mainVars /\ UNCHANGED <<version, main>>
    BY DEF WorkerStep, mainVars
<1>2. Cardinality(Open) \in Nat /\ Cardinality(Subbing) \in Nat
    BY SetsAreFinite
<1>3. CASE Get(w) \/ RepostRecv(w) \/ LogPosted(w) \/ Handle(w) \/ Send(w) \/ Delete(w)
    <2>1. Open' = Open /\ UNCHANGED currentConnectionNumber
        BY <1>3 DEF Get, RepostRecv, LogPosted, Handle, Send, Delete, SendTo, connVars,
                    counters, Open
    <2>2. Subbing' \subseteq Subbing
        <3>1. CASE Get(w)
            <4>1. port # <<>>
                BY <3>1 DEF Get
            <4>2. Branch(Head(port).data, Head(port).size) # "sub"
                BY <4>1, FirstIsNoReply
            <4> QED BY <3>1, <4>2 DEF Get, Goto, Subbing, workerVars, IoTypes
        <3>2. CASE RepostRecv(w) \/ LogPosted(w) \/ Handle(w) \/ Send(w) \/ Delete(w)
            BY <3>2 DEF RepostRecv, LogPosted, Handle, Send, Delete, Goto, Subbing, IoTypes
        <3> QED BY <1>3, <3>1, <3>2
    <2> QED BY <1>1, <2>1, <2>2, NumbersStay
\* The socket is closed before the connection is counted out, or it is not.
<1>4. CASE Close(w)
    <2>1. PICK s : s = socketOf[pIoData[w]]
        OBVIOUS
    <2>2. /\ s \in Open /\ Open' = Open \ {s} /\ step[w] = "close"
          /\ step' \in {[step EXCEPT ![w] = "sub"], [step EXCEPT ![w] = "delete"]}
        BY <1>1, <1>4, <2>1, CloseKeepsCore
    <2>3. UNCHANGED currentConnectionNumber
        BY <1>4 DEF Close, counters
    <2>4. Cardinality(Open') = Cardinality(Open) - 1
        BY <2>2, SetsAreFinite, FS_RemoveElement
    <2>5. /\ Cardinality(Subbing') <= Cardinality(Subbing) + 1
          /\ Cardinality(Subbing') \in Nat
        <3>1. Subbing' = Subbing \/ Subbing' = Subbing \cup {w}
            BY <2>2 DEF Subbing, IoTypes
        <3>2. /\ Cardinality(Subbing \cup {w}) <= Cardinality(Subbing) + 1
              /\ Cardinality(Subbing \cup {w}) \in Nat
            BY SetsAreFinite, OneMore
        <3>3. CASE Subbing' = Subbing
            BY <1>2, <3>3
        <3>4. CASE Subbing' = Subbing \cup {w}
            BY <3>2, <3>4
        <3> QED BY <3>1, <3>3, <3>4
    <2> QED BY <1>1, <1>2, <2>2, <2>3, <2>4, <2>5 DEF Numbers
<1>5. CASE SubCurrent(w)
    <2>1. /\ Open' = Open
          /\ currentConnectionNumber' = currentConnectionNumber - 1
          /\ step[w] = "sub" /\ step' = [step EXCEPT ![w] = "delete"]
        BY <1>5 DEF SubCurrent, Goto, connVars, Open, Unsent
    <2>2. Subbing' = Subbing \ {w} /\ w \in Subbing
        BY <2>1 DEF Subbing, IoTypes
    <2>3. Cardinality(Subbing') = Cardinality(Subbing) - 1
        BY <2>2, SetsAreFinite, FS_RemoveElement
    <2> QED BY <1>1, <1>2, <2>1, <2>3 DEF Numbers
<1> QED BY <1>3, <1>4, <1>5 DEF WorkerStep

LEMMA NextKeepsNumbers == Core /\ Unsent /\ Numbers /\ [Next]_vars => Numbers'
<1> SUFFICES ASSUME Core, Unsent, Numbers, [Next]_vars PROVE Numbers'
    OBVIOUS
<1>1. CASE MainStep \/ KernelStep \/ \E w \in Workers : WorkerStep(w)
    BY <1>1, MainKeepsNumbers, KernelKeepsNumbers, WorkerKeepsNumbers
<1>2. CASE (\E c \in Clients : ClientActs(c)) \/ UNCHANGED vars
    <2>1. /\ UNCHANGED <<step, version, main, currentConnectionNumber>>
          /\ UNCHANGED connVars \/ \E c \in Clients : ClientStep(c)
        BY <1>2 DEF ClientActs, vars, workerVars, mainVars, counters
    <2>2. Open' = Open /\ Subbing' = Subbing
        BY <2>1 DEF ClientStep, Connect, SendSegment, Leave, connVars, Open, Subbing
    <2> QED BY <2>1, <2>2, NumbersStay
<1> QED BY <1>1, <1>2 DEF Next

----------------------------------------------------------------------------
\* What was checked on an instance, for every instance

LEMMA Inductive == Spec => []IndInv
<1>1. Init => Reasons /\ Unsent /\ BoundNext
    BY DEF Init, Reasons, Unsent, BoundNext, Pending
<1>2. Init => Numbers
    <2> SUFFICES ASSUME Init PROVE Numbers
        OBVIOUS
    <2>1. Open = {} /\ Subbing = {}
        BY DEF Init, ConnectionsInit, Open, Subbing
    <2> QED BY <2>1, FS_EmptySet, IocpServerAssumption DEF Init, CountersInit, Numbers
<1>3. Init => IndInv
    BY <1>1, <1>2, InitCore DEF IndInv, Core
<1>4. IndInv /\ [Next]_vars => IndInv'
    BY NextKeepsCore, NextKeepsUnsent, NextKeepsBoundNext, NextKeepsReasons,
       NextKeepsNumbers DEF IndInv, Core
<1> QED BY <1>3, <1>4, PTL DEF Spec

\* An IO_DATA is in one place, and one that was deleted is nowhere
\* (HttpServer_v4.h, 67-124, 184-191; HttpServer_v4_1.h, 164-257).
THEOREM IoDataAlwaysInOnePlace == Spec => []InOnePlace
<1>1. IndInv => InOnePlace
    <2> SUFFICES ASSUME IndInv PROVE InOnePlace
        OBVIOUS
    <2> USE IocpServerAssumption DEF IndInv, Types
    <2>1. TypeOK
        <3> DEFINE S == [data : allocated, size : Nat \cup {Failed}]
        <3>1. port \in Seq(S)
            <4>1. /\ Len(port) \in Nat /\ DOMAIN port = 1..Len(port)
                  /\ port = [k \in 1..Len(port) |-> port[k]]
                BY DEF IoTypes
            <4>2. \A k \in 1..Len(port) : port[k] \in S
                <5> SUFFICES ASSUME NEW k \in 1..Len(port) PROVE port[k] \in S
                    OBVIOUS
                <5>1. port[k] \in Completions /\ port[k].data \in allocated
                    BY DEF IoTypes, Place
                <5> QED BY <5>1 DEF Completions
            <4> HIDE DEF S
            <4>3. port \in [1..Len(port) -> S]
                BY <4>1, <4>2
            <4> QED BY <4>1, <4>3
        <3> QED BY <3>1 DEF TypeOK, ConnectionTypes, IoTypes, MainTypes, Reasons
    <2>2. ASSUME NEW d \in IoData
          PROVE  Cardinality(Queued(d)) + Cardinality(Using(d))
                     + (IF d \in kernel THEN 1 ELSE 0)
                 <= IF d \in allocated THEN 1 ELSE 0
        <3>1. \A w \in Using(d) : w \in Workers /\ Acts(w) /\ pIoData[w] = d
            BY DEF Using, Acts, Place
        <3>2. \A k \in Queued(d) : k \in 1..Len(port) /\ port[k].data = d
            BY DEF Queued, IoTypes
        <3>3. Cardinality({}) = 0
            BY FS_EmptySet
        <3>4. CASE d \in kernel
            <4>1. d \in allocated
                BY <3>4 DEF IoTypes
            <4>2. Queued(d) = {}
                BY <3>2, <3>4 DEF Place
            <4>3. Using(d) = {}
                BY <3>1, <3>4 DEF Place
            <4> QED BY <3>3, <3>4, <4>1, <4>2, <4>3
        <3>5. CASE Queued(d) # {}
            <4>1. PICK k : k \in Queued(d)
                BY <3>5
            <4>2. Queued(d) = {k} /\ d \in allocated \ kernel /\ Using(d) = {}
                BY <3>1, <3>2, <4>1 DEF Place
            <4>3. Cardinality(Queued(d)) = 1
                BY <4>2, FS_Singleton
            <4> QED BY <3>3, <4>2, <4>3
        <3>6. CASE Using(d) # {} /\ Queued(d) = {}
            <4>1. PICK w : w \in Using(d)
                BY <3>6
            <4>2. Using(d) = {w} /\ d \in allocated \ kernel
                BY <3>1, <4>1 DEF Place
            <4>3. Cardinality(Using(d)) = 1
                BY <4>2, FS_Singleton
            <4> QED BY <3>3, <3>6, <4>2, <4>3
        <3>7. CASE d \notin kernel /\ Queued(d) = {} /\ Using(d) = {}
            BY <3>3, <3>7
        <3> QED BY <3>4, <3>5, <3>6, <3>7
    <2> QED BY <2>1, <2>2 DEF InOnePlace
<1> QED BY <1>1, Inductive, PTL

\* Until its worker closes it, the socket of an IO_DATA is open and is no other
\* one's (HttpServer_v4.h, 70, 97-103).
THEOREM SocketAlwaysItsOwn == Spec => []SocketIsItsOwn
<1>1. IndInv => SocketIsItsOwn
    BY DEF IndInv, Owned, Waiting, SocketIsItsOwn
<1> QED BY <1>1, Inductive, PTL

\* What is lost was answered, or its operation failed, or it completed before the
\* main thread had bound the socket it had just posted
\* (HttpServer_v4.h, 53-56, 116; HttpServer_v4_1.h, 111-116).
THEOREM NothingIsLostWithoutReason == Spec => []LostForAReason
<1>1. IndInv => LostForAReason
    <2> SUFFICES ASSUME IndInv, NEW d \in Lost
                 PROVE  /\ socketOf[d] \in Open
                        /\ Answered(d) \/ FailedFor(d) \/ d \in missed
        BY DEF LostForAReason, Answered, FailedFor
    <2> USE DEF IndInv, Types
    <2>1. d \in allocated \ kernel /\ ~AtPort(d) /\ ~ActedOn(d)
        BY DEF Lost, Queued, Using, AtPort, ActedOn, Acts, IoTypes
    <2>2. d \in Pending
        BY <2>1, NotActedOnIsPending
    <2> QED BY <2>1, <2>2 DEF Owned, Waiting, Reasons
<1> QED BY <1>1, Inductive, PTL

\* v4 never counts fewer connections than are open, nor below zero: what it
\* closes after an exception (HttpServer_v4.h, 101-105) or a failed WSARecv
\* (187-191), and what it could not accept (149-152), stays counted.
NeverUndercounts ==
    version = "v4" =>
        currentConnectionNumber >=
            Cardinality(Open) + Cardinality({w \in Workers : step[w] = "sub"})
            - (IF main = "count" THEN 1 ELSE 0)

\* It holds in every reachable state.
THEOREM NeverCountsTooFew == Spec => []NeverUndercounts
<1>1. IndInv => NeverUndercounts
    BY DEF IndInv, Numbers, Subbing, NeverUndercounts
<1> QED BY <1>1, Inductive, PTL

\* No worker takes the branch for SEND_FINISHED (HttpServer_v4.h, 107-123;
\* HttpServer_v4_1.h, 238-257): no operation that completes is a send.  So the
\* socket is not closed there, and v4_1 posts no accept after its first ones.
ReplyIsNeverReported == \A w \in Workers : step[w] \notin {"reply", "repost"}

\* It holds in every reachable state.
THEOREM RepliesAreNeverReported == Spec => []ReplyIsNeverReported
<1>1. IndInv => ReplyIsNeverReported
    BY DEF IndInv, Types, IoTypes, ReplyIsNeverReported
<1> QED BY <1>1, Inductive, PTL
=============================================================================
