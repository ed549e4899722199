------------------------ MODULE SelectServerProofs ------------------------
(***************************************************************************)
(* What TLC checks of SelectServer on sets of three sockets, proved for    *)
(* any FD_SETSIZE, and for any number of clients, sockets and workers:     *)
(* the types, that every connection is in one place, that the listening    *)
(* socket always finds room in the set for the next round, and that a      *)
(* worker collects what its client sent and answers whole requests only.   *)
(*                                                                         *)
(* WatchedOrOwned counts, for each socket, how often it is held. The       *)
(* invariant says the same with quantifiers (HeldIsOpen, HeldOnce and      *)
(* OpenIsHeld), which is easier to reason about. Round is what the loops   *)
(* of a round keep true of the sets: without it FD_SET could drop a        *)
(* connection that the main thread then has no hold of. ReadInv is about   *)
(* clients: one is in the listen queue or behind one open socket, and      *)
(* nothing of it has been received before a worker begins with that        *)
(* socket.                                                                 *)
(***************************************************************************)
EXTENDS SelectServer, FiniteSetTheorems, TLAPS

\* The types of the connections, with what closed and replied need to stay
\* subsets of connected: only who connected is in the listen queue or a peer.
ConnectionTypes ==
    /\ ConnectionsTypeOK
    /\ sent \in [Clients -> Nat]
    /\ unread \in [Clients -> Nat]
    /\ \A k \in 1..Len(backlog) : backlog[k] \in connected
    /\ \A s \in Sockets : peer[s] \in connected \cup {NoClient}

Steps == {"idle", "recv", "send", "close", "callback", "respond"}

\* The types of the pool and of the tasks, where a worker has no task exactly
\* while it is idle.
WorkerTypes ==
    /\ taskQueue \in Seq(Sockets)
    /\ task \in [Workers -> Sockets \cup {NoSocket}]
    /\ worker \in [Workers -> {"start", "getTask", "task"}]
    /\ step \in [Workers -> Steps]
    /\ data \in [Workers -> Nat]
    /\ \A w \in Workers : worker[w] = "task" <=> step[w] # "idle"
    /\ \A w \in Workers : step[w] = "idle" <=> task[w] = NoSocket

SetTypes ==
    /\ \A set \in {to_be_checked_fds, new_to_be_checked_fds, readable_fds,
                   exceptional_fds, todo} :
          set \subseteq Watchable /\ Cardinality(set) <= FD_SETSIZE
    /\ fdSeats \in 0..FD_SETSIZE
    /\ main \in {"select", "timeout", "loop", "accept", "exit"}
    /\ forgotten \subseteq Sockets
    /\ selectErrors \in 0..MaxSelectErrors

Types == ConnectionTypes /\ WorkerTypes /\ SetTypes

\* The connections of the round and of the next one are apart and leave a
\* place in the set for the listening socket; while connections can still be
\* accepted in this round, a place for each of them too.
Round ==
    /\ main = "select" => todo = {} /\ new_to_be_checked_fds = {}
    /\ listenSocket \notin new_to_be_checked_fds
    /\ todo \cap new_to_be_checked_fds = {}
    /\ main = "accept" => listenSocket \notin todo
    /\ Cardinality(Watched) < FD_SETSIZE
    /\ (main = "accept" \/ listenSocket \in todo) /\ main # "timeout" =>
          Cardinality(Watched) + fdSeats < FD_SETSIZE

Holding == {"recv", "send", "close"}

\* The open connections the server has not forgotten.
Ours == Open \ forgotten

\* What is held, by the main thread, the queue or a worker, is open.
HeldIsOpen ==
    /\ Watched \subseteq Ours
    /\ \A k \in 1..Len(taskQueue) : taskQueue[k] \in Ours
    /\ \A w \in Workers : step[w] \in Holding => task[w] \in Ours

\* Nothing is held twice.
HeldOnce ==
    /\ \A k, n \in 1..Len(taskQueue) : taskQueue[k] = taskQueue[n] => k = n
    /\ \A k \in 1..Len(taskQueue) : taskQueue[k] \notin Watched
    /\ \A w \in Workers : step[w] \in Holding =>
          /\ task[w] \notin Watched
          /\ \A k \in 1..Len(taskQueue) : task[w] # taskQueue[k]
    /\ \A v, w \in Workers :
          step[v] \in Holding /\ step[w] \in Holding /\ task[v] = task[w] => v = w

\* Every connection the server has not forgotten is held.
OpenIsHeld ==
    \A s \in Ours :
        \/ s \in Watched
        \/ \E k \in 1..Len(taskQueue) : taskQueue[k] = s
        \/ \E w \in Workers : step[w] \in Holding /\ task[w] = s

Hands == HeldIsOpen /\ HeldOnce /\ OpenIsHeld

Started == {w \in Workers : worker[w] # "start"}

WorkersAreCounted == currentWorkerNumber = Cardinality(Started)

IndInv == Types /\ Round /\ Hands /\ WorkersAreCounted

----------------------------------------------------------------------------
\* The sets have finitely many members, so that they can be counted.
LEMMA SetsAreFinite ==
    ASSUME NEW S, S \subseteq Watchable
    PROVE  IsFiniteSet(S) /\ Cardinality(S) \in Nat
<1>1. IsFiniteSet(Watchable)
    BY FS_AddElement, ConnectionsAssumption DEF Watchable
<1> QED BY <1>1, FS_Subset, FS_CardinalityType

\* FD_SET adds its socket unless the set is full.
LEMMA FdSetAdds ==
    ASSUME NEW S, S \subseteq Watchable, Cardinality(S) <= FD_SETSIZE,
           NEW s \in Watchable
    PROVE  /\ FdSet(s, S) \subseteq Watchable
           /\ Cardinality(FdSet(s, S)) <= FD_SETSIZE
           /\ Cardinality(S) < FD_SETSIZE => FdSet(s, S) = S \cup {s}
<1>1. IsFiniteSet(S) /\ Cardinality(S) \in Nat
    BY SetsAreFinite
<1>2. Cardinality(S \cup {s}) <= Cardinality(S) + 1
    BY <1>1, FS_AddElement
<1>3. Cardinality(S \cup {s}) \in Nat
    BY SetsAreFinite
<1> QED BY <1>1, <1>2, <1>3, SelectServerAssumption DEF FdSet

LEMMA InitInv == Init => IndInv
<1> SUFFICES ASSUME Init PROVE IndInv
    OBVIOUS
<1> USE ConnectionsAssumption, SelectServerAssumption
    DEF Init, ConnectionsInit, PoolInit, RequestInit, Queue!Init
<1>1. ConnectionTypes
    BY DEF ConnectionTypes, ConnectionsTypeOK
<1>2. WorkerTypes
    BY DEF WorkerTypes, Steps
<1>3. Cardinality({}) = 0 /\ Cardinality({listenSocket}) = 1
    BY FS_EmptySet, FS_Singleton
<1>4. SetTypes
    BY <1>3 DEF SetTypes, Watchable
<1>5. Watched = {}
    BY DEF Watched
<1>6. Round
    BY <1>3, <1>5 DEF Round
<1>7. Hands
    BY <1>5 DEF Hands, HeldIsOpen, HeldOnce, OpenIsHeld, Ours, Open, Holding
<1>8. WorkersAreCounted
    <2>1. Started = {}
        BY DEF Started
    <2> QED BY <1>3, <2>1 DEF WorkersAreCounted
<1> QED BY <1>1, <1>2, <1>4, <1>6, <1>7, <1>8 DEF IndInv, Types

----------------------------------------------------------------------------
\* Every call and every act of a client keeps the types of the connections.
LEMMA ConnectionsKeepTypes ==
    ASSUME ConnectionTypes,
           \/ AcceptAborted
           \/ \E s \in Sockets : AcceptOn(s) \/ Receive(s) \/ SendTo(s) \/ CloseSocket(s)
           \/ \E c \in Clients : ClientStep(c)
           \/ UNCHANGED connVars
    PROVE  ConnectionTypes'
<1> USE ConnectionsAssumption DEF ConnectionTypes, ConnectionsTypeOK
<1>0. ASSUME backlog # <<>>, backlog' = Tail(backlog)
      PROVE  /\ Head(backlog) = backlog[1] /\ Head(backlog) \in connected
             /\ backlog' \in Seq(Clients)
             /\ \A k \in 1..Len(backlog') :
                   backlog'[k] = backlog[k + 1] /\ k + 1 \in 1..Len(backlog)
    BY <1>0
<1>1. CASE AcceptAborted
    <2>1. /\ backlog' \in Seq(Clients) /\ closed' \subseteq connected
          /\ \A k \in 1..Len(backlog') : backlog'[k] \in connected
          /\ UNCHANGED <<peer, sent, unread, connected, left, replied>>
        BY <1>0, <1>1 DEF AcceptAborted
    <2> QED BY <2>1
<1>2. ASSUME NEW s \in Sockets, AcceptOn(s) PROVE ConnectionTypes'
    <2>1. /\ backlog' \in Seq(Clients)
          /\ \A k \in 1..Len(backlog') : backlog'[k] \in connected
          /\ peer' = [peer EXCEPT ![s] = Head(backlog)]
          /\ Head(backlog) \in connected
          /\ UNCHANGED <<sent, unread, connected, left, closed, replied>>
        BY <1>0, <1>2 DEF AcceptOn
    <2> QED BY <2>1
<1>3. ASSUME NEW s \in Sockets, Receive(s) PROVE ConnectionTypes'
    BY <1>3 DEF Receive, Open
<1>4. ASSUME NEW s \in Sockets, SendTo(s) PROVE ConnectionTypes'
    BY <1>4 DEF SendTo
<1>5. ASSUME NEW s \in Sockets, CloseSocket(s) PROVE ConnectionTypes'
    BY <1>5 DEF CloseSocket
<1>6. ASSUME NEW c \in Clients, ClientStep(c) PROVE ConnectionTypes'
    <2>1. CASE Connect(c)
        BY <2>1 DEF Connect
    <2>2. CASE SendSegment(c)
        BY <2>2 DEF SendSegment
    <2>3. CASE Leave(c)
        BY <2>3 DEF Leave
    <2> QED BY <1>6, <2>1, <2>2, <2>3 DEF ClientStep
<1>7. CASE UNCHANGED connVars
    BY <1>7 DEF connVars
<1> QED BY <1>1, <1>2, <1>3, <1>4, <1>5, <1>6, <1>7

\* A connection comes to the main thread or leaves it together with being
\* ours or not: what the queue and the workers hold is as it was.
LEMMA HandsStay ==
    ASSUME Hands, UNCHANGED taskQueue,
           Watched' \subseteq Ours', Ours' \ Watched' = Ours \ Watched,
           \A v \in Workers :
              /\ step'[v] \in Holding <=> step[v] \in Holding
              /\ step[v] \in Holding => task'[v] = task[v]
    PROVE  Hands'
<1>1. HeldIsOpen'
    BY DEF Hands, HeldIsOpen, HeldOnce
<1>2. HeldOnce'
    BY DEF Hands, HeldIsOpen, HeldOnce
<1>3. OpenIsHeld'
    BY DEF Hands, OpenIsHeld
<1> QED BY <1>1, <1>2, <1>3 DEF Hands

LEMMA PoolStays ==
    ASSUME WorkerTypes, WorkersAreCounted, UNCHANGED <<poolVars, requestVars>>
    PROVE  /\ WorkerTypes' /\ WorkersAreCounted'
           /\ UNCHANGED <<taskQueue, task, step>>
BY DEF WorkerTypes, WorkersAreCounted, Started, poolVars, requestVars

----------------------------------------------------------------------------
\* The main thread

LEMMA SelectKeepsInv ==
    ASSUME IndInv, ListenOnly \/ SelectReturns \/ SelectTimesOut \/ SelectFails
    PROVE  IndInv'
<1> USE ConnectionsAssumption, SelectServerAssumption DEF IndInv, Types
<1>1. /\ UNCHANGED <<connVars, poolVars, requestVars>>
      /\ main = "select" /\ todo = {} /\ new_to_be_checked_fds = {}
      /\ Watched = to_be_checked_fds \ {listenSocket}
    BY DEF ListenOnly, SelectReturns, SelectTimesOut, SelectFails, Round, Watched
<1>2. ConnectionTypes' /\ Open' = Open
    BY <1>1, ConnectionsKeepTypes DEF Open, connVars
<1>3. /\ WorkerTypes' /\ WorkersAreCounted'
      /\ UNCHANGED <<taskQueue, task, step>>
    BY <1>1, PoolStays
<1>4. ASSUME NEW S \in SUBSET to_be_checked_fds
      PROVE  S \subseteq Watchable /\ Cardinality(S) <= FD_SETSIZE
    BY FS_Subset, SetsAreFinite DEF SetTypes
<1>5. Cardinality(Watched) \in Nat /\ Watched \in SUBSET to_be_checked_fds
    BY <1>1, SetsAreFinite DEF SetTypes
<1>6. CASE ListenOnly
    <2> USE <1>6 DEF ListenOnly, mainVars
    <2>1. SetTypes'
        BY <1>4 DEF SetTypes
    <2>2. Watched' = Watched
        BY <1>1 DEF Watched
    <2>3. Round'
        BY <1>1, <2>2 DEF Round
    <2>4. Hands'
        BY <1>2, <1>3, <2>2, HandsStay DEF Ours, Hands, HeldIsOpen
    <2> QED BY <1>2, <1>3, <2>1, <2>3, <2>4
<1>7. CASE SelectReturns
    <2> USE <1>7 DEF SelectReturns
    <2>1. /\ ReadReady \in SUBSET to_be_checked_fds
          /\ exceptional_fds' \in SUBSET to_be_checked_fds
        BY DEF ReadReady
    <2>2. SetTypes'
        <3>1. fdSeats' \in 0..FD_SETSIZE
            BY SetsAreFinite DEF Seats, SetTypes
        <3> QED BY <1>4, <2>1, <3>1 DEF SetTypes
    <2>3. Watched' = Watched
        BY <1>1 DEF Watched
    <2>4. Round'
        <3>1. ASSUME listenSocket \in to_be_checked_fds
              PROVE  Cardinality(Watched) = Cardinality(to_be_checked_fds) - 1
            BY <1>1, <3>1, SetsAreFinite, FS_RemoveElement DEF SetTypes
        <3>2. Cardinality(to_be_checked_fds) \in Nat
            BY SetsAreFinite DEF SetTypes
        <3> QED BY <1>1, <1>5, <2>3, <3>1, <3>2 DEF Round, Seats
    <2>5. Hands'
        BY <1>2, <1>3, <2>3, HandsStay DEF Ours, Hands, HeldIsOpen
    <2> QED BY <1>2, <1>3, <2>2, <2>4, <2>5
<1>8. CASE SelectTimesOut
    <2> USE <1>8 DEF SelectTimesOut, setVars
    <2>1. SetTypes'
        BY <1>4 DEF SetTypes
    <2>2. Watched' = Watched
        BY <1>1 DEF Watched
    <2>3. Round'
        BY <1>1, <2>2 DEF Round
    <2>4. Hands'
        BY <1>2, <1>3, <2>2, HandsStay DEF Ours, Hands, HeldIsOpen
    <2> QED BY <1>2, <1>3, <2>1, <2>3, <2>4
<1>9. CASE SelectFails
    <2> USE <1>9 DEF SelectFails
    <2>1. Watched' = {} /\ Cardinality(Watched') = 0 /\ Cardinality({listenSocket}) = 1
        BY <1>1, FS_EmptySet, FS_Singleton DEF Watched
    <2>2. SetTypes'
        <3>1. /\ to_be_checked_fds' \subseteq Watchable
              /\ Cardinality(to_be_checked_fds') <= FD_SETSIZE
            BY <2>1 DEF Watchable
        <3>2. forgotten' \subseteq Sockets
            BY DEF SetTypes, Watchable
        <3>3. selectErrors' \in 0..MaxSelectErrors
            BY DEF SetTypes
        <3> QED BY <3>1, <3>2, <3>3 DEF SetTypes
    <2>3. Round'
        BY <1>1, <2>1 DEF Round
    <2>4. Hands'
        BY <1>1, <1>2, <1>3, <2>1, HandsStay DEF Ours, Hands, HeldIsOpen
    <2> QED BY <1>2, <1>3, <2>2, <2>3, <2>4
<1> QED BY <1>6, <1>7, <1>8, <1>9

\* What the loop takes out of todo leaves the connections of the round, as it
\* is not among those of the next one.
LEMMA TodoLoses ==
    ASSUME Types, Round, main \in {"loop", "timeout"}, NEW s \in todo,
           todo' = todo \ {s},
           UNCHANGED <<setVars, fdSeats, main, forgotten, selectErrors>>
    PROVE  /\ SetTypes' /\ Round'
           /\ Watched' = Watched \ {s}
           /\ s # listenSocket => s \in Watched
<1>1. /\ Watched = (todo \cup new_to_be_checked_fds) \ {listenSocket}
      /\ Watched' = Watched \ {s} /\ UNCHANGED new_to_be_checked_fds
    BY DEF Watched, Round, setVars
<1>2. /\ todo \subseteq Watchable /\ IsFiniteSet(todo) /\ Cardinality(todo) \in Nat
      /\ Watched \subseteq Watchable /\ IsFiniteSet(Watched) /\ Cardinality(Watched) \in Nat
    BY <1>1, SetsAreFinite DEF Types, SetTypes
<1>3. /\ Cardinality(todo') \in Nat /\ Cardinality(todo') <= Cardinality(todo)
      /\ Cardinality(Watched') \in Nat /\ Cardinality(Watched') <= Cardinality(Watched)
    BY <1>1, <1>2, FS_Subset, SetsAreFinite
<1>4. SetTypes'
    BY <1>2, <1>3, SelectServerAssumption DEF Types, SetTypes, setVars
<1>5. Round'
    BY <1>1, <1>2, <1>3, SelectServerAssumption DEF Types, SetTypes, Round
<1>6. s # listenSocket => s \in Watched
    BY <1>1
<1> QED BY <1>1, <1>4, <1>5, <1>6

LEMMA CloseKeepsInv ==
    ASSUME IndInv, CloseWatched PROVE IndInv'
<1> USE ConnectionsAssumption, SelectServerAssumption DEF IndInv, Types
<1>1. PICK s \in todo \cap Sockets : CloseSocket(s) /\ todo' = todo \ {s}
    BY DEF CloseWatched
<1>2. /\ main \in {"loop", "timeout"}
      /\ UNCHANGED <<poolVars, requestVars, setVars, fdSeats, main, forgotten,
                     selectErrors>>
    BY DEF CloseWatched
<1>3. SetTypes' /\ Round' /\ Watched' = Watched \ {s} /\ s \in Watched
    BY <1>1, <1>2, TodoLoses
<1>4. ConnectionTypes'
    BY <1>1, ConnectionsKeepTypes
<1>5. Ours' = Ours \ {s}
    BY <1>1, <1>2 DEF CloseSocket, Ours, Open, ConnectionTypes, ConnectionsTypeOK
<1>6. /\ WorkerTypes' /\ WorkersAreCounted'
      /\ UNCHANGED <<taskQueue, task, step>>
    BY <1>2, PoolStays
<1>7. Hands'
    BY <1>3, <1>5, <1>6, HandsStay DEF Hands, HeldIsOpen
<1> QED BY <1>3, <1>4, <1>6, <1>7

\* The connection goes from the main thread to the queue.
LEMMA SubmitKeepsInv ==
    ASSUME IndInv, Submit PROVE IndInv'
<1> USE ConnectionsAssumption, SelectServerAssumption DEF IndInv, Types
<1>1. PICK s \in todo \cap Sockets : SubmitTask(s) /\ todo' = todo \ {s}
    BY DEF Submit
<1>2. /\ main = "loop"
      /\ taskQueue' = Append(taskQueue, s)
      /\ UNCHANGED <<connVars, requestVars, setVars, fdSeats, main, forgotten,
                     selectErrors, task, worker, currentWorkerNumber>>
    BY <1>1 DEF Submit, SubmitTask, Queue!Put
<1>3. SetTypes' /\ Round' /\ Watched' = Watched \ {s} /\ s \in Watched
    BY <1>1, <1>2, TodoLoses
<1>4. ConnectionTypes' /\ Ours' = Ours
    BY <1>2, ConnectionsKeepTypes DEF Ours, Open, connVars
<1>5. /\ Len(taskQueue') = Len(taskQueue) + 1 /\ Len(taskQueue) \in Nat
      /\ taskQueue' \in Seq(Sockets)
      /\ taskQueue'[Len(taskQueue) + 1] = s
      /\ \A k \in 1..Len(taskQueue) : taskQueue'[k] = taskQueue[k]
    BY <1>2 DEF WorkerTypes
<1>6. WorkerTypes' /\ WorkersAreCounted' /\ UNCHANGED step
    BY <1>2, <1>5 DEF WorkerTypes, WorkersAreCounted, Started, requestVars
<1>7. HeldIsOpen'
    BY <1>2, <1>3, <1>4, <1>5, <1>6 DEF Hands, HeldIsOpen
<1>8. HeldOnce'
    BY <1>2, <1>3, <1>5, <1>6 DEF Hands, HeldOnce
<1>9. OpenIsHeld'
    <2> SUFFICES ASSUME NEW r \in Ours
                 PROVE  \/ r \in Watched'
                        \/ \E k \in 1..Len(taskQueue') : taskQueue'[k] = r
                        \/ \E w \in Workers : step[w] \in Holding /\ task[w] = r
        BY <1>2, <1>4, <1>6 DEF OpenIsHeld
    <2>1. CASE r = s
        BY <2>1, <1>5
    <2>2. CASE \E k \in 1..Len(taskQueue) : taskQueue[k] = r
        BY <2>2, <1>5
    <2> QED BY <2>1, <2>2, <1>3 DEF Hands, OpenIsHeld
<1> QED BY <1>3, <1>4, <1>6, <1>7, <1>8, <1>9 DEF Hands

LEMMA KeepKeepsInv ==
    ASSUME IndInv, Keep PROVE IndInv'
<1> USE ConnectionsAssumption, SelectServerAssumption DEF IndInv, Types
<1>1. PICK s \in todo :
          /\ new_to_be_checked_fds' =
                 IF s = listenSocket THEN new_to_be_checked_fds
                 ELSE FdSet(s, new_to_be_checked_fds)
          /\ todo' = todo \ {s}
    BY DEF Keep
<1>2. /\ main = "loop"
      /\ UNCHANGED <<connVars, poolVars, requestVars, to_be_checked_fds,
                     readable_fds, exceptional_fds, fdSeats, main, forgotten,
                     selectErrors>>
    BY DEF Keep
<1>3. /\ Watched = (todo \cup new_to_be_checked_fds) \ {listenSocket}
      /\ Watched' = (todo' \cup new_to_be_checked_fds') \ {listenSocket}
      /\ Watched \subseteq Watchable /\ IsFiniteSet(Watched)
      /\ Cardinality(Watched) < FD_SETSIZE /\ Cardinality(Watched) \in Nat
    BY <1>2, SetsAreFinite DEF Watched, SetTypes, Round
<1>4. /\ Cardinality(new_to_be_checked_fds) < FD_SETSIZE
      /\ Cardinality(todo') <= FD_SETSIZE
    <2>1. /\ Cardinality(new_to_be_checked_fds) \in Nat
          /\ Cardinality(new_to_be_checked_fds) <= Cardinality(Watched)
        BY <1>3, FS_Subset, SetsAreFinite DEF Round, SetTypes
    <2>2. /\ Cardinality(todo) <= FD_SETSIZE /\ Cardinality(todo) \in Nat
          /\ Cardinality(todo') <= Cardinality(todo) /\ Cardinality(todo') \in Nat
        BY <1>1, FS_Subset, SetsAreFinite DEF SetTypes
    <2> QED BY <1>3, <2>1, <2>2
<1>5. new_to_be_checked_fds' = new_to_be_checked_fds \cup ({s} \ {listenSocket})
    BY <1>1, <1>4, FdSetAdds DEF SetTypes
<1>6. Watched' = Watched
    BY <1>1, <1>3, <1>5
<1>7. SetTypes'
    BY <1>1, <1>2, <1>4, FdSetAdds DEF SetTypes
<1>8. Round'
    BY <1>1, <1>2, <1>3, <1>5, <1>6 DEF Round
<1>9. ConnectionTypes' /\ Ours' = Ours
    BY <1>2, ConnectionsKeepTypes DEF Ours, Open, connVars
<1>10. /\ WorkerTypes' /\ WorkersAreCounted'
       /\ UNCHANGED <<taskQueue, task, step>>
    BY <1>2, PoolStays
<1>11. Hands'
    BY <1>6, <1>9, <1>10, HandsStay DEF Hands, HeldIsOpen
<1> QED BY <1>7, <1>8, <1>9, <1>10, <1>11

\* A free number is taken for the connection, which has a place in the set.
LEMMA AcceptKeepsInv ==
    ASSUME IndInv, AcceptOne PROVE IndInv'
<1> USE ConnectionsAssumption, SelectServerAssumption DEF IndInv, Types
<1>1. PICK s \in Sockets :
          /\ AcceptOn(s)
          /\ new_to_be_checked_fds' = FdSet(s, new_to_be_checked_fds)
          /\ forgotten' = forgotten \ {s}
    BY DEF AcceptOne
<1>2. /\ main = "accept" /\ fdSeats > 0 /\ fdSeats' = fdSeats - 1
      /\ UNCHANGED <<poolVars, requestVars, to_be_checked_fds, readable_fds,
                     exceptional_fds, todo, main, selectErrors>>
    BY DEF AcceptOne
<1>3. /\ Watched = (todo \cup new_to_be_checked_fds) \ {listenSocket}
      /\ Watched' = (todo' \cup new_to_be_checked_fds') \ {listenSocket}
      /\ Watched \subseteq Watchable /\ IsFiniteSet(Watched)
      /\ Cardinality(Watched) + fdSeats < FD_SETSIZE /\ Cardinality(Watched) \in Nat
      /\ fdSeats \in Nat
    BY <1>2, SetsAreFinite DEF Watched, SetTypes, Round
<1>4. Cardinality(new_to_be_checked_fds) < FD_SETSIZE
    <2>1. /\ Cardinality(new_to_be_checked_fds) \in Nat
          /\ Cardinality(new_to_be_checked_fds) <= Cardinality(Watched)
        BY <1>3, FS_Subset, SetsAreFinite DEF Round, SetTypes
    <2> QED BY <1>3, <2>1
<1>5. new_to_be_checked_fds' = new_to_be_checked_fds \cup {s}
    BY <1>1, <1>4, FdSetAdds DEF SetTypes, Watchable
<1>6. s \notin Open /\ Open' = Open \cup {s}
    <2>1. Head(backlog) \in Clients
        BY <1>1 DEF AcceptOn, ConnectionTypes, ConnectionsTypeOK
    <2> QED BY <1>1, <2>1 DEF AcceptOn, Open, ConnectionTypes, ConnectionsTypeOK
<1>7. /\ s \notin Watched /\ Watched' = Watched \cup {s}
      /\ s \notin Ours /\ Ours' = Ours \cup {s}
    BY <1>1, <1>2, <1>3, <1>5, <1>6 DEF Hands, HeldIsOpen, Ours
<1>8. Cardinality(Watched') = Cardinality(Watched) + 1
    BY <1>3, <1>7, FS_AddElement
<1>9. SetTypes'
    <2>1. /\ new_to_be_checked_fds' \subseteq Watchable
          /\ Cardinality(new_to_be_checked_fds') <= FD_SETSIZE
        BY <1>1, <1>4, FdSetAdds DEF SetTypes, Watchable
    <2>2. fdSeats' \in 0..FD_SETSIZE
        BY <1>2 DEF SetTypes
    <2> QED BY <1>1, <1>2, <2>1, <2>2 DEF SetTypes
<1>10. Round'
    BY <1>2, <1>3, <1>5, <1>7, <1>8 DEF Round
<1>11. ConnectionTypes'
    BY <1>1, ConnectionsKeepTypes
<1>12. /\ WorkerTypes' /\ WorkersAreCounted'
       /\ UNCHANGED <<taskQueue, task, step>>
    BY <1>2, PoolStays
<1>13. Hands'
    BY <1>7, <1>12, HandsStay DEF Hands, HeldIsOpen
<1> QED BY <1>9, <1>10, <1>11, <1>12, <1>13

LEMMA AcceptLoopKeepsInv ==
    ASSUME IndInv, BeginAccept \/ AcceptEnds \/ AcceptKills PROVE IndInv'
<1> USE ConnectionsAssumption, SelectServerAssumption DEF IndInv, Types
<1>1. /\ UNCHANGED <<poolVars, requestVars, setVars, fdSeats, forgotten,
                     selectErrors, peer>>
      /\ main \in {"loop", "accept"} /\ main' \in {"loop", "accept", "exit"}
      /\ todo' = todo \ {listenSocket} \/ todo' = todo
      /\ main = "loop" => todo' = todo \ {listenSocket} /\ listenSocket \in todo
      /\ main = "accept" => todo' = todo
    BY DEF BeginAccept, AcceptEnds, AcceptKills, AcceptAborted, connVars
<1>2. ConnectionTypes'
    BY ConnectionsKeepTypes DEF BeginAccept, AcceptEnds, AcceptKills
<1>3. Watched' = Watched /\ Ours' = Ours
    BY <1>1 DEF Watched, Ours, Open, setVars
<1>4. /\ WorkerTypes' /\ WorkersAreCounted'
      /\ UNCHANGED <<taskQueue, task, step>>
    BY <1>1, PoolStays
<1>5. SetTypes'
    <2>1. /\ Cardinality(todo) <= FD_SETSIZE /\ Cardinality(todo) \in Nat
          /\ Cardinality(todo') <= Cardinality(todo) /\ Cardinality(todo') \in Nat
        BY <1>1, FS_Subset, SetsAreFinite DEF SetTypes
    <2> QED BY <1>1, <2>1 DEF SetTypes, setVars
<1>6. Round'
    BY <1>1, <1>3 DEF Round, setVars
<1>7. Hands'
    BY <1>3, <1>4, HandsStay DEF Hands, HeldIsOpen
<1> QED BY <1>2, <1>4, <1>5, <1>6, <1>7

\* The listening socket finds its place in the set for the next round.
LEMMA EndKeepsInv ==
    ASSUME IndInv, EndRound PROVE IndInv' /\ listenSocket \in to_be_checked_fds'
<1> USE ConnectionsAssumption, SelectServerAssumption DEF IndInv, Types
<1>1. /\ main \in {"loop", "timeout"} /\ main' = "select" /\ todo = {} /\ todo' = {}
      /\ to_be_checked_fds' = FdSet(listenSocket, new_to_be_checked_fds)
      /\ new_to_be_checked_fds' = {} /\ readable_fds' = {} /\ exceptional_fds' = {}
      /\ fdSeats' = 0
      /\ UNCHANGED <<connVars, poolVars, requestVars, forgotten, selectErrors>>
    BY DEF EndRound
<1>2. Watched = new_to_be_checked_fds
    BY <1>1 DEF Watched, Round
<1>3. /\ to_be_checked_fds' = new_to_be_checked_fds \cup {listenSocket}
      /\ to_be_checked_fds' \subseteq Watchable
      /\ Cardinality(to_be_checked_fds') <= FD_SETSIZE
    BY <1>1, <1>2, FdSetAdds DEF SetTypes, Round, Watchable
<1>4. Watched' = Watched
    BY <1>1, <1>2, <1>3 DEF Watched, Round
<1>5. ConnectionTypes' /\ Ours' = Ours
    BY <1>1, ConnectionsKeepTypes DEF Ours, Open, connVars
<1>6. /\ WorkerTypes' /\ WorkersAreCounted'
      /\ UNCHANGED <<taskQueue, task, step>>
    BY <1>1, PoolStays
<1>7. SetTypes'
    <2>1. Cardinality({}) = 0
        BY FS_EmptySet
    <2> QED BY <1>1, <1>3, <2>1 DEF SetTypes
<1>8. Round'
    BY <1>1, <1>4 DEF Round
<1>9. Hands'
    BY <1>4, <1>5, <1>6, HandsStay DEF Hands, HeldIsOpen
<1> QED BY <1>3, <1>5, <1>6, <1>7, <1>8, <1>9

----------------------------------------------------------------------------
(* The workers and the clients, which leave the sets alone.                *)

LEMMA SetsStay ==
    ASSUME SetTypes, Round, UNCHANGED <<setVars, mainVars>>
    PROVE  SetTypes' /\ Round' /\ Watched' = Watched /\ UNCHANGED forgotten
<1>1. Watched' = Watched
    BY DEF Watched, setVars, mainVars
<1>2. SetTypes' /\ Round'
    BY <1>1 DEF SetTypes, Round, setVars, mainVars
<1> QED BY <1>1, <1>2 DEF mainVars

\* The connection goes from the queue to a worker.
LEMMA TakeKeepsInv ==
    ASSUME IndInv, NEW w \in Workers, Take(w), UNCHANGED <<setVars, mainVars>>
    PROVE  IndInv'
<1> USE ConnectionsAssumption, SelectServerAssumption DEF IndInv, Types
<1>1. /\ worker[w] = "getTask" /\ worker' = [worker EXCEPT ![w] = "task"]
      /\ taskQueue # <<>> /\ taskQueue' = Tail(taskQueue)
      /\ task' = [task EXCEPT ![w] = Head(taskQueue)]
      /\ step' = [step EXCEPT ![w] = "recv"]
      /\ UNCHANGED <<currentWorkerNumber, data, connVars>>
    BY DEF Take, GetTask, Queue!Get, Goto
<1>2. /\ Len(taskQueue) \in Nat \ {0} /\ Len(taskQueue') = Len(taskQueue) - 1
      /\ Head(taskQueue) = taskQueue[1] /\ taskQueue[1] \in Sockets
      /\ \A k \in 1..Len(taskQueue') : taskQueue'[k] = taskQueue[k + 1]
      /\ taskQueue' \in Seq(Sockets)
    BY <1>1 DEF WorkerTypes
<1>3. ConnectionTypes'
    BY <1>1, ConnectionsKeepTypes
<1>4. WorkerTypes' /\ step[w] = "idle"
    BY <1>1, <1>2 DEF WorkerTypes, Steps
<1>5. WorkersAreCounted'
    <2>1. Started' = Started
        BY <1>1 DEF Started, WorkerTypes
    <2> QED BY <1>1, <2>1 DEF WorkersAreCounted
<1>6. SetTypes' /\ Round' /\ Watched' = Watched /\ UNCHANGED forgotten
    BY SetsStay
<1>7. Hands'
    <2> DEFINE s == taskQueue[1]
    <2>1. /\ Ours' = Ours
          /\ step'[w] = "recv" /\ task'[w] = s
          /\ \A v \in Workers \ {w} : step'[v] = step[v] /\ task'[v] = task[v]
        BY <1>1, <1>2, <1>6 DEF Ours, Open, connVars, WorkerTypes
    <2>2. 1 \in 1..Len(taskQueue) /\ \A k \in 1..Len(taskQueue') :
              k + 1 \in 1..Len(taskQueue) /\ k + 1 # 1
        BY <1>2
    <2>3. HeldIsOpen'
        BY <1>2, <1>6, <2>1, <2>2 DEF Hands, HeldIsOpen
    <2>4. HeldOnce'
        <3>1. \A k, n \in 1..Len(taskQueue') : taskQueue'[k] = taskQueue'[n] => k = n
            <4> TAKE k, n \in 1..Len(taskQueue')
            <4> HAVE taskQueue'[k] = taskQueue'[n]
            <4>1. k + 1 = n + 1
                BY <1>2, <2>2 DEF Hands, HeldOnce
            <4> QED BY <4>1, <1>2
        <3>2. \A k \in 1..Len(taskQueue') :
                  taskQueue'[k] # s /\ taskQueue'[k] \notin Watched /\ s \notin Watched
            BY <1>2, <2>2 DEF Hands, HeldOnce
        <3>3. s \notin Watched
            BY <2>2 DEF Hands, HeldOnce
        <3>4. \A v \in Workers \ {w} : step[v] \in Holding =>
                  task[v] # s /\ \A k \in 1..Len(taskQueue') : task[v] # taskQueue'[k]
            BY <1>2, <2>2 DEF Hands, HeldOnce
        <3> QED BY <1>6, <2>1, <3>1, <3>2, <3>3, <3>4 DEF Hands, HeldOnce
    <2>5. OpenIsHeld'
        <3> SUFFICES ASSUME NEW r \in Ours
                     PROVE  \/ r \in Watched
                            \/ \E k \in 1..Len(taskQueue') : taskQueue'[k] = r
                            \/ \E v \in Workers : step'[v] \in Holding /\ task'[v] = r
            BY <1>6, <2>1 DEF OpenIsHeld
        <3>1. CASE r = s
            BY <2>1, <3>1 DEF Holding
        <3>2. ASSUME NEW k \in 1..Len(taskQueue), taskQueue[k] = r, r # s
              PROVE  \E n \in 1..Len(taskQueue') : taskQueue'[n] = r
            <4>1. k - 1 \in 1..Len(taskQueue') /\ k = (k - 1) + 1
                BY <3>2, <1>2
            <4> QED BY <4>1, <3>2, <1>2
        <3>3. ASSUME NEW v \in Workers, step[v] \in Holding, task[v] = r
              PROVE  step'[v] \in Holding /\ task'[v] = r
            BY <3>3, <1>4, <2>1 DEF Holding
        <3> QED BY <3>1, <3>2, <3>3 DEF Hands, OpenIsHeld
    <2> QED BY <2>3, <2>4, <2>5 DEF Hands
<1> QED BY <1>3, <1>4, <1>5, <1>6, <1>7

\* The worker lets go of the connection as it closes it.
LEMMA WorkerClosesKeepsInv ==
    ASSUME IndInv, NEW w \in Workers, Close(w), UNCHANGED <<setVars, mainVars>>
    PROVE  IndInv'
<1> USE ConnectionsAssumption, SelectServerAssumption DEF IndInv, Types
<1> DEFINE s == task[w]
<1>1. /\ step[w] = "close" /\ step' = [step EXCEPT ![w] = "callback"]
      /\ CloseSocket(s)
      /\ UNCHANGED <<data, poolVars>>
    BY DEF Close, Goto
<1>2. s \in Ours /\ s \in Sockets
    BY <1>1 DEF Hands, HeldIsOpen, Holding, Ours, Open
<1>3. SetTypes' /\ Round' /\ Watched' = Watched /\ UNCHANGED forgotten
    BY SetsStay
<1>4. Ours' = Ours \ {s}
    BY <1>1, <1>2, <1>3 DEF CloseSocket, Ours, Open, ConnectionTypes, ConnectionsTypeOK
<1>5. ConnectionTypes'
    BY <1>1, <1>2, ConnectionsKeepTypes
<1>6. WorkerTypes' /\ WorkersAreCounted'
    BY <1>1 DEF WorkerTypes, Steps, WorkersAreCounted, Started, poolVars
<1>7. Hands'
    <2>1. /\ step'[w] \notin Holding /\ step[w] \in Holding
          /\ \A v \in Workers \ {w} : step'[v] = step[v]
          /\ UNCHANGED <<taskQueue, task>>
        BY <1>1 DEF WorkerTypes, Holding, poolVars
    <2>2. HeldIsOpen'
        BY <1>3, <1>4, <2>1 DEF Hands, HeldIsOpen, HeldOnce
    <2>3. HeldOnce'
        BY <1>3, <2>1 DEF Hands, HeldOnce
    <2>4. OpenIsHeld'
        BY <1>3, <1>4, <2>1 DEF Hands, OpenIsHeld
    <2> QED BY <2>2, <2>3, <2>4 DEF Hands
<1> QED BY <1>3, <1>5, <1>6, <1>7

\* The steps of a worker that leave every connection where it is.
LEMMA WorkerKeepsInv ==
    ASSUME IndInv, NEW w \in Workers,
           \/ WorkerStarts(w) /\ UNCHANGED <<requestVars, connVars>>
           \/ Recv(w) \/ RecvThrows(w) \/ RecvWouldBlock(w) \/ Send(w)
           \/ TaskFinished(w),
           UNCHANGED <<setVars, mainVars>>
    PROVE  IndInv'
<1> USE ConnectionsAssumption, SelectServerAssumption DEF IndInv, Types
<1>1. SetTypes' /\ Round' /\ Watched' = Watched /\ UNCHANGED forgotten
    BY SetsStay
<1>2. CASE WorkerStarts(w) /\ UNCHANGED <<requestVars, connVars>>
    <2> USE <1>2 DEF WorkerStarts, requestVars, connVars
    <2>1. ConnectionTypes' /\ Ours' = Ours
        BY <1>1, ConnectionsKeepTypes DEF Ours, Open
    <2>2. WorkerTypes'
        BY DEF WorkerTypes
    <2>3. WorkersAreCounted'
        <3>1. w \notin Started /\ Started' = Started \cup {w} /\ IsFiniteSet(Started)
            BY FS_Subset DEF Started, WorkerTypes
        <3> QED BY <3>1, FS_AddElement DEF WorkersAreCounted
    <2>4. Hands'
        BY <1>1, <2>1, HandsStay DEF Hands, HeldIsOpen
    <2> QED BY <1>1, <2>1, <2>2, <2>3, <2>4
<1>3. CASE Recv(w)
    <2>1. PICK next \in {"recv", "close", "send"} : step' = [step EXCEPT ![w] = next]
        BY <1>3 DEF Recv, Goto
    <2>2. /\ step[w] = "recv" /\ task[w] \in Sockets /\ Receive(task[w])
          /\ data' = [data EXCEPT ![w] = @ + unread[peer[task[w]]]]
          /\ UNCHANGED <<peer, poolVars>>
        BY <1>3 DEF Recv, Receive, Open
    <2>3. peer[task[w]] \in Clients
        BY <2>2 DEF Receive, Open, ConnectionTypes, ConnectionsTypeOK
    <2>4. ConnectionTypes' /\ Ours' = Ours
        BY <1>1, <2>2, ConnectionsKeepTypes DEF Ours, Open
    <2>5. WorkerTypes' /\ WorkersAreCounted'
        BY <2>1, <2>2, <2>3 DEF WorkerTypes, Steps, ConnectionTypes, WorkersAreCounted,
                                Started, poolVars
    <2>6. Hands'
        BY <1>1, <2>1, <2>2, <2>4, HandsStay DEF Hands, HeldIsOpen, WorkerTypes, Holding,
                                                 poolVars
    <2> QED BY <1>1, <2>4, <2>5, <2>6
<1>4. CASE RecvThrows(w) \/ RecvWouldBlock(w) \/ Send(w)
    <2>1. /\ step[w] \in {"recv", "send"} /\ step' = [step EXCEPT ![w] = "close"]
          /\ UNCHANGED <<peer, data, poolVars>>
          /\ UNCHANGED connVars \/ SendTo(task[w])
        BY <1>4 DEF RecvThrows, RecvWouldBlock, Send, SendTo, Goto, connVars
    <2>2. task[w] \in Sockets
        BY <2>1 DEF Hands, HeldIsOpen, Holding, Ours, Open
    <2>3. ConnectionTypes' /\ Ours' = Ours
        BY <1>1, <2>1, <2>2, ConnectionsKeepTypes DEF Ours, Open
    <2>4. WorkerTypes' /\ WorkersAreCounted'
        BY <2>1 DEF WorkerTypes, Steps, WorkersAreCounted, Started, poolVars
    <2>5. Hands'
        BY <1>1, <2>1, <2>3, HandsStay DEF Hands, HeldIsOpen, WorkerTypes, Holding, poolVars
    <2> QED BY <1>1, <2>3, <2>4, <2>5
<1>5. CASE TaskFinished(w)
    <2> USE <1>5 DEF TaskFinished, Finish, TaskEnds, Queue!Release, Goto
    <2>1. ConnectionTypes' /\ Ours' = Ours
        BY <1>1, ConnectionsKeepTypes DEF Ours, Open, connVars
    <2>2. WorkerTypes'
        BY DEF WorkerTypes, Steps
    <2>3. WorkersAreCounted'
        <3>1. Started' = Started
            BY DEF Started, WorkerTypes
        <3> QED BY <3>1 DEF WorkersAreCounted
    <2>4. Hands'
        BY <1>1, <2>1, HandsStay DEF Hands, HeldIsOpen, WorkerTypes, Holding
    <2> QED BY <1>1, <2>1, <2>2, <2>3, <2>4
<1> QED BY <1>2, <1>3, <1>4, <1>5

LEMMA ClientKeepsInv ==
    ASSUME IndInv, NEW c \in Clients, ClientActs(c) PROVE IndInv'
<1> USE ConnectionsAssumption, SelectServerAssumption DEF IndInv, Types, ClientActs
<1>1. SetTypes' /\ Round' /\ Watched' = Watched /\ UNCHANGED forgotten
    BY SetsStay
<1>2. ConnectionTypes'
    BY ConnectionsKeepTypes
<1>3. Ours' = Ours
    BY <1>1 DEF ClientStep, Connect, SendSegment, Leave, Ours, Open
<1>4. /\ WorkerTypes' /\ WorkersAreCounted'
      /\ UNCHANGED <<taskQueue, task, step>>
    BY PoolStays
<1>5. Hands'
    BY <1>1, <1>3, <1>4, HandsStay DEF Hands, HeldIsOpen
<1> QED BY <1>1, <1>2, <1>4, <1>5

----------------------------------------------------------------------------
LEMMA NextKeepsInv == IndInv /\ [Next]_vars => IndInv'
<1> SUFFICES ASSUME IndInv, [Next]_vars PROVE IndInv'
    OBVIOUS
<1>1. CASE MainStep
    BY <1>1, SelectKeepsInv, CloseKeepsInv, SubmitKeepsInv, KeepKeepsInv,
       AcceptKeepsInv, AcceptLoopKeepsInv, EndKeepsInv DEF MainStep
<1>2. ASSUME NEW w \in Workers, WorkerStep(w) PROVE IndInv'
    BY <1>2, TakeKeepsInv, WorkerClosesKeepsInv, WorkerKeepsInv DEF WorkerStep, Handle
<1>3. ASSUME NEW c \in Clients, ClientActs(c) PROVE IndInv'
    BY <1>3, ClientKeepsInv
<1>4. CASE UNCHANGED vars
    <2> USE <1>4 DEF vars, IndInv, Types
    <2>1. ConnectionTypes' /\ Ours' = Ours
        BY ConnectionsKeepTypes DEF Ours, Open, connVars, mainVars
    <2>2. /\ WorkerTypes' /\ WorkersAreCounted'
          /\ UNCHANGED <<taskQueue, task, step>>
        BY PoolStays
    <2>3. SetTypes' /\ Round' /\ Watched' = Watched
        BY SetsStay
    <2>4. Hands'
        BY <2>1, <2>2, <2>3, HandsStay DEF Hands, HeldIsOpen
    <2> QED BY <2>1, <2>2, <2>3, <2>4
<1> QED BY <1>1, <1>2, <1>3, <1>4 DEF Next

LEMMA Inductive == Spec => []IndInv
BY InitInv, NextKeepsInv, PTL DEF Spec

----------------------------------------------------------------------------
\* Every variable keeps its type, and no set outgrows FD_SETSIZE.
LEMMA TypeCorrect == Spec => []TypeOK
<1>1. ASSUME IndInv PROVE TypeOK
    <2> USE <1>1, SelectServerAssumption DEF IndInv, Types
    <2>1. ConnectionsTypeOK
        BY DEF ConnectionTypes
    <2>2. PoolTypeOK
        <3>1. Started \subseteq Workers
            BY DEF Started
        <3>2. Cardinality(Started) \in 0..Cardinality(Workers)
            BY <3>1, FS_Subset, FS_CardinalityType
        <3> QED BY <3>2 DEF PoolTypeOK, WorkerTypes, WorkersAreCounted
    <2>3. RequestTypeOK
        BY DEF RequestTypeOK, WorkerTypes, Steps
    <2> QED BY <2>1, <2>2, <2>3 DEF TypeOK, SetTypes
<1> QED BY <1>1, Inductive, PTL

\* Every connection is watched, queued or in the hands of one worker, once
\* (HttpServer_v2.h, 78-147), for any number of each.
THEOREM AlwaysWatchedOrOwned == Spec => []WatchedOrOwned
<1>1. ASSUME IndInv, TypeOK PROVE WatchedOrOwned
    <2> SUFFICES ASSUME NEW s \in Sockets
                 PROVE  Cardinality(Queued(s)) + Cardinality(Using(s))
                            + (IF s \in Watched THEN 1 ELSE 0)
                        = IF s \in Open \ forgotten THEN 1 ELSE 0
        BY <1>1 DEF WatchedOrOwned
    <2>0. taskQueue \in Seq(Sockets) /\ DOMAIN taskQueue = 1..Len(taskQueue)
        BY <1>1 DEF IndInv, Types, WorkerTypes
    <2>1. \/ Queued(s) = {} /\ Cardinality(Queued(s)) = 0
          \/ \E k \in 1..Len(taskQueue) :
                Queued(s) = {k} /\ taskQueue[k] = s /\ Cardinality(Queued(s)) = 1
        <3>1. CASE \E k \in 1..Len(taskQueue) : taskQueue[k] = s
            <4>1. PICK k \in 1..Len(taskQueue) : taskQueue[k] = s
                BY <3>1
            <4>2. Queued(s) = {k}
                BY <1>1, <2>0, <4>1 DEF Queued, IndInv, Hands, HeldOnce
            <4> QED BY <4>1, <4>2, FS_Singleton
        <3>2. CASE ~ \E k \in 1..Len(taskQueue) : taskQueue[k] = s
            BY <2>0, <3>2, FS_EmptySet DEF Queued
        <3> QED BY <3>1, <3>2
    <2>2. \/ Using(s) = {} /\ Cardinality(Using(s)) = 0
          \/ \E w \in Workers :
                Using(s) = {w} /\ task[w] = s /\ step[w] \in Holding
                    /\ Cardinality(Using(s)) = 1
        <3>1. CASE \E w \in Workers : task[w] = s /\ step[w] \in Holding
            <4>1. PICK w \in Workers : task[w] = s /\ step[w] \in Holding
                BY <3>1
            <4>2. Using(s) = {w}
                BY <1>1, <4>1 DEF Using, IndInv, Hands, HeldOnce, Holding
            <4> QED BY <4>1, <4>2, FS_Singleton
        <3>2. CASE ~ \E w \in Workers : task[w] = s /\ step[w] \in Holding
            BY <3>2, FS_EmptySet DEF Using, Holding
        <3> QED BY <3>1, <3>2
    <2>3. CASE s \in Ours
        BY <1>1, <2>0, <2>1, <2>2, <2>3
           DEF Ours, IndInv, Hands, HeldOnce, OpenIsHeld, Queued, Using, Holding
    <2>4. CASE s \notin Ours
        BY <1>1, <2>0, <2>1, <2>2, <2>4 DEF Ours, IndInv, Hands, HeldIsOpen
    <2> QED BY <2>3, <2>4
<1> QED BY <1>1, Inductive, TypeCorrect, PTL

\* The set for the next round has the listening socket in it, whatever was
\* accepted and kept (HttpServer_v2.h, 78).
THEOREM ListenAlwaysStaysWatched == Spec => ListenStaysWatched
<1>1. ASSUME IndInv, [Next]_vars, main' = "select", main # "select"
      PROVE  listenSocket \in to_be_checked_fds'
    <2>1. EndRound
        BY <1>1 DEF Next, MainStep, ListenOnly, SelectReturns, SelectTimesOut,
                    SelectFails, CloseWatched, Submit, Keep, BeginAccept, AcceptOne,
                    AcceptEnds, AcceptKills, WorkerStep, ClientActs, mainVars, vars
    <2> QED BY <1>1, <2>1, EndKeepsInv
<1> QED BY <1>1, Inductive, PTL DEF Spec, ListenStaysWatched

----------------------------------------------------------------------------
(* What the workers collect.                                               *)

\* Nothing of what c sent has been received.
Untouched(c) == unread[c] = sent[c]

\* A good request, received to its end.
Whole(c) == Request[c].kind = "good" /\ sent[c] = Request[c].segments /\ unread[c] = 0

\* A client is in the listen queue or behind a socket, and only once.
OnePlace ==
    /\ \A j, k \in 1..Len(backlog) : backlog[j] = backlog[k] => j = k
    /\ \A k \in 1..Len(backlog), s \in Sockets : peer[s] # backlog[k]
    /\ \A r, s \in Open : peer[r] = peer[s] => r = s

\* Only a worker receives, and from the socket of its task.
NotReceivedYet ==
    /\ \A c \in Clients \ connected : sent[c] = 0 /\ unread[c] = 0
    /\ \A k \in 1..Len(backlog) : Untouched(backlog[k])
    /\ \A s \in Open : \/ Untouched(peer[s])
                       \/ \E w \in Workers : step[w] \in Holding /\ task[w] = s

Collected ==
    \A w \in Workers :
        /\ step[w] = "idle" => data[w] = 0
        /\ step[w] = "recv" => data[w] + unread[peer[task[w]]] = sent[peer[task[w]]]
        /\ step[w] = "send" => Whole(peer[task[w]])

ReadInv == OnePlace /\ NotReceivedYet /\ Collected /\ \A c \in replied : Whole(c)

LEMMA InitRead == Init => ReadInv
BY ConnectionsAssumption, SelectServerAssumption
   DEF Init, ConnectionsInit, PoolInit, RequestInit, ReadInv, OnePlace, NotReceivedYet,
       Collected, Open

\* The clients behind the open sockets and in the listen queue are clients.
LEMMA PeersAreClients ==
    ASSUME IndInv
    PROVE  /\ \A s \in Open : s \in Sockets /\ peer[s] \in Clients
           /\ \A k \in 1..Len(backlog) : backlog[k] \in Clients /\ backlog[k] \in connected
           /\ \A c \in Clients : sent[c] \in Nat /\ unread[c] \in Nat /\ Request[c].segments \in Nat
           /\ replied \subseteq Clients /\ connected \subseteq Clients
           /\ \A w \in Workers : data[w] \in Nat
<1> USE ConnectionsAssumption DEF IndInv, Types, ConnectionTypes, ConnectionsTypeOK
<1>1. \A s \in Open : s \in Sockets /\ peer[s] \in Clients
    BY DEF Open
<1>2. \A k \in 1..Len(backlog) : backlog[k] \in Clients /\ backlog[k] \in connected
    OBVIOUS
<1>3. replied \subseteq Clients /\ connected \subseteq Clients
    OBVIOUS
<1>4. \A w \in Workers : data[w] \in Nat
    BY DEF WorkerTypes
<1>5. \A c \in Clients : Request[c].segments \in Nat
    OBVIOUS
<1>6. \A c \in Clients : sent[c] \in Nat /\ unread[c] \in Nat
    OBVIOUS
<1> QED BY <1>1, <1>2, <1>3, <1>4, <1>5, <1>6

\* The socket of a worker that still has it is open.
LEMMA HeldHaveClients ==
    ASSUME IndInv, NEW w \in Workers, step[w] \in Holding
    PROVE  /\ task[w] \in Open /\ peer[task[w]] \in Clients
           /\ \A v \in Workers \ {w} : step[v] \in Holding => task[v] # task[w]
<1>1. task[w] \in Open
    BY DEF IndInv, Hands, HeldIsOpen, Ours
<1>2. \A v \in Workers \ {w} : step[v] \in Holding => task[v] # task[w]
    BY DEF IndInv, Hands, HeldOnce
<1> QED BY <1>1, <1>2, PeersAreClients

\* What a client sends is unread, and nobody takes it for received.
LEMMA ClientKeepsRead ==
    ASSUME IndInv, ReadInv, NEW c \in Clients, ClientActs(c)
    PROVE  ReadInv'
<1> USE PeersAreClients
<1>0. /\ UNCHANGED <<peer, replied, task, step, data>>
      /\ Open' = Open
    BY DEF ClientActs, ClientStep, Connect, SendSegment, Leave, poolVars, requestVars, Open
<1>1. CASE Connect(c)
    <2>1. /\ c \notin connected /\ connected' = connected \cup {c}
          /\ backlog' = Append(backlog, c) /\ UNCHANGED <<sent, unread>>
        BY <1>1 DEF Connect
    <2>2. /\ Len(backlog) \in Nat /\ Len(backlog') = Len(backlog) + 1
          /\ backlog'[Len(backlog) + 1] = c
          /\ \A k \in 1..Len(backlog) : backlog'[k] = backlog[k]
        BY <2>1 DEF IndInv, Types, ConnectionTypes, ConnectionsTypeOK
    <2>3. \A k \in 1..Len(backlog) : backlog[k] # c
        BY <2>1
    <2>4. \A s \in Sockets : peer[s] # c
        BY <2>1, ConnectionsAssumption DEF IndInv, Types, ConnectionTypes
    <2>5. OnePlace'
        BY <1>0, <2>2, <2>3, <2>4 DEF ReadInv, OnePlace
    <2>6. NotReceivedYet'
        BY <1>0, <2>1, <2>2 DEF ReadInv, NotReceivedYet, Untouched
    <2>7. Collected' /\ \A d \in replied' : Whole(d)'
        BY <1>0, <2>1 DEF ReadInv, Collected, Whole
    <2> QED BY <2>5, <2>6, <2>7 DEF ReadInv
<1>2. CASE SendSegment(c)
    <2>1. /\ c \in connected /\ sent[c] < Request[c].segments
          /\ \A d \in Clients \ {c} : sent'[d] = sent[d] /\ unread'[d] = unread[d]
          /\ sent'[c] = sent[c] + 1 /\ unread'[c] = unread[c] + 1
          /\ UNCHANGED <<backlog, connected>>
        BY <1>2 DEF SendSegment, IndInv, Types, ConnectionTypes
    <2>2. \A d \in Clients :
              /\ unread[d] = sent[d] => unread'[d] = sent'[d]
              /\ sent[d] = Request[d].segments /\ unread[d] = 0 =>
                     sent'[d] = Request[d].segments /\ unread'[d] = 0
        BY <2>1
    <2>3. \A d \in Clients, n \in Nat :
              n + unread[d] = sent[d] => n + unread'[d] = sent'[d]
        BY <2>1
    <2>4. OnePlace'
        BY <1>0, <2>1 DEF ReadInv, OnePlace
    <2>5. NotReceivedYet'
        <3>1. \A d \in Clients \ connected' : sent'[d] = 0 /\ unread'[d] = 0
            BY <2>1 DEF ReadInv, NotReceivedYet
        <3>2. \A k \in 1..Len(backlog') : unread'[backlog'[k]] = sent'[backlog'[k]]
            BY <2>1, <2>2 DEF ReadInv, NotReceivedYet, Untouched
        <3>3. \A s \in Open : unread[peer[s]] = sent[peer[s]] =>
                              unread'[peer[s]] = sent'[peer[s]]
            BY <2>2
        <3> QED BY <1>0, <3>1, <3>2, <3>3 DEF ReadInv, NotReceivedYet, Untouched
    <2>6. Collected'
        <3> SUFFICES ASSUME NEW w \in Workers
                     PROVE  /\ step[w] = "idle" => data[w] = 0
                            /\ step[w] = "recv" =>
                                 data[w] + unread'[peer[task[w]]] = sent'[peer[task[w]]]
                            /\ step[w] = "send" =>
                                 /\ Request[peer[task[w]]].kind = "good"
                                 /\ sent'[peer[task[w]]] = Request[peer[task[w]]].segments
                                 /\ unread'[peer[task[w]]] = 0
            BY <1>0 DEF Collected, Whole
        <3>1. step[w] \in {"recv", "send"} => peer[task[w]] \in Clients
            BY HeldHaveClients DEF Holding
        <3>2. data[w] \in Nat
            OBVIOUS
        <3>3. /\ step[w] = "idle" => data[w] = 0
              /\ step[w] = "recv" => data[w] + unread[peer[task[w]]] = sent[peer[task[w]]]
              /\ step[w] = "send" => /\ Request[peer[task[w]]].kind = "good"
                                     /\ sent[peer[task[w]]] = Request[peer[task[w]]].segments
                                     /\ unread[peer[task[w]]] = 0
            BY DEF ReadInv, Collected, Whole
        <3> QED BY <2>2, <2>3, <3>1, <3>2, <3>3
    <2>7. \A d \in replied' : Whole(d)'
        <3>1. \A d \in replied : d \in Clients /\ Request[d].kind = "good"
                                /\ sent[d] = Request[d].segments /\ unread[d] = 0
            BY DEF ReadInv, Whole
        <3> QED BY <1>0, <2>2, <3>1 DEF Whole
    <2> QED BY <2>4, <2>5, <2>6, <2>7 DEF ReadInv
<1>3. CASE Leave(c)
    BY <1>0, <1>3 DEF Leave, ReadInv, OnePlace, NotReceivedYet, Collected, Untouched, Whole
<1> QED BY <1>1, <1>2, <1>3 DEF ClientActs, ClientStep

\* What is behind the head of the listen queue moves up by one.
LEMMA TailMovesUp ==
    ASSUME NEW S, NEW q \in Seq(S), q # <<>>
    PROVE  /\ Head(q) = q[1] /\ 1 \in 1..Len(q)
           /\ \A k \in 1..Len(Tail(q)) :
                 Tail(q)[k] = q[k + 1] /\ k + 1 \in 1..Len(q) /\ k + 1 # 1
           /\ \A j, k \in 1..Len(Tail(q)) : j + 1 = k + 1 => j = k
OBVIOUS

\* What is dropped with a socket that is closed is its own client's.
LEMMA DropKeepsRead ==
    ASSUME IndInv, ReadInv, NEW s \in Open, CloseSocket(s), UNCHANGED <<task, data>>,
           \A v \in Workers :
              \/ step'[v] = step[v] /\ (step[v] \in Holding => task[v] # s)
              \/ step[v] = "close" /\ task[v] = s /\ step'[v] = "callback"
    PROVE  ReadInv'
<1> DEFINE c == peer[s]
<1>1. /\ peer' = [peer EXCEPT ![s] = NoClient]
      /\ unread' = [d \in Clients |-> IF d = c THEN 0 ELSE unread[d]]
      /\ UNCHANGED <<backlog, sent, connected, replied>>
    BY DEF CloseSocket
<1>2. /\ Open' \subseteq Open \ {s}
      /\ \A r \in Open \ {s} : peer'[r] = peer[r]
      /\ \A r \in Sockets : peer'[r] \in {peer[r], NoClient}
    BY <1>1 DEF Open, IndInv, Types, ConnectionTypes, ConnectionsTypeOK
<1>3. /\ \A r \in Open \ {s} : peer[r] \in Clients \ {c}
      /\ \A k \in 1..Len(backlog) : backlog[k] \in Clients \ {c}
  <2>1. \A r \in Open \ {s} : peer[r] # c
      BY DEF ReadInv, OnePlace
  <2>2. \A k \in 1..Len(backlog) : backlog[k] # c
      BY DEF ReadInv, OnePlace, Open
  <2> QED BY <2>1, <2>2, PeersAreClients
<1> HIDE DEF c
<1>4. OnePlace'
  <2>1. \A k \in 1..Len(backlog) : backlog[k] # NoClient
      BY <1>3, ConnectionsAssumption
  <2>2. \A k \in 1..Len(backlog), r \in Sockets : peer'[r] # backlog[k]
      BY <1>2, <2>1 DEF ReadInv, OnePlace
  <2> QED BY <1>1, <1>2, <2>2 DEF ReadInv, OnePlace
<1>5. NotReceivedYet'
  <2>1. \A d \in Clients \ connected : sent[d] = 0 /\ unread'[d] = 0
      BY <1>1 DEF ReadInv, NotReceivedYet
  <2>2. \A k \in 1..Len(backlog) : unread'[backlog[k]] = sent[backlog[k]]
      BY <1>1, <1>3 DEF ReadInv, NotReceivedYet, Untouched
  <2>3. \A r \in Open \ {s} : \/ unread'[peer'[r]] = sent[peer'[r]]
                               \/ \E w \in Workers : step'[w] \in Holding /\ task[w] = r
      BY <1>1, <1>2, <1>3 DEF ReadInv, NotReceivedYet, Untouched, Holding
  <2> QED BY <1>1, <1>2, <2>1, <2>2, <2>3 DEF NotReceivedYet, Untouched
<1>6. Collected'
  <2>1. \A v \in Workers : step'[v] \in {"recv", "send"} =>
            /\ step[v] = step'[v]
            /\ peer'[task[v]] = peer[task[v]]
            /\ unread'[peer[task[v]]] = unread[peer[task[v]]]
      BY <1>1, <1>2, <1>3, HeldHaveClients DEF Holding
  <2> QED BY <1>1, <2>1 DEF ReadInv, Collected, Whole
<1>7. \A d \in replied' : Whole(d)'
  <2>1. \A d \in replied : d \in Clients /\ Whole(d)
      BY PeersAreClients DEF ReadInv
  <2> QED BY <1>1, <2>1 DEF Whole
<1> QED BY <1>4, <1>5, <1>6, <1>7 DEF ReadInv

\* The main thread receives nothing: a client goes from the listen queue to a
\* socket that was closed.  What the main thread closes nobody else has.
LEMMA MainKeepsRead ==
    ASSUME IndInv, ReadInv, MainStep PROVE ReadInv'
<1> USE PeersAreClients
<1>s. CASE CloseWatched
    <2>1. PICK s \in todo \cap Sockets : CloseSocket(s)
        BY <1>s DEF CloseWatched
    <2>2. s \in Watched /\ s \in Open
        BY <1>s, SelectServerAssumption
           DEF CloseWatched, Watched, IndInv, Hands, HeldIsOpen, Ours
    <2>3. \A v \in Workers : step[v] \in Holding => task[v] # s
        BY <2>2 DEF IndInv, Hands, HeldOnce
    <2>4. UNCHANGED <<task, data, step>>
        BY <1>s DEF CloseWatched, poolVars, requestVars
    <2> QED BY <2>1, <2>2, <2>3, <2>4, DropKeepsRead
<1> SUFFICES ASSUME ~ CloseWatched PROVE ReadInv'
    BY <1>s
<1>0. /\ UNCHANGED <<replied, task, step, data, sent, unread, connected>>
      /\ \A c : (Untouched(c) => Untouched(c)') /\ (Whole(c) => Whole(c)')
    BY DEF MainStep, ListenOnly, SelectReturns, SelectTimesOut, SelectFails, Submit, Keep,
           BeginAccept, AcceptOne, AcceptOn, AcceptEnds, AcceptKills, AcceptAborted, EndRound,
           SubmitTask, Queue!Put, poolVars, requestVars, connVars, Untouched, Whole
<1>r. \A c \in replied' : Whole(c)'
    BY <1>0 DEF ReadInv
<1>1. ASSUME backlog # <<>>, backlog' = Tail(backlog)
      PROVE  /\ Head(backlog) = backlog[1] /\ 1 \in 1..Len(backlog)
             /\ \A k \in 1..Len(backlog') :
                   backlog'[k] = backlog[k + 1] /\ k + 1 \in 1..Len(backlog) /\ k + 1 # 1
             /\ \A j, k \in 1..Len(backlog') : j + 1 = k + 1 => j = k
    BY <1>1, TailMovesUp DEF IndInv, Types, ConnectionTypes, ConnectionsTypeOK
<1>2. CASE AcceptOne
    <2>1. PICK s \in Sockets : AcceptOn(s)
        BY <1>2 DEF AcceptOne
    <2>2. /\ s \notin Open /\ backlog # <<>> /\ backlog' = Tail(backlog)
          /\ peer'[s] = backlog[1]
          /\ \A r \in Sockets \ {s} : peer'[r] = peer[r]
        BY <1>1, <2>1 DEF AcceptOn, IndInv, Types, ConnectionTypes, ConnectionsTypeOK
    <2>3. \A r \in Open : peer'[r] = peer[r] /\ r # s
        BY <2>2
    <2>4. Open' = Open \cup {s}
        BY <1>1, <2>2, ConnectionsAssumption DEF Open
    <2>5. OnePlace'
        <3>1. \A j, k \in 1..Len(backlog') : backlog'[j] = backlog'[k] => j = k
            BY <1>1, <2>2 DEF ReadInv, OnePlace
        <3>2. \A k \in 1..Len(backlog'), r \in Sockets : peer'[r] # backlog'[k]
            BY <1>1, <2>2 DEF ReadInv, OnePlace
        <3>3. \A r \in Open : peer[r] # backlog[1]
            BY <1>1, <2>2 DEF ReadInv, OnePlace
        <3>4. \A q, r \in Open' : peer'[q] = peer'[r] => q = r
            BY <2>2, <2>3, <2>4, <3>3 DEF ReadInv, OnePlace
        <3> QED BY <3>1, <3>2, <3>4 DEF OnePlace
    <2>f. Untouched(backlog[1])
        BY <1>1, <2>2 DEF ReadInv, NotReceivedYet
    <2>6. NotReceivedYet'
        <3>1. \A c \in Clients \ connected' : sent'[c] = 0 /\ unread'[c] = 0
            BY <1>0 DEF ReadInv, NotReceivedYet
        <3>2. \A k \in 1..Len(backlog') : Untouched(backlog[k + 1])
            BY <1>1, <2>2 DEF ReadInv, NotReceivedYet
        <3>3. \A r \in Open : \/ unread'[peer'[r]] = sent'[peer'[r]]
                              \/ \E w \in Workers : step'[w] \in Holding /\ task'[w] = r
            BY <1>0, <2>3 DEF ReadInv, NotReceivedYet, Untouched
        <3>4. unread'[peer'[s]] = sent'[peer'[s]]
            BY <1>0, <2>2, <2>f DEF Untouched
        <3> QED BY <1>0, <1>1, <2>2, <2>4, <3>1, <3>2, <3>3, <3>4 DEF NotReceivedYet, Untouched
    <2>7. Collected'
        <3>1. \A w \in Workers : step[w] \in {"recv", "send"} =>
                  peer'[task[w]] = peer[task[w]]
            BY <2>3, HeldHaveClients DEF Holding
        <3> QED BY <1>0, <3>1 DEF ReadInv, Collected, Whole
    <2> QED BY <1>r, <2>5, <2>6, <2>7 DEF ReadInv
<1>3. CASE AcceptAborted
    <2>1. /\ backlog # <<>> /\ backlog' = Tail(backlog)
          /\ UNCHANGED <<peer, Open>>
        BY <1>3 DEF AcceptAborted, Open
    <2>2. OnePlace'
        BY <1>1, <2>1 DEF ReadInv, OnePlace
    <2>3. NotReceivedYet'
        BY <1>0, <1>1, <2>1 DEF ReadInv, NotReceivedYet, Untouched
    <2>4. Collected'
        BY <1>0, <2>1 DEF ReadInv, Collected, Whole
    <2> QED BY <1>r, <2>2, <2>3, <2>4 DEF ReadInv
<1>4. CASE UNCHANGED connVars
    BY <1>0, <1>4 DEF connVars, ReadInv, OnePlace, NotReceivedYet, Collected, Untouched,
                      Whole, Open
<1> QED BY <1>2, <1>3, <1>4 DEF MainStep, ListenOnly, SelectReturns, SelectTimesOut,
                                SelectFails, Submit, Keep, BeginAccept, AcceptEnds,
                                AcceptKills, EndRound

\* A worker that starts, gives up or is past the close receives nothing.
LEMMA OthersKeepRead ==
    ASSUME IndInv, ReadInv, NEW w \in Workers,
           \/ WorkerStarts(w) /\ UNCHANGED <<requestVars, connVars>>
           \/ RecvThrows(w)
           \/ RecvWouldBlock(w)
           \/ TaskFinished(w)
    PROVE  ReadInv'
<1>1. /\ UNCHANGED connVars
      /\ \A v \in Workers \ {w} : step'[v] = step[v] /\ data'[v] = data[v] /\ task'[v] = task[v]
      /\ \/ UNCHANGED <<step, data, task>>
         \/ step[w] = "recv" /\ step'[w] = "close" /\ task' = task
         \/ step[w] = "callback" /\ step'[w] = "idle" /\ data'[w] = 0
    BY DEF WorkerStarts, RecvThrows, RecvWouldBlock, TaskFinished, Finish, TaskEnds, Queue!Release,
           Goto, requestVars, poolVars, IndInv, Types, WorkerTypes
<1>2. OnePlace'
    BY <1>1 DEF ReadInv, OnePlace, connVars, Open
<1>3. NotReceivedYet'
  <2>1. \A v \in Workers : step[v] \in Holding =>
            step'[v] \in Holding /\ task'[v] = task[v]
      BY <1>1 DEF Holding
  <2> QED BY <1>1, <2>1 DEF ReadInv, NotReceivedYet, Untouched, Open, connVars
<1>4. Collected'
    BY <1>1 DEF ReadInv, Collected, Whole, Open, connVars
<1>5. \A c \in replied' : Whole(c)'
    BY <1>1 DEF ReadInv, Whole, connVars
<1> QED BY <1>2, <1>3, <1>4, <1>5 DEF ReadInv

\* Nothing of what a client sent is received while its socket is queued, and
\* so the worker starts from nothing.
LEMMA TakeKeepsRead ==
    ASSUME IndInv, ReadInv, NEW w \in Workers, Take(w)
    PROVE  ReadInv'
<1>1. /\ step[w] = "idle" /\ step'[w] = "recv"
      /\ taskQueue # <<>> /\ task'[w] = Head(taskQueue)
      /\ \A v \in Workers \ {w} : step'[v] = step[v] /\ task'[v] = task[v]
      /\ UNCHANGED <<data, connVars>>
    BY DEF Take, GetTask, Queue!Get, Goto, IndInv, Types, WorkerTypes
<1>2. OnePlace'
    BY <1>1 DEF ReadInv, OnePlace, connVars, Open
<1>3. /\ task'[w] \in Open
      /\ \A v \in Workers : step[v] \in Holding => task[v] # task'[w]
  <2>1. task'[w] = taskQueue[1] /\ 1 \in 1..Len(taskQueue)
      BY <1>1 DEF IndInv, Types, WorkerTypes
  <2> QED BY <2>1 DEF IndInv, Hands, HeldIsOpen, HeldOnce, Ours
<1>4. NotReceivedYet'
  <2>1. \A v \in Workers : step[v] \in Holding =>
            step'[v] \in Holding /\ task'[v] = task[v]
      BY <1>1 DEF Holding
  <2> QED BY <1>1, <2>1 DEF ReadInv, NotReceivedYet, Untouched, Open, connVars
<1>5. Collected'
  <2>1. unread[peer[task'[w]]] = sent[peer[task'[w]]] /\ data[w] = 0
      BY <1>1, <1>3 DEF ReadInv, NotReceivedYet, Collected, Untouched
  <2>2. sent[peer[task'[w]]] \in Nat
      BY <1>3, PeersAreClients
  <2>3. data[w] + unread[peer[task'[w]]] = sent[peer[task'[w]]]
      BY <2>1, <2>2
  <2> QED BY <1>1, <2>3 DEF ReadInv, Collected, Whole, connVars
<1>6. \A c \in replied' : Whole(c)'
    BY <1>1 DEF ReadInv, Whole, connVars
<1> QED BY <1>2, <1>4, <1>5, <1>6 DEF ReadInv

LEMMA RecvKeepsRead ==
    ASSUME IndInv, ReadInv, NEW w \in Workers, Recv(w)
    PROVE  ReadInv'
<1> DEFINE c == peer[task[w]]
<1>1. /\ c \in Clients /\ task[w] \in Open
      /\ step[w] = "recv" /\ unread'[c] = 0
      /\ \A d \in Clients \ {c} : unread'[d] = unread[d]
      /\ data'[w] = data[w] + unread[c]
      /\ \A v \in Workers \ {w} : step'[v] = step[v] /\ data'[v] = data[v]
      /\ UNCHANGED <<backlog, peer, sent, connected, replied, task>>
      /\ step'[w] = IF ~isAllData(c, data'[w]) THEN "recv"
                    ELSE IF parseRawDataThrows(c) THEN "close" ELSE "send"
  <2>1. c \in Clients /\ task[w] \in Open
      BY PeersAreClients DEF Recv, Receive
  <2> QED BY <2>1 DEF Recv, Receive, Goto, IndInv, Types, ConnectionTypes, WorkerTypes,
                      poolVars
<1>2. Open' = Open
    BY <1>1 DEF Open
<1>3. /\ \A s \in Open : s # task[w] => peer[s] \in Clients \ {c}
      /\ \A k \in 1..Len(backlog) : backlog[k] \in Clients \ {c}
  <2>1. \A s \in Open : s # task[w] => peer[s] # c
      BY <1>1 DEF ReadInv, OnePlace
  <2>2. \A k \in 1..Len(backlog) : backlog[k] # c
      BY <1>1 DEF ReadInv, OnePlace, Open
  <2> QED BY <2>1, <2>2, PeersAreClients
<1>4. /\ data[w] \in Nat /\ sent[c] \in Nat /\ unread[c] \in Nat
      /\ replied \subseteq Clients
    BY <1>1, PeersAreClients
<1> HIDE DEF c
<1>5. OnePlace'
    BY <1>1, <1>2 DEF ReadInv, OnePlace
<1>6. NotReceivedYet'
  <2>1. \A d \in Clients \ connected : sent[d] = 0 /\ unread'[d] = 0
      BY <1>1 DEF ReadInv, NotReceivedYet
  <2>2. \A k \in 1..Len(backlog) : unread'[backlog[k]] = sent[backlog[k]]
      BY <1>1, <1>3 DEF ReadInv, NotReceivedYet, Untouched
  <2>3. \A s \in Open \ {task[w]} : unread'[peer[s]] = unread[peer[s]]
      BY <1>1, <1>3
  <2>4. step'[w] \in Holding
      BY <1>1 DEF Holding
  <2>5. \A v \in Workers : step[v] \in Holding => step'[v] \in Holding
      BY <1>1, <2>4
  <2> QED BY <1>1, <1>2, <2>1, <2>2, <2>3, <2>4, <2>5 DEF ReadInv, NotReceivedYet, Untouched
<1>7. Collected'
  <2>1. data'[w] = sent[c] /\ data'[w] + unread'[c] = sent[c]
      BY <1>1, <1>4 DEF ReadInv, Collected, c
  <2>2. step'[w] = "send" => Request[c].kind = "good" /\ sent[c] = Request[c].segments
    <3>1. Request[c].kind \in {"good", "bad", "endless"}
        BY <1>1, ConnectionsAssumption
    <3> QED BY <1>1, <2>1, <3>1 DEF isAllData, parseRawDataThrows
  <2>3. step'[w] # "idle"
      BY <1>1
  <2>4. \A v \in Workers \ {w} : step[v] \in {"recv", "send"} =>
            unread'[peer[task[v]]] = unread[peer[task[v]]]
      BY <1>1, <1>3, HeldHaveClients DEF Holding
  <2>5. ASSUME NEW v \in Workers \ {w}
        PROVE  /\ step'[v] = "idle" => data'[v] = 0
               /\ step'[v] = "recv" => data'[v] + unread'[peer[task[v]]] = sent[peer[task[v]]]
               /\ step'[v] = "send" => /\ Request[peer[task[v]]].kind = "good"
                                       /\ sent[peer[task[v]]] = Request[peer[task[v]]].segments
                                       /\ unread'[peer[task[v]]] = 0
      BY <1>1, <2>4 DEF ReadInv, Collected, Whole
  <2> QED BY <1>1, <2>1, <2>2, <2>3, <2>5 DEF Collected, Whole, c
<1>8. \A d \in replied' : Whole(d)'
  <2>1. \A d \in replied : d \in Clients /\ Whole(d)
      BY <1>4 DEF ReadInv
  <2> QED BY <1>1, <2>1 DEF Whole
<1> QED BY <1>5, <1>6, <1>7, <1>8 DEF ReadInv

LEMMA SendKeepsRead ==
    ASSUME IndInv, ReadInv, NEW w \in Workers, Send(w)
    PROVE  ReadInv'
<1>1. /\ step[w] = "send" /\ step'[w] = "close"
      /\ \A v \in Workers \ {w} : step'[v] = step[v]
      /\ replied' \subseteq replied \cup {peer[task[w]]}
      /\ UNCHANGED <<backlog, peer, sent, unread, connected, data, task>>
    BY DEF Send, SendTo, Goto, IndInv, Types, WorkerTypes, poolVars
<1>2. OnePlace'
    BY <1>1 DEF ReadInv, OnePlace, Open
<1>3. NotReceivedYet'
  <2>1. \A v \in Workers : step[v] \in Holding => step'[v] \in Holding
      BY <1>1 DEF Holding
  <2> QED BY <1>1, <2>1 DEF ReadInv, NotReceivedYet, Untouched, Open
<1>4. Collected'
    BY <1>1 DEF ReadInv, Collected, Whole, Open
<1>5. \A d \in replied' : Whole(d)'
  <2>1. \A d \in replied' : Whole(d)
      BY <1>1 DEF ReadInv, Collected
  <2> QED BY <1>1, <2>1 DEF Whole
<1> QED BY <1>2, <1>3, <1>4, <1>5 DEF ReadInv

LEMMA WorkerClosesKeepsRead ==
    ASSUME IndInv, ReadInv, NEW w \in Workers, Close(w)
    PROVE  ReadInv'
<1>1. /\ step[w] = "close" /\ step'[w] = "callback"
      /\ \A v \in Workers \ {w} : step'[v] = step[v]
      /\ CloseSocket(task[w])
      /\ UNCHANGED <<task, data>>
    BY DEF Close, Goto, IndInv, Types, WorkerTypes, poolVars
<1>2. /\ task[w] \in Open
      /\ \A v \in Workers \ {w} : step[v] \in Holding => task[v] # task[w]
    BY <1>1, HeldHaveClients DEF Holding
<1> QED BY <1>1, <1>2, DropKeepsRead

LEMMA NextKeepsRead == IndInv /\ ReadInv /\ [Next]_vars => ReadInv'
<1> SUFFICES ASSUME IndInv, ReadInv, [Next]_vars PROVE ReadInv'
    OBVIOUS
<1>1. CASE MainStep
    BY <1>1, MainKeepsRead
<1>2. ASSUME NEW w \in Workers, WorkerStep(w) PROVE ReadInv'
    BY <1>2, OthersKeepRead, TakeKeepsRead, RecvKeepsRead, SendKeepsRead,
       WorkerClosesKeepsRead DEF WorkerStep, Handle
<1>3. ASSUME NEW c \in Clients, ClientActs(c) PROVE ReadInv'
    BY <1>3, ClientKeepsRead
<1>4. CASE UNCHANGED vars
    BY <1>4 DEF vars, ReadInv, OnePlace, NotReceivedYet, Collected, Untouched, Whole, Open,
                connVars, poolVars, requestVars
<1> QED BY <1>1, <1>2, <1>3, <1>4 DEF Next

\* What a worker has collected is its own client's, and only a good request
\* that was received to its end is answered, though recv gives up on a request
\* whose rest is not there yet (HttpRequest.h, 67-105; HttpResponse.h,
\* 203-213).
THEOREM AnswersOnlyWhatWasSent == Spec => []AnswersWhatWasSent
<1>1. Init => IndInv /\ ReadInv
    BY InitInv, InitRead
<1>2. IndInv /\ ReadInv /\ [Next]_vars => (IndInv /\ ReadInv)'
    BY NextKeepsInv, NextKeepsRead
<1>3. IndInv /\ ReadInv => AnswersWhatWasSent
    BY DEF ReadInv, Collected, Whole, AnswersWhatWasSent
<1> QED BY <1>1, <1>2, <1>3, PTL DEF Spec

----------------------------------------------------------------------------
\* The server uses its task queue as FifoQueue allows: what SyncQueue implements
\* is all that the pool needs of it (ThreadPool.h, submitTask and getTask).
THEOREM PoolUsesTheQueue == Spec => Queue!Spec
<1>1. Init => Queue!Init
    BY DEF Init, PoolInit
<1>2. [Next]_vars => [Queue!Next]_<<taskQueue, task>>
  <2> SUFFICES ASSUME [Next]_vars
               PROVE  Queue!Next \/ UNCHANGED <<taskQueue, task>>
      OBVIOUS
  <2>1. CASE Submit
      BY <2>1, SelectServerAssumption DEF Submit, SubmitTask, Queue!Next
  <2>2. CASE MainStep /\ ~ Submit
      BY <2>2 DEF MainStep, ListenOnly, SelectReturns, SelectTimesOut, SelectFails, CloseWatched,
                  Keep, BeginAccept, AcceptOne, AcceptEnds, AcceptKills, EndRound, poolVars
  <2>3. ASSUME NEW w \in Workers, WorkerStep(w)
        PROVE  Queue!Get(w) \/ Queue!Release(w) \/ UNCHANGED <<taskQueue, task>>
      BY <2>3 DEF WorkerStep, WorkerStarts, Take, GetTask, Handle, Recv, RecvThrows,
                  RecvWouldBlock, Send, Close, TaskFinished, Finish, TaskEnds, poolVars
  <2>4. ASSUME NEW c \in Clients, ClientActs(c) PROVE UNCHANGED <<taskQueue, task>>
      BY <2>4 DEF ClientActs, poolVars
  <2>5. CASE UNCHANGED vars
      BY <2>5 DEF vars, poolVars
  <2> QED BY <2>1, <2>2, <2>3, <2>4, <2>5 DEF Next, Queue!Next
<1> QED BY <1>1, <1>2, PTL DEF Spec, Queue!Spec
=============================================================================
