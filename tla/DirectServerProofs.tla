------------------------ MODULE DirectServerProofs ------------------------
(***************************************************************************)
(* What TLC checks of DirectServer on three clients and two sockets,       *)
(* proved for any number of clients, sockets and threads: what v1 leaves   *)
(* open, what the counters are, and that no response is recorded twice.    *)
(*                                                                         *)
(* That a leaked connection had no response rests on who is at its other   *)
(* end: a client is in one place, so a response on one socket is never a   *)
(* response on another.  That v0 leaks nothing rests on its main thread    *)
(* having no socket while it accepts or waits.                             *)
(***************************************************************************)
EXTENDS DirectServer, FiniteSetTheorems, TLAPS

\* The types of the connections, with what closed and replied need to stay
\* subsets of connected: only who connected is in the listen queue or a peer.
ConnectionTypes ==
    /\ ConnectionsTypeOK
    /\ sent \in [Clients -> Nat]
    /\ unread \in [Clients -> Nat]
    /\ \A k \in 1..Len(backlog) : backlog[k] \in connected
    /\ \A s \in Sockets : peer[s] \in connected \cup {NoClient}

ThreadTypes ==
    /\ version \in {"v0", "v1"}
    /\ main \in {"accept", "count", "serve", "wait"}
    /\ newConnSocket \in Sockets \cup {NoSocket}
    /\ connSocket \in [Threads -> Sockets \cup {NoSocket}]
    /\ step \in [Threads -> Steps]
    /\ data \in [Threads -> Nat]
    /\ acceptErrors \in Nat

Types == ConnectionTypes /\ ThreadTypes

\* Who has a socket, and who has not.
Control ==
    /\ main \in {"accept", "wait"} => newConnSocket = NoSocket
    /\ main = "count" /\ newConnSocket = NoSocket => acceptErrors > 0
    /\ \A t \in Threads : step[t] \in {"send", "close"} => connSocket[t] # NoSocket
    /\ version = "v0" => \A t \in Threads :
          /\ step[t] \notin {"addWorker", "subWorker"}
          /\ step[t] = "recv" => connSocket[t] # NoSocket

Holds(t) == /\ connSocket[t] # NoSocket
            /\ step[t] \in {"addWorker", "recv", "send", "close"}

HeldIsOpen ==
    /\ newConnSocket # NoSocket => newConnSocket \in Open
    /\ \A t \in Threads : Holds(t) => connSocket[t] \in Open

HeldOnce ==
    /\ \A t \in Threads : Holds(t) => connSocket[t] # newConnSocket
    /\ \A t, u \in Threads :
          Holds(t) /\ Holds(u) /\ connSocket[t] = connSocket[u] => t = u

\* In v0 every open socket is held.
OpenIsHeld ==
    version = "v0" => \A s \in Open :
        s = newConnSocket \/ \E t \in Threads : Holds(t) /\ connSocket[t] = s

Hands == HeldIsOpen /\ HeldOnce /\ OpenIsHeld

\* A client waits once in the listen queue, or is at the end of one socket.
OnePlace ==
    /\ \A k, n \in 1..Len(backlog) : backlog[k] = backlog[n] => k = n
    /\ \A k \in 1..Len(backlog) : backlog[k] \notin replied
    /\ \A s \in Open : \A k \in 1..Len(backlog) : peer[s] # backlog[k]
    /\ \A r, s \in Open : peer[r] = peer[s] => r = s

\* A socket a response was sent on is about to be closed.
AnsweredCloses ==
    \A s \in Open : peer[s] \in replied =>
        \E t \in Threads : connSocket[t] = s /\ step[t] = "close"

SafeInv == Types /\ Control /\ Hands /\ OnePlace /\ AnsweredCloses

\* The recorder's copy is not ahead of the total, and what it has recorded is
\* ahead of neither when it comes to write the next line.
Recorder ==
    /\ StatTypeOK
    /\ totalRespondedRequestNumber \in Nat
    /\ lastTotalRespondedRequestNumber <= totalRespondedRequestNumber
    /\ recorded <= totalRespondedRequestNumber
    /\ recorder = "start" => recorded = 0
    /\ recorder = "write" => recorded <= lastTotalRespondedRequestNumber

Closing == {t \in Threads : step[t] \in {"responded", "sub"}}
Working == {t \in Threads : step[t] \notin {"none", "addWorker"}}

Numbers ==
    /\ currentConnectionNumber =
           Cardinality(Open) + acceptErrors + Cardinality(Closing)
           - (IF main = "count" THEN 1 ELSE 0)
    /\ currentWorkerNumber = IF version = "v0" THEN 0 ELSE Cardinality(Working)

IndInv == SafeInv /\ Recorder /\ Numbers

----------------------------------------------------------------------------
LEMMA InitSafe == Init => SafeInv /\ Recorder
<1> SUFFICES ASSUME Init PROVE SafeInv /\ Recorder
    OBVIOUS
<1> USE ConnectionsAssumption, DirectServerAssumption
    DEF Init, ConnectionsInit, CountersInit, StatInit
<1>1. Types
    BY DEF Types, ConnectionTypes, ConnectionsTypeOK, ThreadTypes, Steps
<1>2. Open = {}
    BY DEF Open
<1>3. Control
    BY DEF Control
<1>4. Hands
    BY <1>2 DEF Hands, HeldIsOpen, HeldOnce, OpenIsHeld, Holds
<1>5. OnePlace /\ AnsweredCloses
    BY <1>2 DEF OnePlace, AnsweredCloses
<1>6. Recorder
    BY DEF Recorder, StatTypeOK
<1> QED BY <1>1, <1>3, <1>4, <1>5, <1>6 DEF SafeInv

\* Every call and every act of a client keeps the types of the connections.
LEMMA ConnectionsKeepTypes ==
    ASSUME ConnectionTypes,
           \/ AcceptAborted
           \/ \E s \in Sockets : AcceptOn(s) \/ Receive(s) \/ SendTo(s) \/ CloseSocket(s)
           \/ \E c \in Clients : ClientStep(c)
           \/ UNCHANGED connVars
    PROVE  ConnectionTypes'
<1> USE ConnectionsAssumption DEF ConnectionTypes, ConnectionsTypeOK
<1>0. ASSUME backlog # <<>>, backlog' = Tail(backlog)
      PROVE  /\ Head(backlog) = backlog[1] /\ Head(backlog) \in connected
             /\ backlog' \in Seq(Clients)
             /\ \A k \in 1..Len(backlog') :
                   backlog'[k] = backlog[k + 1] /\ k + 1 \in 1..Len(backlog)
    BY <1>0
<1>1. CASE AcceptAborted
    <2>1. /\ backlog' \in Seq(Clients) /\ closed' \subseteq connected
          /\ \A k \in 1..Len(backlog') : backlog'[k] \in connected
          /\ UNCHANGED <<peer, sent, unread, connected, left, replied>>
        BY <1>0, <1>1 DEF AcceptAborted
    <2> QED BY <2>1
<1>2. ASSUME NEW s \in Sockets, AcceptOn(s) PROVE ConnectionTypes'
    <2>1. /\ backlog' \in Seq(Clients)
          /\ \A k \in 1..Len(backlog') : backlog'[k] \in connected
          /\ peer' = [peer EXCEPT ![s] = Head(backlog)]
          /\ Head(backlog) \in connected
          /\ UNCHANGED <<sent, unread, connected, left, closed, replied>>
        BY <1>0, <1>2 DEF AcceptOn
    <2> QED BY <2>1
<1>3. ASSUME NEW s \in Sockets, Receive(s) PROVE ConnectionTypes'
    BY <1>3 DEF Receive, Open
<1>4. ASSUME NEW s \in Sockets, SendTo(s) PROVE ConnectionTypes'
    BY <1>4 DEF SendTo
<1>5. ASSUME NEW s \in Sockets, CloseSocket(s) PROVE ConnectionTypes'
    BY <1>5 DEF CloseSocket
<1>6. ASSUME NEW c \in Clients, ClientStep(c) PROVE ConnectionTypes'
    <2>1. CASE Connect(c)
        BY <2>1 DEF Connect
    <2>2. CASE SendSegment(c)
        BY <2>2 DEF SendSegment
    <2>3. CASE Leave(c)
        BY <2>3 DEF Leave
    <2> QED BY <1>6, <2>1, <2>2, <2>3 DEF ClientStep
<1>7. CASE UNCHANGED connVars
    BY <1>7 DEF connVars
<1> QED BY <1>1, <1>2, <1>3, <1>4, <1>5, <1>6, <1>7

\* And it leaves every client in one place.
LEMMA ConnectionsKeepPlace ==
    ASSUME ConnectionTypes, OnePlace,
           \/ AcceptAborted
           \/ \E s \in Sockets : AcceptOn(s) \/ Receive(s) \/ SendTo(s) \/ CloseSocket(s)
           \/ \E c \in Clients : ClientStep(c)
           \/ UNCHANGED connVars
    PROVE  OnePlace'
<1> USE ConnectionsAssumption DEF ConnectionTypes, ConnectionsTypeOK
<1>0. ASSUME backlog # <<>>, backlog' = Tail(backlog)
      PROVE  /\ Len(backlog) \in Nat /\ 1 \in 1..Len(backlog)
             /\ Head(backlog) = backlog[1] /\ Len(backlog') = Len(backlog) - 1
             /\ \A k \in 1..Len(backlog') :
                   backlog'[k] = backlog[k + 1] /\ k + 1 \in 1..Len(backlog) /\ k + 1 # 1
    BY <1>0
<1>1. ASSUME backlog # <<>>, backlog' = Tail(backlog), OnePlace
      PROVE  /\ \A k, n \in 1..Len(backlog') : backlog'[k] = backlog'[n] => k = n
             /\ \A k \in 1..Len(backlog') : backlog'[k] # Head(backlog)
    <2>1. ASSUME NEW k \in 1..Len(backlog'), NEW n \in 1..Len(backlog'),
                 backlog'[k] = backlog'[n]
          PROVE  k = n
        <3>1. k + 1 = n + 1
            BY <1>0, <1>1, <2>1 DEF OnePlace
        <3> QED BY <3>1, <1>0, <1>1
    <2>2. ASSUME NEW k \in 1..Len(backlog') PROVE backlog'[k] # Head(backlog)
        BY <1>0, <1>1 DEF OnePlace
    <2> QED BY <2>1, <2>2
<1>2. CASE AcceptAborted
    BY <1>0, <1>1, <1>2 DEF AcceptAborted, OnePlace, Open
<1>3. ASSUME NEW s \in Sockets, AcceptOn(s) PROVE OnePlace'
    <2>1. /\ backlog # <<>> /\ backlog' = Tail(backlog) /\ s \notin Open
          /\ peer' = [peer EXCEPT ![s] = Head(backlog)] /\ UNCHANGED replied
        BY <1>3 DEF AcceptOn
    <2>2. Head(backlog) \in Clients
        BY <2>1
    <2>3. Open' = Open \cup {s}
        BY <2>1, <2>2 DEF Open
    <2>4. /\ peer'[s] = Head(backlog)
          /\ \A r \in Open : r # s /\ peer'[r] = peer[r] /\ peer[r] # Head(backlog)
        BY <1>0, <2>1 DEF OnePlace, Open
    <2>5. \A k \in 1..Len(backlog') :
              /\ backlog'[k] \notin replied /\ backlog'[k] # Head(backlog)
              /\ \A r \in Open : peer[r] # backlog'[k]
        <3> SUFFICES ASSUME NEW k \in 1..Len(backlog')
                     PROVE  /\ backlog'[k] \notin replied /\ backlog'[k] # Head(backlog)
                            /\ \A r \in Open : peer[r] # backlog'[k]
            OBVIOUS
        <3>1. k + 1 \in 1..Len(backlog) /\ backlog'[k] = backlog[k + 1]
            BY <1>0, <2>1
        <3>2. backlog'[k] # Head(backlog)
            BY <1>1, <2>1
        <3> QED BY <3>1, <3>2 DEF OnePlace
    <2>6. \A q \in Open' : \A k \in 1..Len(backlog') : peer'[q] # backlog'[k]
        BY <2>3, <2>4, <2>5
    <2>7. \A q, r \in Open' : peer'[q] = peer'[r] => q = r
        BY <2>3, <2>4 DEF OnePlace
    <2> QED BY <1>1, <2>1, <2>5, <2>6, <2>7 DEF OnePlace
<1>4. ASSUME NEW s \in Sockets, Receive(s) \/ SendTo(s) \/ CloseSocket(s) PROVE OnePlace'
    BY <1>4 DEF Receive, SendTo, CloseSocket, OnePlace, Open
<1>5. ASSUME NEW c \in Clients, ClientStep(c) PROVE OnePlace'
    <2>1. CASE Connect(c)
        <3>1. /\ c \notin connected /\ backlog' = Append(backlog, c)
              /\ UNCHANGED <<peer, replied>>
            BY <2>1 DEF Connect
        <3>2. /\ Len(backlog) \in Nat /\ Len(backlog') = Len(backlog) + 1
              /\ backlog'[Len(backlog) + 1] = c
              /\ \A k \in 1..Len(backlog) : backlog'[k] = backlog[k] /\ backlog[k] # c
            BY <3>1
        <3>3. \A k \in 1..Len(backlog') : k \in 1..Len(backlog) \/ k = Len(backlog) + 1
            BY <3>2, SMTT(20)
        <3>4. c \notin replied /\ \A s \in Open : peer[s] # c
            BY <3>1 DEF Open
        <3>5. Open' = Open
            BY <3>1 DEF Open
        <3>6. ASSUME NEW k \in 1..Len(backlog'), NEW n \in 1..Len(backlog'),
                     backlog'[k] = backlog'[n]
              PROVE  k = n
            <4>1. k \in 1..Len(backlog) \/ k = Len(backlog) + 1
                BY <3>3
            <4>2. n \in 1..Len(backlog) \/ n = Len(backlog) + 1
                BY <3>3
            <4> QED BY <3>2, <3>6, <4>1, <4>2 DEF OnePlace
        <3>7. ASSUME NEW k \in 1..Len(backlog')
              PROVE  backlog'[k] \notin replied /\ \A s \in Open : peer[s] # backlog'[k]
            <4>1. k \in 1..Len(backlog) \/ k = Len(backlog) + 1
                BY <3>3
            <4> QED BY <3>2, <3>4, <4>1 DEF OnePlace
        <3> QED BY <3>1, <3>5, <3>6, <3>7 DEF OnePlace
    <2>2. CASE SendSegment(c) \/ Leave(c)
        BY <2>2 DEF SendSegment, Leave, OnePlace, Open
    <2> QED BY <1>5, <2>1, <2>2 DEF ClientStep
<1>6. CASE UNCHANGED connVars
    BY <1>6 DEF connVars, OnePlace, Open
<1> QED BY <1>2, <1>3, <1>4, <1>5, <1>6

----------------------------------------------------------------------------
\* Nobody gets a socket or gives one up.
LEMMA HandsStay ==
    ASSUME Hands, Open' = Open, UNCHANGED <<version, newConnSocket>>,
           \A t \in Threads : /\ Holds(t)' <=> Holds(t)
                              /\ Holds(t) => connSocket'[t] = connSocket[t]
    PROVE  Hands'
<1>1. HeldIsOpen'
    BY DEF Hands, HeldIsOpen
<1>2. HeldOnce'
    BY DEF Hands, HeldOnce
<1>3. OpenIsHeld'
    BY DEF Hands, OpenIsHeld
<1> QED BY <1>1, <1>2, <1>3 DEF Hands

\* The threads as they were, and with them who is about to be closed.
LEMMA AnsweredStays ==
    ASSUME AnsweredCloses, Open' = Open, UNCHANGED <<peer, replied, connSocket>>,
           \A t \in Threads : step[t] = "close" => step'[t] = "close"
    PROVE  AnsweredCloses'
BY DEF AnsweredCloses

----------------------------------------------------------------------------
\* The main thread

LEMMA AcceptKeepsSafe ==
    ASSUME SafeInv, Accept, UNCHANGED threadVars PROVE SafeInv'
<1> USE ConnectionsAssumption, DirectServerAssumption DEF SafeInv, Types
<1>1. PICK s \in Sockets : AcceptOn(s) /\ newConnSocket' = s
    BY DEF Accept
<1>2. /\ main = "accept" /\ main' = "count"
      /\ UNCHANGED <<version, acceptErrors, connSocket, step, data>>
    BY DEF Accept, threadVars
<1>3. ConnectionTypes' /\ OnePlace'
    BY <1>1, ConnectionsKeepTypes, ConnectionsKeepPlace
<1>4. /\ s \notin Open /\ backlog # <<>> /\ Head(backlog) = backlog[1]
      /\ 1 \in 1..Len(backlog)
      /\ peer' = [peer EXCEPT ![s] = Head(backlog)] /\ UNCHANGED replied
    BY <1>1 DEF AcceptOn, ConnectionTypes, ConnectionsTypeOK
<1>5. Open' = Open \cup {s}
    BY <1>4 DEF Open, ConnectionTypes, ConnectionsTypeOK
<1>6. newConnSocket = NoSocket
    BY <1>2 DEF Control
<1>7. ThreadTypes'
    BY <1>1, <1>2 DEF ThreadTypes
<1>8. Control'
    BY <1>1, <1>2 DEF Control
<1>9. HeldIsOpen'
    BY <1>1, <1>2, <1>5 DEF Hands, HeldIsOpen, Holds
<1>10. HeldOnce'
    BY <1>1, <1>2, <1>4 DEF Hands, HeldIsOpen, HeldOnce, Holds
<1>11. OpenIsHeld'
    BY <1>1, <1>2, <1>5, <1>6 DEF Hands, OpenIsHeld, Holds, Open
<1>12. AnsweredCloses'
    <2>1. peer'[s] \notin replied /\ \A r \in Open : r # s /\ peer'[r] = peer[r]
        BY <1>4 DEF OnePlace, Open, ConnectionTypes, ConnectionsTypeOK
    <2> QED BY <1>2, <1>4, <1>5, <2>1 DEF AnsweredCloses
<1> QED BY <1>3, <1>7, <1>8, <1>9, <1>10, <1>11, <1>12 DEF Hands

LEMMA AcceptFailsKeepsSafe ==
    ASSUME SafeInv, AcceptFails, UNCHANGED threadVars PROVE SafeInv'
<1> USE DEF SafeInv, Types
<1>1. AcceptAborted \/ UNCHANGED connVars
    BY DEF AcceptFails
<1>2. /\ main = "accept" /\ main' = "count" /\ newConnSocket' = NoSocket
      /\ acceptErrors' = acceptErrors + 1
      /\ UNCHANGED <<version, connSocket, step, data>>
    BY DEF AcceptFails, threadVars
<1>3. ConnectionTypes' /\ OnePlace'
    BY <1>1, ConnectionsKeepTypes, ConnectionsKeepPlace
<1>4. Open' = Open /\ UNCHANGED <<peer, replied>>
    BY <1>1 DEF Open, AcceptAborted, connVars
<1>5. newConnSocket = NoSocket
    BY <1>2 DEF Control
<1>6. ThreadTypes'
    BY <1>2 DEF ThreadTypes
<1>7. Control'
    BY <1>2 DEF Control, ThreadTypes
<1>8. Hands'
    BY <1>2, <1>4, <1>5, HandsStay DEF Holds
<1>9. AnsweredCloses'
    BY <1>2, <1>4, AnsweredStays
<1> QED BY <1>3, <1>6, <1>7, <1>8, <1>9

LEMMA CountKeepsSafe ==
    ASSUME SafeInv, Count, UNCHANGED <<connVars, threadVars>> PROVE SafeInv'
<1> USE DEF SafeInv, Types, Count, connVars, threadVars
<1>1. ConnectionTypes' /\ OnePlace'
    BY ConnectionsKeepTypes, ConnectionsKeepPlace
<1>2. ThreadTypes' /\ Control'
    BY DEF ThreadTypes, Control
<1>3. Open' = Open
    BY DEF Open
<1>4. Hands'
    BY <1>3, HandsStay DEF Holds
<1>5. AnsweredCloses'
    BY <1>3, AnsweredStays
<1> QED BY <1>1, <1>2, <1>4, <1>5

\* The main thread gives its socket to a thread that has none.
LEMMA BeginKeepsSafe ==
    ASSUME SafeInv, NEW first \in {"addWorker", "recv"}, Begin(first),
           first = "addWorker" <=> version = "v1",
           version = "v0" => newConnSocket # NoSocket,
           main = "serve", main' \in {"accept", "wait"}, newConnSocket' = NoSocket,
           UNCHANGED <<connVars, version, acceptErrors, data>>
    PROVE  SafeInv'
<1> USE ConnectionsAssumption DEF SafeInv, Types
<1>1. PICK t \in Threads : /\ step[t] = "none"
                           /\ connSocket' = [connSocket EXCEPT ![t] = newConnSocket]
                           /\ step' = [step EXCEPT ![t] = first]
    BY DEF Begin
<1>2. /\ connSocket'[t] = newConnSocket /\ step'[t] = first /\ ~Holds(t)
      /\ \A u \in Threads \ {t} : connSocket'[u] = connSocket[u] /\ step'[u] = step[u]
    BY <1>1 DEF ThreadTypes, Holds
<1>3. ConnectionTypes' /\ OnePlace' /\ Open' = Open /\ UNCHANGED <<peer, replied>>
    BY ConnectionsKeepTypes, ConnectionsKeepPlace DEF connVars, Open
<1>4. ThreadTypes'
    BY <1>1 DEF ThreadTypes, Steps
<1>5. Control'
    BY <1>1, <1>2 DEF Control, ThreadTypes
<1>6. /\ Holds(t)' <=> newConnSocket # NoSocket
      /\ \A u \in Threads \ {t} : Holds(u)' <=> Holds(u)
    BY <1>2 DEF Holds
<1>7. HeldIsOpen'
    BY <1>2, <1>3, <1>6 DEF Hands, HeldIsOpen
<1>8. HeldOnce'
    <2>1. \A u \in Threads : Holds(u)' => connSocket'[u] # NoSocket
        BY DEF Holds
    <2> QED BY <1>2, <1>6, <2>1 DEF Hands, HeldOnce
<1>9. OpenIsHeld'
    BY <1>2, <1>3, <1>6 DEF Hands, OpenIsHeld, Open
<1>10. AnsweredCloses'
    BY <1>1, <1>2, <1>3 DEF AnsweredCloses
<1> QED BY <1>3, <1>4, <1>5, <1>7, <1>8, <1>9, <1>10 DEF Hands

LEMMA MainKeepsSafe ==
    ASSUME SafeInv, MainStep PROVE SafeInv'
<1>1. CASE Accept /\ UNCHANGED threadVars
    BY <1>1, AcceptKeepsSafe
<1>2. CASE AcceptFails /\ UNCHANGED threadVars
    BY <1>2, AcceptFailsKeepsSafe
<1>3. CASE Count /\ UNCHANGED <<connVars, threadVars>>
    BY <1>3, CountKeepsSafe
<1>4. CASE StartThread /\ UNCHANGED connVars
    BY <1>4, BeginKeepsSafe DEF StartThread
<1>5. CASE HandleHere /\ UNCHANGED connVars /\ newConnSocket # NoSocket
    BY <1>5, BeginKeepsSafe DEF HandleHere
<1>6. CASE HandleHere /\ UNCHANGED connVars /\ newConnSocket = NoSocket
    <2> USE DEF SafeInv, Types
    <2>1. /\ main' = "accept" /\ newConnSocket' = NoSocket
          /\ UNCHANGED <<connVars, version, acceptErrors, connSocket, step, data>>
        BY <1>6 DEF HandleHere, threadVars
    <2>2. ConnectionTypes' /\ OnePlace' /\ Open' = Open /\ UNCHANGED <<peer, replied>>
        BY <2>1, ConnectionsKeepTypes, ConnectionsKeepPlace DEF connVars, Open
    <2>3. ThreadTypes' /\ Control'
        BY <2>1 DEF ThreadTypes, Control
    <2>4. Hands'
        BY <1>6, <2>1, <2>2, HandsStay DEF Holds
    <2>5. AnsweredCloses'
        BY <2>1, <2>2, AnsweredStays
    <2> QED BY <2>2, <2>3, <2>4, <2>5
<1> QED BY <1>1, <1>2, <1>3, <1>4, <1>5, <1>6 DEF MainStep

----------------------------------------------------------------------------
\* The threads that handle a connection

\* Thread t goes on to a step, and may let go of its socket, as all of v1 do
\* after an exception; in v0 a thread that holds one keeps it.
LEMMA MoveKeepsSafe ==
    ASSUME SafeInv, NEW t \in Threads,
           ConnectionTypes', OnePlace', ThreadTypes',
           UNCHANGED <<peer, replied, version, newConnSocket, acceptErrors>>,
           main' = main \/ (main = "wait" /\ main' = "accept"),
           \A u \in Threads \ {t} : connSocket'[u] = connSocket[u] /\ step'[u] = step[u],
           Holds(t)' => Holds(t) /\ connSocket'[t] = connSocket[t],
           version = "v0" /\ Holds(t) => Holds(t)',
           step[t] # "close",
           step'[t] \in {"send", "close"} => connSocket'[t] # NoSocket,
           version = "v0" =>
              /\ step'[t] \notin {"addWorker", "subWorker"}
              /\ step'[t] = "recv" => connSocket'[t] # NoSocket
    PROVE  SafeInv'
<1> USE DEF SafeInv, Types
<1>1. Open' = Open
    BY DEF Open
<1>2. \A u \in Threads \ {t} : Holds(u)' <=> Holds(u)
    BY DEF Holds
<1>3. Control'
    BY DEF Control
<1>4. HeldIsOpen'
    BY <1>1, <1>2 DEF Hands, HeldIsOpen
<1>5. HeldOnce'
    BY <1>2 DEF Hands, HeldOnce
<1>6. OpenIsHeld'
    BY <1>1, <1>2 DEF Hands, OpenIsHeld
<1>7. AnsweredCloses'
    BY <1>1 DEF AnsweredCloses
<1> QED BY <1>3, <1>4, <1>5, <1>6, <1>7 DEF Hands

\* A response goes out on a socket that no other thread has.
LEMMA SendKeepsSafe ==
    ASSUME SafeInv, NEW t \in Threads, Send(t), ThreadStep(t) PROVE SafeInv'
<1> USE ConnectionsAssumption DEF SafeInv, Types
<1> DEFINE s == connSocket[t]
<1>1. /\ step[t] = "send" /\ SendTo(s) /\ step' = [step EXCEPT ![t] = "close"]
      /\ UNCHANGED <<connSocket, data, version, newConnSocket, acceptErrors>>
    BY DEF Send, Goto, ThreadStep
<1>2. main' = main
    BY <1>1 DEF ThreadStep, ThreadTypes
<1>3. s \in Sockets /\ Holds(t) /\ s \in Open
    BY <1>1 DEF Control, ThreadTypes, Holds, Hands, HeldIsOpen
<1>4. ConnectionTypes' /\ OnePlace'
    BY <1>1, <1>3, ConnectionsKeepTypes, ConnectionsKeepPlace
<1>5. /\ Open' = Open /\ UNCHANGED peer
      /\ replied' \subseteq replied \cup {peer[s]}
    BY <1>1 DEF SendTo, Open
<1>6. ThreadTypes' /\ Control'
    BY <1>1, <1>2, <1>3 DEF ThreadTypes, Steps, Control
<1>7. Hands'
    BY <1>1, <1>5, HandsStay DEF Holds, ThreadTypes
<1>8. AnsweredCloses'
    <2> SUFFICES ASSUME NEW r \in Open, peer[r] \in replied'
                 PROVE  \E u \in Threads : connSocket[u] = r /\ step'[u] = "close"
        BY <1>1, <1>5 DEF AnsweredCloses
    <2>1. CASE peer[r] \in replied
        BY <1>1, <2>1 DEF AnsweredCloses, ThreadTypes
    <2>2. CASE peer[r] = peer[s]
        BY <1>1, <1>3, <2>2 DEF OnePlace, ThreadTypes
    <2> QED BY <1>5, <2>1, <2>2
<1> QED BY <1>4, <1>6, <1>7, <1>8

LEMMA CloseKeepsSafe ==
    ASSUME SafeInv, NEW t \in Threads, Close(t), ThreadStep(t)
    PROVE  SafeInv' /\ connSocket[t] \in Open /\ Open' = Open \ {connSocket[t]}
<1> USE ConnectionsAssumption DEF SafeInv, Types
<1> DEFINE s == connSocket[t]
<1>1. /\ step[t] = "close" /\ CloseSocket(s) /\ step' = [step EXCEPT ![t] = "responded"]
      /\ UNCHANGED <<connSocket, data, version, newConnSocket, acceptErrors>>
    BY DEF Close, Goto, ThreadStep
<1>2. main' = main
    BY <1>1 DEF ThreadStep, ThreadTypes
<1>3. s \in Sockets /\ Holds(t) /\ s \in Open
    BY <1>1 DEF Control, ThreadTypes, Holds, Hands, HeldIsOpen
<1>4. ConnectionTypes' /\ OnePlace'
    BY <1>1, <1>3, ConnectionsKeepTypes, ConnectionsKeepPlace
<1>5. /\ Open' = Open \ {s} /\ UNCHANGED replied
      /\ \A r \in Open' : peer'[r] = peer[r]
    BY <1>1, <1>3 DEF CloseSocket, Open, ConnectionTypes, ConnectionsTypeOK
<1>6. /\ ThreadTypes' /\ Control'
    BY <1>1, <1>2 DEF ThreadTypes, Steps, Control
<1>7. \A u \in Threads : Holds(u)' <=> Holds(u) /\ u # t
    BY <1>1 DEF Holds, ThreadTypes
<1>8. HeldIsOpen'
    BY <1>1, <1>3, <1>5, <1>7 DEF Hands, HeldIsOpen, HeldOnce
<1>9. HeldOnce'
    BY <1>1, <1>7 DEF Hands, HeldOnce
<1>10. OpenIsHeld'
    BY <1>1, <1>5, <1>7 DEF Hands, OpenIsHeld
<1>11. AnsweredCloses'
    BY <1>1, <1>5 DEF AnsweredCloses, ThreadTypes
<1> QED BY <1>3, <1>4, <1>5, <1>6, <1>8, <1>9, <1>10, <1>11 DEF Hands

LEMMA ThreadKeepsSafe ==
    ASSUME SafeInv, NEW t \in Threads, ThreadStep(t) PROVE SafeInv'
<1> USE ConnectionsAssumption DEF SafeInv, Types
<1>1. /\ UNCHANGED <<version, newConnSocket, acceptErrors>>
      /\ main' = main \/ (main = "wait" /\ main' = "accept")
    BY DEF ThreadStep
<1>2. CASE AddWorkerNumber(t)
    <2>1. /\ step[t] = "addWorker" /\ step' = [step EXCEPT ![t] = "recv"]
          /\ UNCHANGED <<connVars, connSocket, data>>
        BY <1>2 DEF AddWorkerNumber, Goto
    <2>2. ConnectionTypes' /\ OnePlace'
        BY <2>1, ConnectionsKeepTypes, ConnectionsKeepPlace
    <2>3. ThreadTypes'
        BY <1>1, <2>1 DEF ThreadTypes, Steps
    <2> QED BY <1>1, <2>1, <2>2, <2>3, MoveKeepsSafe DEF connVars, ThreadTypes, Control, Holds
<1>3. CASE Recv(t)
    <2>1. PICK next \in {"recv", "send", Caught} :
              /\ step[t] = "recv" /\ Receive(connSocket[t])
              /\ data' = [data EXCEPT ![t] = @ + unread[peer[connSocket[t]]]]
              /\ step' = [step EXCEPT ![t] = next]
              /\ UNCHANGED connSocket
        BY <1>3 DEF Recv, Goto
    <2>2. /\ connSocket[t] \in Sockets /\ connSocket[t] # NoSocket
          /\ peer[connSocket[t]] \in Clients /\ UNCHANGED <<peer, replied>>
        BY <2>1 DEF Receive, Open, ConnectionTypes, ConnectionsTypeOK
    <2>3. ConnectionTypes' /\ OnePlace'
        BY <2>1, <2>2, ConnectionsKeepTypes, ConnectionsKeepPlace
    <2>4. ThreadTypes'
        BY <1>1, <2>1, <2>2 DEF ThreadTypes, Steps, Caught, ConnectionTypes
    <2> QED BY <1>1, <2>1, <2>2, <2>3, <2>4, MoveKeepsSafe DEF ThreadTypes, Holds, Caught
<1>4. CASE RecvThrows(t)
    <2>1. /\ step[t] = "recv" /\ step' = [step EXCEPT ![t] = Caught]
          /\ UNCHANGED <<connVars, connSocket, data>>
        BY <1>4 DEF RecvThrows, Goto
    <2>2. ConnectionTypes' /\ OnePlace'
        BY <2>1, ConnectionsKeepTypes, ConnectionsKeepPlace
    <2>3. ThreadTypes'
        BY <1>1, <2>1 DEF ThreadTypes, Steps, Caught
    <2>4. version = "v0" => connSocket[t] # NoSocket
        BY <2>1 DEF Control
    <2> QED BY <1>1, <2>1, <2>2, <2>3, <2>4, MoveKeepsSafe DEF connVars, ThreadTypes, Holds, Caught
<1>5. CASE Send(t)
    BY <1>5, SendKeepsSafe
<1>6. CASE Close(t)
    BY <1>6, CloseKeepsSafe
<1>7. CASE CountResponded(t)
    <2>1. /\ step[t] = "responded" /\ step' = [step EXCEPT ![t] = "sub"]
          /\ UNCHANGED <<connVars, connSocket, data>>
        BY <1>7 DEF CountResponded, Goto
    <2>2. ConnectionTypes' /\ OnePlace'
        BY <2>1, ConnectionsKeepTypes, ConnectionsKeepPlace
    <2>3. ThreadTypes'
        BY <1>1, <2>1 DEF ThreadTypes, Steps
    <2> QED BY <1>1, <2>1, <2>2, <2>3, MoveKeepsSafe DEF connVars, ThreadTypes, Holds
<1>8. CASE SubCurrent(t) \/ SubWorkerNumber(t)
    <2>1. PICK next \in {"none", "subWorker"} :
              /\ step[t] \in {"sub", "subWorker"} /\ step' = [step EXCEPT ![t] = next]
              /\ next = "subWorker" => version # "v0"
              /\ UNCHANGED connVars
        BY <1>8 DEF SubCurrent, SubWorkerNumber, Goto
    <2>2. /\ connSocket' \in {connSocket, [connSocket EXCEPT ![t] = NoSocket]}
          /\ data' \in {data, [data EXCEPT ![t] = 0]}
        BY <1>8 DEF SubCurrent, SubWorkerNumber, End
    <2>3. ConnectionTypes' /\ OnePlace'
        BY <2>1, ConnectionsKeepTypes, ConnectionsKeepPlace
    <2>4. ThreadTypes'
        BY <1>1, <2>1, <2>2 DEF ThreadTypes, Steps
    <2>5. \A u \in Threads \ {t} : connSocket'[u] = connSocket[u] /\ step'[u] = step[u]
        BY <2>1, <2>2 DEF ThreadTypes
    <2> QED BY <1>1, <2>1, <2>3, <2>4, <2>5, MoveKeepsSafe DEF connVars, ThreadTypes, Holds
<1> QED BY <1>2, <1>3, <1>4, <1>5, <1>6, <1>7, <1>8 DEF ThreadStep

----------------------------------------------------------------------------
\* The clients, and a step of nobody.
LEMMA ClientKeepsSafe ==
    ASSUME SafeInv, UNCHANGED <<threadVars, mainVars>>,
           UNCHANGED connVars \/ \E c \in Clients : ClientStep(c)
    PROVE  SafeInv'
<1> USE DEF SafeInv, Types, threadVars, mainVars
<1>1. ConnectionTypes' /\ OnePlace'
    BY ConnectionsKeepTypes, ConnectionsKeepPlace
<1>2. Open' = Open /\ UNCHANGED <<peer, replied>>
    BY DEF Open, connVars, ClientStep, Connect, SendSegment, Leave
<1>3. ThreadTypes' /\ Control'
    BY DEF ThreadTypes, Control
<1>4. Hands'
    BY <1>2, HandsStay DEF Holds
<1>5. AnsweredCloses'
    BY <1>2, AnsweredStays
<1> QED BY <1>1, <1>3, <1>4, <1>5

LEMMA NextKeepsSafe == SafeInv /\ [Next]_vars => SafeInv'
<1> SUFFICES ASSUME SafeInv, [Next]_vars PROVE SafeInv'
    OBVIOUS
<1>1. CASE MainStep
    BY <1>1, MainKeepsSafe
<1>2. CASE \E t \in Threads : ThreadStep(t)
    BY <1>2, ThreadKeepsSafe
<1>3. CASE RecorderStep /\ UNCHANGED <<connVars, counters, threadVars, mainVars>>
    BY <1>3, ClientKeepsSafe
<1>4. CASE /\ \E c \in Clients : ClientStep(c)
           /\ UNCHANGED <<counters, statVars, threadVars, mainVars>>
    BY <1>4, ClientKeepsSafe
<1>5. CASE UNCHANGED vars
    BY <1>5, ClientKeepsSafe DEF vars
<1> QED BY <1>1, <1>2, <1>3, <1>4, <1>5 DEF Next

----------------------------------------------------------------------------
\* The recorder

\* The total only grows, by one at a time, and each of its two reads by the
\* recorder is of a total that was there.
LEMMA NextKeepsRecorder == Recorder /\ [Next]_vars => Recorder'
<1> SUFFICES ASSUME Recorder, [Next]_vars PROVE Recorder'
    OBVIOUS
<1>1. ASSUME totalRespondedRequestNumber' \in
                 {totalRespondedRequestNumber, totalRespondedRequestNumber + 1},
             UNCHANGED statVars
      PROVE  Recorder'
    BY <1>1 DEF Recorder, StatTypeOK, statVars
<1>2. CASE MainStep
    <2>1. UNCHANGED <<statVars, totalRespondedRequestNumber>>
        BY <1>2 DEF MainStep, Count, counters
    <2> QED BY <1>1, <2>1
<1>3. CASE \E t \in Threads : ThreadStep(t)
    <2>1. PICK t \in Threads : ThreadStep(t)
        BY <1>3
    <2>2. UNCHANGED statVars
        BY <2>1 DEF ThreadStep
    <2>3. CASE AddWorkerNumber(t) \/ Recv(t) \/ RecvThrows(t) \/ Send(t) \/ Close(t)
               \/ SubWorkerNumber(t)
        <3>1. UNCHANGED totalRespondedRequestNumber
            BY <2>3 DEF AddWorkerNumber, Recv, RecvThrows, Send, Close,
                        SubWorkerNumber, counters
        <3> QED BY <1>1, <2>2, <3>1
    <2>4. CASE CountResponded(t) \/ SubCurrent(t)
        BY <1>1, <2>2, <2>4 DEF CountResponded, SubCurrent,
           addTotalRespondedRequestNumber, subCurrentConnectionNumber
    <2> QED BY <2>1, <2>3, <2>4 DEF ThreadStep
<1>4. CASE RecorderStep /\ UNCHANGED counters
    <2> USE DEF Recorder, StatTypeOK, counters
    <2>1. CASE OpenFile
        BY <1>4, <2>1 DEF OpenFile
    <2>2. CASE WriteLine
        BY <1>4, <2>2 DEF WriteLine
    <2>3. CASE SaveLast
        BY <1>4, <2>3 DEF SaveLast
    <2> QED BY <1>4, <2>1, <2>2, <2>3 DEF RecorderStep
<1>5. CASE UNCHANGED <<counters, statVars>>
    BY <1>1, <1>5 DEF counters
<1> QED BY <1>2, <1>3, <1>4, <1>5 DEF Next, vars

----------------------------------------------------------------------------
\* The numbers

\* How the threads at the steps of a set change in number when one goes on.
LEMMA CountMoves ==
    ASSUME ThreadTypes, NEW S, NEW t \in Threads, NEW next,
           step' = [step EXCEPT ![t] = next],
           NEW n, n = Cardinality({u \in Threads : step[u] \in S}),
           NEW m, m = Cardinality({u \in Threads : step'[u] \in S})
    PROVE  /\ n \in Nat
           /\ (next \in S <=> step[t] \in S) => m = n
           /\ next \in S /\ step[t] \notin S => m = n + 1
           /\ next \notin S /\ step[t] \in S => m = n - 1
<1> DEFINE At == {u \in Threads : step[u] \in S}
           Then == {u \in Threads : step'[u] \in S}
           Others == {u \in Threads \ {t} : step[u] \in S}
<1>1. n \in Nat
    BY FS_Subset, FS_CardinalityType, DirectServerAssumption
<1>2. IsFiniteSet(Others) /\ Cardinality(Others) \in Nat /\ t \notin Others
    BY FS_Subset, FS_CardinalityType, DirectServerAssumption
<1>3. /\ step[t] \in S => At = Others \cup {t}
      /\ step[t] \notin S => At = Others
      /\ next \in S => Then = Others \cup {t}
      /\ next \notin S => Then = Others
    BY DEF ThreadTypes
<1>4. Cardinality(Others \cup {t}) = Cardinality(Others) + 1
    BY <1>2, FS_AddElement
<1>5. n = Cardinality(At) /\ m = Cardinality(Then)
    OBVIOUS
<1> HIDE DEF At, Then, Others
<1> QED BY <1>1, <1>2, <1>3, <1>4, <1>5

\* The threads that are closing, and those at work.
LEMMA StepCounts ==
    ASSUME ThreadTypes, NEW t \in Threads, NEW next \in Steps,
           step' = [step EXCEPT ![t] = next]
    PROVE  LET C == {"responded", "sub"}
               N == {"none", "addWorker"}
           IN  /\ (next \in C <=> step[t] \in C) =>
                      Cardinality(Closing') = Cardinality(Closing)
               /\ next \in C /\ step[t] \notin C =>
                      Cardinality(Closing') = Cardinality(Closing) + 1
               /\ next \notin C /\ step[t] \in C =>
                      Cardinality(Closing') = Cardinality(Closing) - 1
               /\ (next \in N <=> step[t] \in N) =>
                      Cardinality(Working') = Cardinality(Working)
               /\ next \notin N /\ step[t] \in N =>
                      Cardinality(Working') = Cardinality(Working) + 1
               /\ next \in N /\ step[t] \notin N =>
                      Cardinality(Working') = Cardinality(Working) - 1
<1> DEFINE C == {"responded", "sub"}
           W == Steps \ {"none", "addWorker"}
<1>1. /\ Closing = {u \in Threads : step[u] \in C}
      /\ Closing' = {u \in Threads : step'[u] \in C}
      /\ Working = {u \in Threads : step[u] \in W}
      /\ Working' = {u \in Threads : step'[u] \in W}
    BY DEF Closing, Working, ThreadTypes
<1>2. /\ next \in W <=> next \notin {"none", "addWorker"}
      /\ step[t] \in W <=> step[t] \notin {"none", "addWorker"}
    BY DEF ThreadTypes
<1> HIDE DEF C, W
<1>3. /\ (next \in C <=> step[t] \in C) => Cardinality(Closing') = Cardinality(Closing)
      /\ next \in C /\ step[t] \notin C => Cardinality(Closing') = Cardinality(Closing) + 1
      /\ next \notin C /\ step[t] \in C => Cardinality(Closing') = Cardinality(Closing) - 1
    BY <1>1, CountMoves
<1>4. /\ (next \in W <=> step[t] \in W) => Cardinality(Working') = Cardinality(Working)
      /\ next \in W /\ step[t] \notin W => Cardinality(Working') = Cardinality(Working) + 1
      /\ next \notin W /\ step[t] \in W => Cardinality(Working') = Cardinality(Working) - 1
    BY <1>1, CountMoves
<1> QED BY <1>2, <1>3, <1>4 DEF C

LEMMA OpenIsFinite == IsFiniteSet(Open) /\ Cardinality(Open) \in Nat
BY FS_Subset, FS_CardinalityType, ConnectionsAssumption DEF Open

LEMMA ThreadsAreFinite ==
    /\ IsFiniteSet(Working) /\ Cardinality(Working) \in 0..Cardinality(Threads)
    /\ IsFiniteSet(Closing) /\ Cardinality(Closing) \in Nat
<1>1. Working \subseteq Threads /\ Closing \subseteq Threads
    BY DEF Working, Closing
<1>2. /\ IsFiniteSet(Working) /\ Cardinality(Working) <= Cardinality(Threads)
      /\ IsFiniteSet(Closing)
    BY <1>1, FS_Subset, DirectServerAssumption
<1>3. /\ Cardinality(Working) \in Nat /\ Cardinality(Closing) \in Nat
      /\ Cardinality(Threads) \in Nat
    BY <1>2, FS_CardinalityType, DirectServerAssumption
<1> QED BY <1>2, <1>3

LEMMA MainKeepsNumbers ==
    ASSUME SafeInv, Numbers, MainStep PROVE Numbers'
<1> USE DEF Numbers, SafeInv, Types
<1>1. /\ Cardinality(Open) \in Nat /\ Cardinality(Closing) \in Nat
      /\ Cardinality(Working) \in Nat /\ acceptErrors \in Nat
    BY OpenIsFinite, ThreadsAreFinite DEF ThreadTypes
<1>2. CASE Accept /\ UNCHANGED <<counters, threadVars>>
    <2>1. PICK s \in Sockets : AcceptOn(s)
        BY <1>2 DEF Accept
    <2>2. s \notin Open /\ Open' = Open \cup {s}
        <3>1. Head(backlog) \in Clients /\ peer' = [peer EXCEPT ![s] = Head(backlog)]
            BY <2>1 DEF AcceptOn, ConnectionTypes, ConnectionsTypeOK
        <3>2. Head(backlog) # NoClient
            BY <3>1, ConnectionsAssumption
        <3> QED BY <2>1, <3>1, <3>2 DEF AcceptOn, Open, ConnectionTypes, ConnectionsTypeOK
    <2>3. Cardinality(Open') = Cardinality(Open) + 1
        BY <2>2, OpenIsFinite, FS_AddElement
    <2>4. /\ main = "accept" /\ main' = "count" /\ Closing' = Closing /\ Working' = Working
          /\ UNCHANGED <<version, acceptErrors, currentConnectionNumber, currentWorkerNumber>>
        BY <1>2 DEF Accept, Closing, Working, threadVars, counters
    <2> QED BY <1>1, <2>3, <2>4
<1>3. CASE AcceptFails /\ UNCHANGED <<counters, threadVars>>
    <2>1. Open' = Open
        BY <1>3 DEF AcceptFails, AcceptAborted, connVars, Open
    <2>2. /\ main = "accept" /\ main' = "count" /\ Closing' = Closing /\ Working' = Working
          /\ acceptErrors' = acceptErrors + 1
          /\ UNCHANGED <<version, currentConnectionNumber, currentWorkerNumber>>
        BY <1>3 DEF AcceptFails, Closing, Working, threadVars, counters
    <2> QED BY <1>1, <2>1, <2>2
<1>4. CASE Count /\ UNCHANGED <<connVars, threadVars>>
    <2>1. /\ main = "count" /\ main' = "serve"
          /\ currentConnectionNumber' = currentConnectionNumber + 1
          /\ Open' = Open /\ Closing' = Closing /\ Working' = Working
          /\ UNCHANGED <<version, acceptErrors, currentWorkerNumber>>
        BY <1>4 DEF Count, Open, Closing, Working, connVars, threadVars
    <2> QED BY <1>1, <2>1
<1>5. CASE (StartThread \/ HandleHere) /\ UNCHANGED <<connVars, counters>>
    <2>1. /\ main = "serve" /\ main' # "count" /\ Open' = Open
          /\ UNCHANGED <<version, acceptErrors, currentConnectionNumber, currentWorkerNumber>>
        BY <1>5 DEF StartThread, HandleHere, Open, connVars, counters, threadVars
    <2>2. CASE UNCHANGED threadVars
        <3>1. Closing' = Closing /\ Working' = Working
            BY <2>2 DEF threadVars, Closing, Working
        <3> QED BY <1>1, <2>1, <3>1
    <2>3. CASE \/ Begin("addWorker")
               \/ version = "v0" /\ Begin("recv")
        <3>1. PICK t \in Threads, first \in Steps \ {"responded", "sub"} :
                  /\ step[t] = "none" /\ step' = [step EXCEPT ![t] = first]
                  /\ version # "v0" => first = "addWorker"
            BY <2>3 DEF Begin, Steps
        <3>2. /\ Cardinality(Closing') = Cardinality(Closing)
              /\ first = "addWorker" => Cardinality(Working') = Cardinality(Working)
            <4>1. /\ first \in Steps /\ first \notin {"responded", "sub"}
                  /\ step[t] \notin {"responded", "sub"}
                  /\ step[t] \in {"none", "addWorker"}
                BY <3>1
            <4> QED BY <1>1, <3>1, <4>1, StepCounts
        <3> QED BY <1>1, <2>1, <3>1, <3>2
    <2> QED BY <1>5, <2>2, <2>3 DEF StartThread, HandleHere
<1> QED BY <1>2, <1>3, <1>4, <1>5 DEF MainStep

LEMMA ThreadKeepsNumbers ==
    ASSUME SafeInv, Numbers, NEW t \in Threads, ThreadStep(t) PROVE Numbers'
<1> USE DEF SafeInv, Types
<1>1. /\ Cardinality(Open) \in Nat /\ Cardinality(Closing) \in Nat
      /\ Cardinality(Working) \in Nat /\ acceptErrors \in Nat
    BY OpenIsFinite, ThreadsAreFinite DEF ThreadTypes
<1>2. /\ UNCHANGED <<version, acceptErrors>>
      /\ main' = "count" <=> main = "count"
    BY DEF ThreadStep
<1>3. /\ version = "v0" => step[t] \notin {"addWorker", "subWorker"}
      /\ currentConnectionNumber =
             Cardinality(Open) + acceptErrors + Cardinality(Closing)
             - (IF main = "count" THEN 1 ELSE 0)
      /\ currentWorkerNumber = IF version = "v0" THEN 0 ELSE Cardinality(Working)
    BY DEF Control, Numbers
<1>5. CASE AddWorkerNumber(t)
    <2>1. /\ step[t] = "addWorker" /\ step' = [step EXCEPT ![t] = "recv"]
          /\ currentWorkerNumber' = currentWorkerNumber + 1
          /\ Open' = Open /\ UNCHANGED currentConnectionNumber
        BY <1>5 DEF AddWorkerNumber, Goto, Open, connVars, counters
    <2>2. /\ Cardinality(Closing') = Cardinality(Closing)
          /\ Cardinality(Working') = Cardinality(Working) + 1
        BY <1>1, StepCounts, <2>1 DEF Steps
    <2> QED BY <1>1, <1>2, <1>3, <2>1, <2>2 DEF Numbers
<1>6. CASE Recv(t) \/ RecvThrows(t) \/ Send(t)
    <2>1. PICK next \in Steps \ {"none", "addWorker", "responded", "sub"} :
              step[t] \in {"recv", "send"} /\ step' = [step EXCEPT ![t] = next]
        BY <1>6 DEF Recv, RecvThrows, Send, Goto, Caught, Steps
    <2>2. Open' = Open /\ UNCHANGED <<currentConnectionNumber, currentWorkerNumber>>
        BY <1>6 DEF Recv, RecvThrows, Send, Receive, SendTo, Open, connVars, counters
    <2>3. /\ Cardinality(Closing') = Cardinality(Closing)
          /\ Cardinality(Working') = Cardinality(Working)
        <3>1. /\ next \in Steps /\ next \notin {"responded", "sub"}
              /\ next \notin {"none", "addWorker"}
              /\ step[t] \notin {"responded", "sub"}
              /\ step[t] \notin {"none", "addWorker"}
            BY <2>1
        <3> QED BY <1>1, StepCounts, <2>1, <3>1
    <2> QED BY <1>1, <1>2, <1>3, <2>2, <2>3 DEF Numbers
<1>7. CASE Close(t)
    <2>1. Cardinality(Open') = Cardinality(Open) - 1
        BY <1>7, CloseKeepsSafe, OpenIsFinite, FS_RemoveElement
    <2>2. /\ step[t] = "close" /\ step' = [step EXCEPT ![t] = "responded"]
          /\ UNCHANGED <<currentConnectionNumber, currentWorkerNumber>>
        BY <1>7 DEF Close, Goto, counters
    <2>3. /\ Cardinality(Closing') = Cardinality(Closing) + 1
          /\ Cardinality(Working') = Cardinality(Working)
        BY <1>1, StepCounts, <2>2 DEF Steps
    <2> QED BY <1>1, <1>2, <1>3, <2>1, <2>2, <2>3 DEF Numbers
<1>8. CASE CountResponded(t)
    <2>1. /\ step[t] = "responded" /\ step' = [step EXCEPT ![t] = "sub"]
          /\ Open' = Open /\ UNCHANGED <<currentConnectionNumber, currentWorkerNumber>>
        BY <1>8 DEF CountResponded, addTotalRespondedRequestNumber, Goto, Open, connVars
    <2>2. /\ Cardinality(Closing') = Cardinality(Closing)
          /\ Cardinality(Working') = Cardinality(Working)
        BY <1>1, StepCounts, <2>1 DEF Steps
    <2> QED BY <1>1, <1>2, <1>3, <2>1, <2>2 DEF Numbers
<1>9. CASE SubCurrent(t)
    <2>1. PICK next \in Steps \ {"responded", "sub"} :
              /\ step[t] = "sub" /\ step' = [step EXCEPT ![t] = next]
              /\ version # "v0" => next \notin {"none", "addWorker"}
        BY <1>9 DEF SubCurrent, Goto, Steps
    <2>2. /\ currentConnectionNumber' = currentConnectionNumber - 1
          /\ Open' = Open /\ UNCHANGED currentWorkerNumber
        BY <1>9 DEF SubCurrent, subCurrentConnectionNumber, Open, connVars
    <2>3. /\ Cardinality(Closing') = Cardinality(Closing) - 1
          /\ version # "v0" => Cardinality(Working') = Cardinality(Working)
        <3>1. /\ next \in Steps /\ next \notin {"responded", "sub"}
              /\ step[t] \in {"responded", "sub"}
              /\ step[t] \notin {"none", "addWorker"}
            BY <2>1
        <3> QED BY <1>1, StepCounts, <2>1, <3>1
    <2> QED BY <1>1, <1>2, <1>3, <2>2, <2>3 DEF Numbers
<1>10. CASE SubWorkerNumber(t)
    <2>1. /\ step[t] = "subWorker" /\ step' = [step EXCEPT ![t] = "none"]
          /\ currentWorkerNumber' = currentWorkerNumber - 1
          /\ Open' = Open /\ UNCHANGED currentConnectionNumber
        BY <1>10 DEF SubWorkerNumber, Goto, Open, connVars, counters
    <2>2. /\ Cardinality(Closing') = Cardinality(Closing)
          /\ Cardinality(Working') = Cardinality(Working) - 1
        BY <1>1, StepCounts, <2>1 DEF Steps
    <2> QED BY <1>1, <1>2, <1>3, <2>1, <2>2 DEF Numbers
<1> QED BY <1>5, <1>6, <1>7, <1>8, <1>9, <1>10 DEF ThreadStep

LEMMA NextKeepsNumbers == SafeInv /\ Numbers /\ [Next]_vars => Numbers'
<1> SUFFICES ASSUME SafeInv, Numbers, [Next]_vars PROVE Numbers'
    OBVIOUS
<1>1. CASE MainStep
    BY <1>1, MainKeepsNumbers
<1>2. CASE \E t \in Threads : ThreadStep(t)
    BY <1>2, ThreadKeepsNumbers
<1>3. ASSUME UNCHANGED <<counters, threadVars, mainVars>>, Open' = Open PROVE Numbers'
    BY <1>3 DEF Numbers, Closing, Working, counters, threadVars, mainVars
<1>4. CASE RecorderStep /\ UNCHANGED <<connVars, counters, threadVars, mainVars>>
    BY <1>3, <1>4 DEF connVars, Open
<1>5. CASE /\ \E c \in Clients : ClientStep(c)
           /\ UNCHANGED <<counters, statVars, threadVars, mainVars>>
    BY <1>3, <1>5 DEF ClientStep, Connect, SendSegment, Leave, Open
<1>6. CASE UNCHANGED vars
    BY <1>3, <1>6 DEF vars, connVars, Open
<1> QED BY <1>1, <1>2, <1>4, <1>5, <1>6 DEF Next

----------------------------------------------------------------------------
\* What was checked on an instance, for every instance

LEMMA Inductive == Spec => []IndInv
<1>1. Init => Numbers
    <2> SUFFICES ASSUME Init PROVE Numbers
        OBVIOUS
    <2>1. Open = {} /\ Closing = {} /\ Working = {}
        BY DEF Init, ConnectionsInit, Open, Closing, Working
    <2> QED BY <2>1, FS_EmptySet DEF Init, CountersInit, Numbers
<1>2. Init => IndInv
    BY <1>1, InitSafe DEF IndInv
<1>3. IndInv /\ [Next]_vars => IndInv'
    BY NextKeepsSafe, NextKeepsRecorder, NextKeepsNumbers DEF IndInv
<1> QED BY <1>2, <1>3, PTL DEF Spec

\* v0 leaks no socket and v1 only after an exception, and no socket is used by
\* two threads or after it was closed (HttpServer_v0.h, 20-27;
\* HttpServer_v1.h, 22-28 and 60-68).
THEOREM SocketsLeakByExceptionOnly == Spec => []LeakedOnlyByException
<1>1. IndInv => LeakedOnlyByException
    <2> SUFFICES ASSUME IndInv PROVE LeakedOnlyByException
        OBVIOUS
    <2> USE ConnectionsAssumption DEF IndInv, SafeInv
    <2>1. version = "v0" => Leaked = {}
        BY DEF Leaked, Hands, OpenIsHeld, Holds
    <2>2. \A s \in Leaked : peer[s] \notin replied
        BY DEF Leaked, AnsweredCloses
    <2>3. ASSUME NEW s \in Sockets
          PROVE  Cardinality(InUse(s)) <= 1 /\ (InUse(s) # {} => s \in Open)
        <3>1. \A t \in InUse(s) : t \in Threads /\ Holds(t) /\ connSocket[t] = s
            BY DEF InUse, Holds
        <3>2. CASE InUse(s) = {}
            BY <3>2, FS_EmptySet
        <3>3. CASE InUse(s) # {}
            <4>1. PICK t : t \in InUse(s)
                BY <3>3
            <4>2. InUse(s) = {t}
                BY <3>1, <4>1 DEF Hands, HeldOnce
            <4>3. Cardinality(InUse(s)) = 1
                BY <4>2, FS_Singleton
            <4> QED BY <3>1, <4>1, <4>3 DEF Hands, HeldIsOpen
        <3> QED BY <3>2, <3>3
    <2> QED BY <2>1, <2>2, <2>3 DEF LeakedOnlyByException
<1> QED BY <1>1, Inductive, PTL

\* Until an accept fails the current connection number is the number of open
\* sockets, but for what is counted a step later; it is never below zero, and
\* the worker number of v1 is the number of its threads (HttpServer_v0.h, 20-29;
\* HttpServer_v1.h, 22-24, 54 and 74).
THEOREM CountersAlwaysExact == Spec => []CountersAreExact
<1>1. IndInv => CountersAreExact
    <2> SUFFICES ASSUME IndInv PROVE CountersAreExact
        OBVIOUS
    <2> USE DEF IndInv, SafeInv, Types
    <2>1. /\ Cardinality(Open) \in Nat /\ Cardinality(Closing) \in Nat
          /\ Cardinality(Working) \in 0..Cardinality(Threads)
          /\ Cardinality(Threads) \in Nat /\ acceptErrors \in Nat
        BY OpenIsFinite, ThreadsAreFinite, FS_CardinalityType, DirectServerAssumption
           DEF ThreadTypes
    <2>2. main = "count" => Cardinality(Open) + acceptErrors > 0
        <3>1. main = "count" /\ newConnSocket # NoSocket => Open # {}
            BY DEF Hands, HeldIsOpen
        <3>2. Open # {} => Cardinality(Open) > 0
            BY <2>1, OpenIsFinite, FS_EmptySet
        <3> QED BY <2>1, <3>1, <3>2 DEF Control
    <2>3. currentConnectionNumber \in Nat
        BY <2>1, <2>2 DEF Numbers
    <2>4. TypeOK
        BY <2>1 DEF TypeOK, ConnectionTypes, ThreadTypes, Recorder, Numbers
    <2>5. ASSUME acceptErrors = 0
          PROVE  currentConnectionNumber = Cardinality(Open) + Cardinality(Closing)
                                           - (IF main = "count" THEN 1 ELSE 0)
        BY <2>1, <2>5 DEF Numbers
    <2>6. currentWorkerNumber = IF version = "v0" THEN 0 ELSE Cardinality(Working)
        BY DEF Numbers
    <2> QED BY <2>3, <2>4, <2>5, <2>6 DEF CountersAreExact, Closing, Working
<1> QED BY <1>1, Inductive, PTL

\* By how much the counter is off from "the number of connections at present"
\* (HttpServer.h, 26) when every thread is done and the main thread is back in
\* accept: a failed accept is counted like a connection and never counted out
\* (HttpServer_v0.h, 21-23; HttpServer_v1.h, 22-24).
OverByFailedAccepts ==
    (main = "accept" /\ \A t \in Threads : step[t] = "none") =>
        currentConnectionNumber - Cardinality(Open) = acceptErrors

\* It holds in every reachable state.
THEOREM FailedAcceptsStayCounted == Spec => []OverByFailedAccepts
<1>1. IndInv => OverByFailedAccepts
    <2> SUFFICES ASSUME IndInv, main = "accept", \A t \in Threads : step[t] = "none"
                 PROVE  currentConnectionNumber - Cardinality(Open) = acceptErrors
        BY DEF OverByFailedAccepts
    <2> USE DEF IndInv, SafeInv, Types
    <2>1. Closing = {}
        BY DEF Closing
    <2>2. Cardinality(Closing) = 0
        BY <2>1, FS_EmptySet
    <2>3. Cardinality(Open) \in Nat /\ acceptErrors \in Nat
        BY OpenIsFinite, FS_CardinalityType, DirectServerAssumption DEF ThreadTypes
    <2> QED BY <2>2, <2>3 DEF Numbers
<1> QED BY <1>1, Inductive, PTL

\* No response is in two lines of stat.txt (HttpServer.h, 88 and 92).
THEOREM EveryResponseRecordedOnce == Spec => []RecordedOnce
<1>1. IndInv => RecordedOnce
    BY DEF IndInv, Recorder, RecordedOnce
<1> QED BY <1>1, Inductive, PTL
=============================================================================
