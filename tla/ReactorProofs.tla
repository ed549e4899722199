--------------------------- MODULE ReactorProofs ---------------------------
(***************************************************************************)
(* What TLC checks of Reactor on sets of three sockets, proved for any     *)
(* FD_SETSIZE, and for any number of clients and sockets: the types, that  *)
(* every connection is registered once, that the Acceptor never takes a    *)
(* connection the sets have no room for, and that a response is for the    *)
(* whole request of its own client.                                        *)
(*                                                                         *)
(* RegisteredOnce and SpareIsThere need each other: FD_SET drops a socket  *)
(* without a word when its set is full, and that the set is not full       *)
(* comes from counting the registered connections, which are the open      *)
(* ones. ReadInv rests on both: what is registered for reading has not     *)
(* been received from, but for the socket at the loop's index, and what    *)
(* is registered for writing has been received to its end.                 *)
(***************************************************************************)
EXTENDS Reactor, FiniteSetTheorems, SequenceTheorems, TLAPS

\* The types of the connections, with what closed and replied need to stay
\* subsets of connected: only who connected is in the listen queue or a peer.
ConnectionTypes ==
    /\ ConnectionsTypeOK
    /\ sent \in [Clients -> Nat]
    /\ unread \in [Clients -> Nat]
    /\ \A k \in 1..Len(backlog) : backlog[k] \in connected
    /\ \A s \in Sockets : peer[s] \in connected \cup {NoClient}

ServerTypes ==
    /\ read_set \in Seq(Sockets \cup {listenSocket})
    /\ write_set \in Seq(Sockets)
    /\ Len(read_set) <= FD_SETSIZE /\ Len(write_set) <= FD_SETSIZE
    /\ r_set \subseteq Sockets \cup {listenSocket}
    /\ w_set \subseteq Sockets
    /\ handlers \in [Sockets -> Handlers]
    /\ spareNumber \in 0..FD_SETSIZE
    /\ main \in {"select", "read", "accept", "recv", "write", "close", "timeout"}
    /\ i \in 1..(FD_SETSIZE + 1)
    /\ j \in 0..FD_SETSIZE
    /\ data \in Nat

\* While a handler runs, the index is still the one of its socket.
Loops ==
    /\ main \in {"accept", "recv"} => i <= Len(read_set)
    /\ main = "recv" => read_set[i] # listenSocket
    /\ main = "close" => i <= Len(write_set)

Types == ConnectionTypes /\ ServerTypes /\ Loops

\* No socket is twice in a set.
Once(set) == \A k, n \in 1..Len(set) : set[k] = set[n] => k = n

\* Every open socket has a handler, and is in the set for it once.
Registered ==
    /\ Once(read_set) /\ Once(write_set)
    /\ Open = {s \in Sockets : handlers[s] # "none"}
    /\ ToSet(read_set) \ {listenSocket}
           = {s \in Sockets : handlers[s] = "ReadHandler"}
    /\ ToSet(write_set) = {s \in Sockets : handlers[s] = "WriteHandler"}

IndInv == Types /\ Registered /\ SpareIsThere

----------------------------------------------------------------------------
(* The sets *)

\* FD_CLR of the socket at index k, which is there only once.
LEMMA FdClrRemoves ==
    ASSUME NEW T, NEW set \in Seq(T), Once(set), NEW k \in 1..Len(set)
    PROVE  /\ FdClr(set[k], set) \in Seq(T)
           /\ Len(FdClr(set[k], set)) = Len(set) - 1
           /\ Once(FdClr(set[k], set))
           /\ ToSet(FdClr(set[k], set)) = ToSet(set) \ {set[k]}
<1> DEFINE new == FdClr(set[k], set)
<1>1. new = RemoveAt(set, k)
    <2>1. {n \in 1..Len(set) : set[n] = set[k]} = {k}
        BY DEF Once
    <2>2. Min({k}) = k
        BY DEF Min
    <2>3. SelectInSeq(set, LAMBDA v : v = set[k]) = k
        BY <2>1, <2>2 DEF SelectInSeq
    <2> QED BY <2>3 DEF FdClr, RemoveFirst
<1>2. /\ new \in Seq(T) /\ Len(new) = Len(set) - 1
      /\ \A n \in 1..Len(new) : new[n] = IF n < k THEN set[n] ELSE set[n + 1]
    <2> DEFINE before == SubSeq(set, 1, k - 1)
               after == SubSeq(set, k + 1, Len(set))
    <2>1. /\ before \in Seq(T) /\ Len(before) = k - 1
          /\ \A n \in 1..(k - 1) : before[n] = set[n]
        OBVIOUS
    <2>2. /\ after \in Seq(T) /\ Len(after) = Len(set) - k
          /\ \A n \in 1..(Len(set) - k) : after[n] = set[n + k]
        OBVIOUS
    <2> HIDE DEF before, after
    <2>3. /\ before \o after \in Seq(T)
          /\ Len(before \o after) = Len(set) - 1
          /\ \A n \in 1..(Len(set) - 1) :
                (before \o after)[n] = IF n < k THEN before[n] ELSE after[n - k + 1]
        <3>1. /\ before \o after \in Seq(T)
              /\ Len(before \o after) = Len(before) + Len(after)
              /\ \A n \in 1..(Len(before) + Len(after)) :
                    (before \o after)[n] = IF n <= Len(before) THEN before[n]
                                           ELSE after[n - Len(before)]
            BY <2>1, <2>2, ConcatProperties
        <3>2. \A n \in 1..(Len(set) - 1) :
                  (n <= k - 1 <=> n < k) /\ n - (k - 1) = n - k + 1
            OBVIOUS
        <3> QED BY <2>1, <2>2, <3>1, <3>2
    <2>4. new = before \o after
        BY <1>1 DEF RemoveAt, before, after
    <2>5. \A n \in 1..(Len(set) - 1) : new[n] = IF n < k THEN set[n] ELSE set[n + 1]
        <3> SUFFICES ASSUME NEW n \in 1..(Len(set) - 1)
                     PROVE  (before \o after)[n] = IF n < k THEN set[n] ELSE set[n + 1]
            BY <2>4
        <3>1. CASE n < k
            <4>1. n \in 1..(k - 1) /\ (before \o after)[n] = before[n]
                BY <2>3, <3>1
            <4> QED BY <2>1, <3>1, <4>1
        <3>2. CASE ~(n < k)
            <4>1. PICK m : m = n - k + 1
                OBVIOUS
            <4>2. m \in 1..(Len(set) - k) /\ m + k = n + 1
                BY <3>2, <4>1
            <4>3. (before \o after)[n] = after[m]
                BY <2>3, <3>2, <4>1
            <4> QED BY <2>2, <3>2, <4>2, <4>3
        <3> QED BY <3>1, <3>2
    <2> QED BY <2>3, <2>4, <2>5
<1> HIDE DEF new
<1>3. Once(new)
    BY <1>2 DEF Once
<1>4. ToSet(new) \subseteq ToSet(set) \ {set[k]}
    BY <1>2 DEF Once, ToSet
<1>5. ASSUME NEW s \in ToSet(set), s # set[k] PROVE s \in ToSet(new)
    <2>1. PICK m \in 1..Len(set) : set[m] = s
        BY DEF ToSet
    <2>2. CASE m < k
        BY <1>2, <2>1, <2>2 DEF ToSet
    <2>3. CASE m > k
        <3>1. m - 1 \in 1..Len(new) /\ new[m - 1] = s
            BY <1>2, <2>1, <2>3
        <3> QED BY <1>2, <3>1 DEF ToSet
    <2> QED BY <1>5, <2>1, <2>2, <2>3
<1> QED BY <1>2, <1>3, <1>4, <1>5 DEF new

\* FD_SET of a socket that is not there, when there is room.
LEMMA FdSetAdds ==
    ASSUME NEW T, NEW set \in Seq(T), Once(set), Len(set) < FD_SETSIZE,
           NEW s \in T, s \notin ToSet(set)
    PROVE  /\ FdSet(s, set) \in Seq(T)
           /\ Len(FdSet(s, set)) = Len(set) + 1
           /\ \A k \in 1..Len(set) : FdSet(s, set)[k] = set[k]
           /\ Once(FdSet(s, set))
           /\ ToSet(FdSet(s, set)) = ToSet(set) \cup {s}
<1> DEFINE new == FdSet(s, set)
<1>1. /\ new \in Seq(T) /\ Len(new) = Len(set) + 1
      /\ new[Len(set) + 1] = s
      /\ \A k \in 1..Len(set) : new[k] = set[k]
    BY DEF FdSet
<1> HIDE DEF new
<1>2. Once(new)
    BY <1>1 DEF Once, ToSet
<1>3. ToSet(new) = ToSet(set) \cup {s}
    <2>1. /\ \A k \in DOMAIN new : new[k] \in ToSet(set) \cup {s}
          /\ \A k \in DOMAIN set : set[k] \in ToSet(new)
          /\ s \in ToSet(new)
        BY <1>1 DEF ToSet
    <2> QED BY <2>1 DEF ToSet
<1> QED BY <1>1, <1>2, <1>3 DEF new

\* A set without duplicates has as many entries as members.
LEMMA LengthIsCardinality ==
    ASSUME NEW T, NEW set \in Seq(T), Once(set)
    PROVE  /\ IsFiniteSet(ToSet(set))
           /\ Cardinality(ToSet(set)) = Len(set)
<1>1. set \in Bijection(1..Len(set), ToSet(set))
    BY DEF Once, ToSet, Bijection, Injection, Surjection, IsInjective
<1>2. Len(set) \in Nat /\ ExistsBijection(1..Len(set), ToSet(set))
    BY <1>1 DEF ExistsBijection
<1> QED BY <1>2, FS_NatBijection, FS_CountingElements

LEMMA OpenIsFinite == IsFiniteSet(Open) /\ Cardinality(Open) \in Nat
<1>1. Open \in SUBSET Sockets
    BY DEF Open
<1> QED BY <1>1, FS_Subset, FS_CardinalityType, ConnectionsAssumption

\* No set has more sockets than there are connections, and the listening one.
LEMMA SetsAreSmall ==
    ASSUME ServerTypes, Registered
    PROVE  /\ Len(read_set) <= Cardinality(Open) + 1
           /\ Len(write_set) <= Cardinality(Open)
           /\ \A s \in Open : handlers[s] = "ReadHandler" =>
                 Len(write_set) <= Cardinality(Open) - 1
<1> USE OpenIsFinite DEF ServerTypes, Registered
<1>1. Len(read_set) = Cardinality(ToSet(read_set))
    BY LengthIsCardinality
<1>2. Len(write_set) = Cardinality(ToSet(write_set))
    BY LengthIsCardinality
<1>3. /\ IsFiniteSet(Open \cup {listenSocket})
      /\ Cardinality(Open \cup {listenSocket}) = Cardinality(Open) + 1
    <2>1. listenSocket \notin Open
        BY ReactorAssumption DEF Open
    <2> QED BY <2>1, FS_AddElement
<1>4. ToSet(read_set) \subseteq Open \cup {listenSocket}
    OBVIOUS
<1>5. Cardinality(ToSet(read_set)) <= Cardinality(Open \cup {listenSocket})
    BY <1>3, <1>4, FS_Subset
<1>6. Cardinality(Open \cup {listenSocket}) \in Nat
    BY <1>3, FS_CardinalityType
<1>7. Len(read_set) <= Cardinality(Open) + 1
    BY <1>1, <1>3, <1>5, <1>6
<1>8. Len(write_set) <= Cardinality(Open)
    BY <1>2, FS_Subset
<1>9. ASSUME NEW s \in Open, handlers[s] = "ReadHandler"
      PROVE  Len(write_set) <= Cardinality(Open) - 1
    <2>1. /\ IsFiniteSet(Open \ {s})
          /\ Cardinality(Open \ {s}) = Cardinality(Open) - 1
        BY FS_RemoveElement
    <2>2. ToSet(write_set) \subseteq Open \ {s}
        BY <1>9
    <2> QED BY <1>2, <2>1, <2>2, FS_Subset
<1> QED BY <1>7, <1>8, <1>9

----------------------------------------------------------------------------
LEMMA InitInv == Init => IndInv
<1> SUFFICES ASSUME Init PROVE IndInv
    OBVIOUS
<1> USE ConnectionsAssumption, ReactorAssumption DEF Init, ConnectionsInit
<1>1. ConnectionTypes
    BY DEF ConnectionTypes, ConnectionsTypeOK
<1>2. ServerTypes /\ Loops
    BY DEF ServerTypes, Loops, Handlers
<1>3. Open = {}
    BY DEF Open
<1>4. Registered
    BY <1>3 DEF Registered, Once, ToSet
<1>5. SpareIsThere
    BY <1>3, FS_EmptySet DEF SpareIsThere
<1> QED BY <1>1, <1>2, <1>4, <1>5 DEF IndInv, Types

\* Every call and every act of a client keeps the types of the connections.
LEMMA ConnectionsKeepTypes ==
    ASSUME ConnectionTypes,
           \/ AcceptAborted
           \/ \E s \in Sockets : AcceptOn(s) \/ Receive(s) \/ SendTo(s) \/ CloseSocket(s)
           \/ \E c \in Clients : ClientStep(c)
           \/ UNCHANGED connVars
    PROVE  ConnectionTypes'
<1> USE ConnectionsAssumption DEF ConnectionTypes, ConnectionsTypeOK
<1>0. ASSUME backlog # <<>>, backlog' = Tail(backlog)
      PROVE  /\ Head(backlog) = backlog[1] /\ Head(backlog) \in connected
             /\ backlog' \in Seq(Clients)
             /\ \A k \in 1..Len(backlog') :
                   backlog'[k] = backlog[k + 1] /\ k + 1 \in 1..Len(backlog)
    BY <1>0
<1>1. CASE AcceptAborted
    <2>1. /\ backlog' \in Seq(Clients) /\ closed' \subseteq connected
          /\ \A k \in 1..Len(backlog') : backlog'[k] \in connected
          /\ UNCHANGED <<peer, sent, unread, connected, left, replied>>
        BY <1>0, <1>1 DEF AcceptAborted
    <2> QED BY <2>1
<1>2. ASSUME NEW s \in Sockets, AcceptOn(s) PROVE ConnectionTypes'
    <2>1. /\ backlog' \in Seq(Clients)
          /\ \A k \in 1..Len(backlog') : backlog'[k] \in connected
          /\ peer' = [peer EXCEPT ![s] = Head(backlog)]
          /\ Head(backlog) \in connected
          /\ UNCHANGED <<sent, unread, connected, left, closed, replied>>
        BY <1>0, <1>2 DEF AcceptOn
    <2> QED BY <2>1
<1>3. ASSUME NEW s \in Sockets, Receive(s) PROVE ConnectionTypes'
    BY <1>3 DEF Receive, Open
<1>4. ASSUME NEW s \in Sockets, SendTo(s) PROVE ConnectionTypes'
    BY <1>4 DEF SendTo
<1>5. ASSUME NEW s \in Sockets, CloseSocket(s) PROVE ConnectionTypes'
    BY <1>5 DEF CloseSocket
<1>6. ASSUME NEW c \in Clients, ClientStep(c) PROVE ConnectionTypes'
    <2>1. CASE Connect(c)
        BY <2>1 DEF Connect
    <2>2. CASE SendSegment(c)
        BY <2>2 DEF SendSegment
    <2>3. CASE Leave(c)
        BY <2>3 DEF Leave
    <2> QED BY <1>6, <2>1, <2>2, <2>3 DEF ClientStep
<1>7. CASE UNCHANGED connVars
    BY <1>7 DEF connVars
<1> QED BY <1>1, <1>2, <1>3, <1>4, <1>5, <1>6, <1>7

----------------------------------------------------------------------------
\* The loops go on, and no connection is opened, closed or moved.
LEMMA LoopKeepsInv ==
    ASSUME IndInv,
           \/ Select \/ SelectTimesOut \/ EndLoop \/ Skip \/ HandleRead
           \/ AcceptError \/ AcceptEnds \/ RecvPart
    PROVE  IndInv'
<1> USE ConnectionsAssumption, ReactorAssumption DEF IndInv, Types
<1>1. /\ UNCHANGED <<peer, read_set, write_set, handlers, spareNumber>>
      /\ main # "close" /\ main' # "close"
    BY DEF Select, SelectTimesOut, EndLoop, Skip, HandleRead, AcceptError, AcceptEnds,
           RecvPart, AcceptAborted, Receive, connVars, setVars
<1>2. CASE RecvPart
    <2> USE <1>2 DEF RecvPart, setVars
    <2>1. read_set[i] \in Sockets
        BY DEF ServerTypes, Loops
    <2>2. ConnectionTypes'
        BY <2>1, ConnectionsKeepTypes
    <2>3. unread[peer[read_set[i]]] \in Nat
        BY <2>1 DEF Receive, Open, ConnectionTypes, ConnectionsTypeOK
    <2>4. ServerTypes' /\ Loops'
        BY <2>3 DEF ServerTypes, Loops
    <2> QED BY <1>1, <2>2, <2>4 DEF Registered, SpareIsThere, Open
<1>3. CASE \/ Select \/ SelectTimesOut \/ EndLoop \/ Skip \/ HandleRead
           \/ AcceptError \/ AcceptEnds
    <2>1. ConnectionTypes'
        BY <1>3, ConnectionsKeepTypes DEF Select, SelectTimesOut, EndLoop, Skip,
           HandleRead, AcceptError, AcceptEnds
    <2>2. ServerTypes' /\ Loops'
        <3> USE DEF ServerTypes, Loops, setVars
        <3>1. CASE Select
            BY <3>1 DEF Select, ReadReady, ToSet
        <3>2. CASE SelectTimesOut
            BY <3>2 DEF SelectTimesOut
        <3>3. CASE EndLoop
            BY <3>3 DEF EndLoop
        <3>4. CASE Skip
            BY <3>4 DEF Skip
        <3>5. CASE HandleRead
            BY <3>5 DEF HandleRead
        <3>6. CASE AcceptError
            BY <3>6 DEF AcceptError
        <3>7. CASE AcceptEnds
            BY <3>7 DEF AcceptEnds
        <3> QED BY <1>3, <3>1, <3>2, <3>3, <3>4, <3>5, <3>6, <3>7
    <2> QED BY <1>1, <2>1, <2>2 DEF Registered, SpareIsThere, Open
<1> QED BY <1>2, <1>3

\* The callback gives back the number of the connection before it is closed.
LEMMA RespondKeepsInv ==
    ASSUME IndInv, Respond PROVE IndInv'
<1> USE ConnectionsAssumption, ReactorAssumption DEF IndInv, Types
<1>1. /\ main = "write" /\ main' = "close" /\ i <= Len(write_set)
      /\ SendTo(write_set[i]) /\ spareNumber' = spareNumber + 1
      /\ UNCHANGED <<read_set, write_set, r_set, w_set, handlers, i, j, data>>
    BY DEF Respond, OnConnectionClosed
<1>2. write_set[i] \in Sockets
    BY <1>1 DEF ServerTypes
<1>3. ConnectionTypes' /\ Open' = Open
    BY <1>1, <1>2, ConnectionsKeepTypes DEF SendTo, Open
<1>4. SpareIsThere'
    BY <1>1, <1>3, OpenIsFinite DEF SpareIsThere, ServerTypes
<1>5. spareNumber' \in 0..FD_SETSIZE
    <2>1. write_set[i] \in Open
        BY <1>1, <1>2 DEF Registered, ToSet, ServerTypes
    <2>2. Cardinality(Open) >= 1
        BY <2>1, OpenIsFinite, FS_EmptySet
    <2> QED BY <1>1, <2>2, OpenIsFinite DEF SpareIsThere, ServerTypes
<1>6. ServerTypes' /\ Loops'
    BY <1>1, <1>5 DEF ServerTypes, Loops
<1>7. Registered'
    BY <1>1, <1>3 DEF Registered
<1> QED BY <1>3, <1>4, <1>6, <1>7

\* A free number is taken, and there is room for it in the set.
LEMMA AcceptKeepsInv ==
    ASSUME IndInv, AcceptOne PROVE IndInv'
<1> USE ConnectionsAssumption, ReactorAssumption DEF IndInv, Types
<1>1. PICK s \in Sockets :
          /\ AcceptOn(s)
          /\ read_set' = FdSet(s, read_set)
          /\ handlers' = [handlers EXCEPT ![s] = "ReadHandler"]
    BY DEF AcceptOne
<1>2. /\ main = "accept" /\ main' = "accept" /\ j < spareNumber
      /\ spareNumber' = spareNumber - 1 /\ j' = j + 1
      /\ UNCHANGED <<write_set, r_set, w_set, i, data>>
    BY DEF AcceptOne
<1>3. ConnectionTypes'
    BY <1>1, ConnectionsKeepTypes
<1>4. s \notin Open /\ Open' = Open \cup {s} /\ handlers[s] = "none"
    <2>1. Head(backlog) \in Clients
        BY <1>1 DEF AcceptOn, ConnectionTypes, ConnectionsTypeOK
    <2> QED BY <1>1, <2>1 DEF AcceptOn, Open, ConnectionTypes, ConnectionsTypeOK,
                              Registered
<1>5. Cardinality(Open') = Cardinality(Open) + 1
    BY <1>4, OpenIsFinite, FS_AddElement
<1>6. SpareIsThere'
    BY <1>2, <1>5, OpenIsFinite DEF SpareIsThere, ServerTypes
<1>7. Len(read_set) < FD_SETSIZE
    BY <1>2, SetsAreSmall, OpenIsFinite DEF SpareIsThere, ServerTypes
<1>8. s \notin ToSet(read_set) /\ s \notin ToSet(write_set)
    BY <1>4 DEF Registered
<1>9. /\ read_set' \in Seq(Sockets \cup {listenSocket})
      /\ Len(read_set') = Len(read_set) + 1
      /\ Once(read_set')
      /\ ToSet(read_set') = ToSet(read_set) \cup {s}
    BY <1>1, <1>7, <1>8, FdSetAdds DEF ServerTypes, Registered
<1>10. ServerTypes' /\ Loops'
    BY <1>1, <1>2, <1>7, <1>9 DEF ServerTypes, Loops, Handlers
<1>11. Registered'
    BY <1>1, <1>2, <1>4, <1>8, <1>9 DEF Registered, ServerTypes
<1> QED BY <1>3, <1>6, <1>10, <1>11

\* The connection at index i goes from one set to the other, which has room.
LEMMA ReadSucceedsKeepsInv ==
    ASSUME IndInv, ReadSucceeds PROVE IndInv'
<1> USE ConnectionsAssumption, ReactorAssumption DEF IndInv, Types
<1> DEFINE s == read_set[i]
<1>1. /\ main = "recv" /\ main' = "read" /\ i' = i + 1
      /\ Receive(s)
      /\ read_set' = FdClr(s, read_set)
      /\ write_set' = FdSet(s, write_set)
      /\ handlers' = [handlers EXCEPT ![s] = "WriteHandler"]
      /\ UNCHANGED <<r_set, w_set, spareNumber, j, data, peer>>
    BY DEF ReadSucceeds, Receive
<1>2. i \in 1..Len(read_set) /\ s \in Sockets
    BY <1>1 DEF Loops, ServerTypes
<1>3. s \in Open /\ handlers[s] = "ReadHandler"
    BY <1>2, <1>1 DEF Registered, ToSet, Loops
<1>4. ConnectionTypes' /\ Open' = Open
    BY <1>1, <1>2, ConnectionsKeepTypes DEF Open
<1>5. /\ read_set' \in Seq(Sockets \cup {listenSocket})
      /\ Len(read_set') = Len(read_set) - 1
      /\ Once(read_set')
      /\ ToSet(read_set') = ToSet(read_set) \ {s}
    BY <1>1, <1>2, FdClrRemoves DEF ServerTypes, Registered
<1>6. Len(write_set) < FD_SETSIZE
    BY <1>1, <1>3, SetsAreSmall, OpenIsFinite DEF SpareIsThere, ServerTypes
<1>7. s \notin ToSet(write_set)
    BY <1>3 DEF Registered
<1>8. /\ write_set' \in Seq(Sockets)
      /\ Len(write_set') = Len(write_set) + 1
      /\ Once(write_set')
      /\ ToSet(write_set') = ToSet(write_set) \cup {s}
    BY <1>1, <1>2, <1>6, <1>7, FdSetAdds DEF ServerTypes, Registered
<1>9. ServerTypes' /\ Loops'
    BY <1>1, <1>2, <1>5, <1>6, <1>8 DEF ServerTypes, Loops, Handlers
<1>10. Registered'
    BY <1>1, <1>2, <1>3, <1>4, <1>5, <1>8 DEF Registered, ServerTypes
<1>11. SpareIsThere'
    BY <1>1, <1>4 DEF SpareIsThere
<1> QED BY <1>4, <1>9, <1>10, <1>11

\* A socket that is registered for reading is taken off and closed.
LEMMA CloseReader ==
    ASSUME IndInv, main \in {"recv", "timeout"},
           i <= Len(read_set), read_set[i] # listenSocket,
           CloseSocket(read_set[i]),
           read_set' = FdClr(read_set[i], read_set),
           handlers' = [handlers EXCEPT ![read_set[i]] = "none"],
           UNCHANGED write_set
    PROVE  /\ ConnectionTypes' /\ Registered'
           /\ read_set' \in Seq(Sockets \cup {listenSocket})
           /\ Len(read_set') = Len(read_set) - 1
           /\ Cardinality(Open') = Cardinality(Open) - 1
<1> USE ConnectionsAssumption, ReactorAssumption DEF IndInv, Types
<1> DEFINE s == read_set[i]
<1>1. i \in 1..Len(read_set) /\ s \in Sockets
    BY DEF ServerTypes
<1>2. s \in Open /\ handlers[s] = "ReadHandler"
    BY <1>1 DEF Registered, ToSet
<1>3. ConnectionTypes'
    BY <1>1, ConnectionsKeepTypes
<1>4. Open' = Open \ {s}
    BY <1>1, <1>2 DEF CloseSocket, Open, ConnectionTypes, ConnectionsTypeOK
<1>5. /\ read_set' \in Seq(Sockets \cup {listenSocket})
      /\ Len(read_set') = Len(read_set) - 1
      /\ Once(read_set')
      /\ ToSet(read_set') = ToSet(read_set) \ {s}
    BY <1>1, FdClrRemoves DEF ServerTypes, Registered
<1>6. Registered'
    BY <1>1, <1>2, <1>4, <1>5 DEF Registered, ServerTypes
<1>7. Cardinality(Open') = Cardinality(Open) - 1
    BY <1>2, <1>4, OpenIsFinite, FS_RemoveElement
<1> QED BY <1>3, <1>5, <1>6, <1>7

LEMMA ReadEndsKeepsInv ==
    ASSUME IndInv, HandleError \/ HandleReadTimeout PROVE IndInv'
<1> USE ConnectionsAssumption, ReactorAssumption DEF IndInv, Types
<1>1. /\ main \in {"recv", "timeout"} /\ main' \in {"read", "timeout"}
      /\ i <= Len(read_set) /\ i' = i + 1
      /\ read_set[i] # listenSocket /\ CloseSocket(read_set[i])
      /\ read_set' = FdClr(read_set[i], read_set)
      /\ handlers' = [handlers EXCEPT ![read_set[i]] = "none"]
      /\ spareNumber' = spareNumber \/ spareNumber' = spareNumber + 1
      /\ UNCHANGED <<write_set, r_set, w_set, j, data>>
    BY DEF HandleError, HandleReadTimeout, OnConnectionClosed, Loops
<1>2. /\ ConnectionTypes' /\ Registered'
      /\ read_set' \in Seq(Sockets \cup {listenSocket})
      /\ Len(read_set') = Len(read_set) - 1
      /\ Cardinality(Open') = Cardinality(Open) - 1
    BY <1>1, CloseReader
<1>3. Cardinality(Open') \in Nat
    <2>1. Open' \in SUBSET Sockets
        BY DEF Open
    <2> QED BY <2>1, FS_Subset, FS_CardinalityType
<1>4. SpareIsThere'
    BY <1>1, <1>2, <1>3, OpenIsFinite DEF SpareIsThere, ServerTypes
<1>5. spareNumber' \in 0..FD_SETSIZE
    BY <1>1, <1>3, <1>4 DEF SpareIsThere, ServerTypes
<1>6. ServerTypes' /\ Loops'
    BY <1>1, <1>2, <1>5 DEF ServerTypes, Loops, Handlers
<1> QED BY <1>2, <1>4, <1>6

LEMMA CloseAnsweredKeepsInv ==
    ASSUME IndInv, CloseAnswered PROVE IndInv'
<1> USE ConnectionsAssumption, ReactorAssumption DEF IndInv, Types
<1> DEFINE s == write_set[i]
<1>1. /\ main = "close" /\ main' = "write" /\ i' = i + 1
      /\ write_set' = FdClr(s, write_set)
      /\ handlers' = [handlers EXCEPT ![s] = "none"]
      /\ CloseSocket(s)
      /\ UNCHANGED <<read_set, r_set, w_set, spareNumber, j, data>>
    BY DEF CloseAnswered
<1>2. i \in 1..Len(write_set) /\ s \in Sockets
    BY <1>1 DEF Loops, ServerTypes
<1>3. s \in Open /\ handlers[s] = "WriteHandler"
    BY <1>2 DEF Registered, ToSet
<1>4. ConnectionTypes'
    BY <1>1, <1>2, ConnectionsKeepTypes
<1>5. Open' = Open \ {s}
    BY <1>1, <1>2, <1>3 DEF CloseSocket, Open, ConnectionTypes, ConnectionsTypeOK
<1>6. /\ write_set' \in Seq(Sockets)
      /\ Len(write_set') = Len(write_set) - 1
      /\ Once(write_set')
      /\ ToSet(write_set') = ToSet(write_set) \ {s}
    BY <1>1, <1>2, FdClrRemoves DEF ServerTypes, Registered
<1>7. Registered'
    BY <1>1, <1>2, <1>3, <1>5, <1>6 DEF Registered, ServerTypes
<1>8. Cardinality(Open') = Cardinality(Open) - 1
    BY <1>3, <1>5, OpenIsFinite, FS_RemoveElement
<1>9. SpareIsThere'
    BY <1>1, <1>8, OpenIsFinite DEF SpareIsThere, ServerTypes
<1>10. ServerTypes' /\ Loops'
    BY <1>1, <1>2, <1>6 DEF ServerTypes, Loops, Handlers
<1> QED BY <1>4, <1>7, <1>9, <1>10

LEMMA ClientKeepsInv ==
    ASSUME IndInv, NEW c \in Clients, ClientActs(c) PROVE IndInv'
<1> USE ConnectionsAssumption, ReactorAssumption DEF IndInv, Types, ClientActs
<1>1. ConnectionTypes'
    BY ConnectionsKeepTypes
<1>2. UNCHANGED peer
    BY DEF ClientStep, Connect, SendSegment, Leave
<1>3. ServerTypes' /\ Loops'
    BY DEF ServerTypes, Loops, setVars
<1>4. Registered' /\ SpareIsThere'
    BY <1>2 DEF Registered, SpareIsThere, Open, setVars
<1> QED BY <1>1, <1>3, <1>4

----------------------------------------------------------------------------
LEMMA NextKeepsInv == IndInv /\ [Next]_vars => IndInv'
<1> SUFFICES ASSUME IndInv, [Next]_vars PROVE IndInv'
    OBVIOUS
<1>1. CASE Step
    BY <1>1, LoopKeepsInv, RespondKeepsInv, AcceptKeepsInv, ReadSucceedsKeepsInv,
       ReadEndsKeepsInv, CloseAnsweredKeepsInv DEF Step
<1>2. ASSUME NEW c \in Clients, ClientActs(c) PROVE IndInv'
    BY <1>2, ClientKeepsInv
<1>3. CASE UNCHANGED vars
    <2> USE <1>3, ConnectionsKeepTypes DEF vars, setVars, IndInv, Types
    <2>1. ConnectionTypes'
        OBVIOUS
    <2>2. ServerTypes' /\ Loops'
        BY DEF ServerTypes, Loops
    <2>3. Registered' /\ SpareIsThere'
        BY DEF Registered, SpareIsThere, Open, connVars
    <2> QED BY <2>1, <2>2, <2>3
<1> QED BY <1>1, <1>2, <1>3 DEF Next

LEMMA Inductive == Spec => []IndInv
BY InitInv, NextKeepsInv, PTL DEF Spec

----------------------------------------------------------------------------
\* Every variable keeps its type, and no set outgrows FD_SETSIZE.
LEMMA TypeCorrect == Spec => []TypeOK
<1>1. IndInv => TypeOK
    BY DEF IndInv, Types, ConnectionTypes, ServerTypes, TypeOK
<1> QED BY <1>1, Inductive, PTL

\* Every connection has one handler and is once in the set for it, and nothing
\* closed is left in a set (Reactor.h, 62-78), for any number of connections.
THEOREM AlwaysRegisteredOnce == Spec => []RegisteredOnce
<1>1. ASSUME NEW T, NEW set \in Seq(T), Once(set), NEW s
      PROVE  Cardinality({k \in DOMAIN set : set[k] = s})
                 = IF s \in ToSet(set) THEN 1 ELSE 0
    <2>1. CASE s \in ToSet(set)
        <3>1. PICK k \in DOMAIN set : set[k] = s
            BY <2>1 DEF ToSet
        <3>2. {n \in DOMAIN set : set[n] = s} = {k}
            BY <1>1, <3>1 DEF Once
        <3> QED BY <2>1, <3>2, FS_Singleton
    <2>2. CASE s \notin ToSet(set)
        <3>1. {n \in DOMAIN set : set[n] = s} = {}
            BY <2>2 DEF ToSet
        <3> QED BY <2>2, <3>1, FS_EmptySet
    <2> QED BY <2>1, <2>2
<1>2. ASSUME IndInv, NEW s \in Sockets
      PROVE  /\ s \in Open <=> handlers[s] # "none"
             /\ Cardinality({k \in DOMAIN read_set : read_set[k] = s})
                    = IF handlers[s] = "ReadHandler" THEN 1 ELSE 0
             /\ Cardinality({k \in DOMAIN write_set : write_set[k] = s})
                    = IF handlers[s] = "WriteHandler" THEN 1 ELSE 0
    <2> USE <1>2, ReactorAssumption DEF IndInv, Types, ServerTypes, Registered
    <2>1. /\ s \in ToSet(read_set) <=> handlers[s] = "ReadHandler"
          /\ s \in ToSet(write_set) <=> handlers[s] = "WriteHandler"
          /\ s \in Open <=> handlers[s] # "none"
        OBVIOUS
    <2>2. Cardinality({k \in DOMAIN read_set : read_set[k] = s})
              = IF s \in ToSet(read_set) THEN 1 ELSE 0
        BY <1>1
    <2>3. Cardinality({k \in DOMAIN write_set : write_set[k] = s})
              = IF s \in ToSet(write_set) THEN 1 ELSE 0
        BY <1>1
    <2> QED BY <2>1, <2>2, <2>3
<1>3. IndInv /\ TypeOK => RegisteredOnce
    BY <1>2 DEF RegisteredOnce
<1> QED BY <1>3, Inductive, TypeCorrect, PTL

\* The Acceptor's spare number never promises more room than there is
\* (Acceptor.h, 39-53; Reactor.h, 62-66).
THEOREM SpareIsAlwaysThere == Spec => []SpareIsThere
<1>1. IndInv => SpareIsThere
    BY DEF IndInv
<1> QED BY <1>1, Inductive, PTL

----------------------------------------------------------------------------
(* What the ReadHandlers collect.                                          *)

\* Nothing of what c sent has been received.
Untouched(c) == unread[c] = sent[c]

\* A client is in the listen queue or behind a socket, and only once.
OnePlace ==
    /\ \A k, n \in 1..Len(backlog) : backlog[k] = backlog[n] => k = n
    /\ \A k \in 1..Len(backlog), s \in Sockets : peer[s] # backlog[k]
    /\ \A r, s \in Open : peer[r] = peer[s] => r = s

\* Only the ReadHandler at the index receives.
NotReceivedYet ==
    /\ \A c \in Clients \ connected : sent[c] = 0 /\ unread[c] = 0
    /\ \A k \in 1..Len(backlog) : Untouched(backlog[k])
    /\ \A s \in Open : handlers[s] = "ReadHandler" =>
          Untouched(peer[s]) \/ (main = "recv" /\ read_set[i] = s)

Collected ==
    /\ main = "recv" =>
          data + unread[peer[read_set[i]]] = sent[peer[read_set[i]]]
    /\ \A s \in Open : handlers[s] = "WriteHandler" => Whole(peer[s])

ReadInv == OnePlace /\ NotReceivedYet /\ Collected /\ \A c \in replied : Whole(c)

LEMMA InitRead == Init => ReadInv
BY ConnectionsAssumption
   DEF Init, ConnectionsInit, ReadInv, OnePlace, NotReceivedYet, Collected, Open

\* The clients behind the open sockets and in the listen queue are clients.
LEMMA PeersAreClients ==
    ASSUME IndInv
    PROVE  /\ \A s \in Open : s \in Sockets /\ peer[s] \in Clients
           /\ \A k \in 1..Len(backlog) : backlog[k] \in Clients /\ backlog[k] \in connected
           /\ \A c \in Clients : sent[c] \in Nat /\ unread[c] \in Nat /\ Request[c].segments \in Nat
           /\ replied \subseteq Clients /\ connected \subseteq Clients
           /\ data \in Nat
<1> USE ConnectionsAssumption DEF IndInv, Types, ConnectionTypes, ConnectionsTypeOK
<1>1. \A s \in Open : s \in Sockets /\ peer[s] \in Clients
    BY DEF Open
<1>2. \A k \in 1..Len(backlog) : backlog[k] \in Clients /\ backlog[k] \in connected
    OBVIOUS
<1>3. replied \subseteq Clients /\ connected \subseteq Clients
    OBVIOUS
<1>4. data \in Nat
    BY DEF ServerTypes
<1>5. \A c \in Clients : Request[c].segments \in Nat
    OBVIOUS
<1>6. \A c \in Clients : sent[c] \in Nat /\ unread[c] \in Nat
    OBVIOUS
<1> QED BY <1>1, <1>2, <1>3, <1>4, <1>5, <1>6

\* The socket at the index of a loop is open, and has the handler of its set.
LEMMA IndexedAreOpen ==
    ASSUME IndInv
    PROVE  /\ \A k \in 1..Len(read_set) : read_set[k] # listenSocket =>
                 read_set[k] \in Open /\ handlers[read_set[k]] = "ReadHandler"
           /\ \A k \in 1..Len(write_set) :
                 write_set[k] \in Open /\ handlers[write_set[k]] = "WriteHandler"
           /\ main = "recv" => i \in 1..Len(read_set) /\ read_set[i] # listenSocket
           /\ main \in {"write", "close"} /\ i <= Len(write_set) => i \in 1..Len(write_set)
           /\ main = "timeout" /\ i <= Len(read_set) => i \in 1..Len(read_set)
           /\ main = "close" => i <= Len(write_set)
<1> USE DEF IndInv, Types, ServerTypes, Loops, Registered
<1>1. \A k \in 1..Len(read_set) : read_set[k] # listenSocket =>
          read_set[k] \in Open /\ handlers[read_set[k]] = "ReadHandler"
  <2>1. \A k \in 1..Len(read_set) : read_set[k] \in ToSet(read_set)
      BY DEF ToSet
  <2> QED BY <2>1
<1>2. \A k \in 1..Len(write_set) :
          write_set[k] \in Open /\ handlers[write_set[k]] = "WriteHandler"
  <2>1. \A k \in 1..Len(write_set) : write_set[k] \in ToSet(write_set)
      BY DEF ToSet
  <2> QED BY <2>1
<1>3. i \in Nat \ {0} /\ Len(read_set) \in Nat /\ Len(write_set) \in Nat
    OBVIOUS
<1>4. /\ main = "recv" => i <= Len(read_set) /\ read_set[i] # listenSocket
      /\ main = "close" => i <= Len(write_set)
    OBVIOUS
<1> HIDE DEF IndInv, Types, ServerTypes, Loops, Registered
<1> QED BY <1>1, <1>2, <1>3, <1>4

\* What is behind the head of the listen queue moves up by one.
LEMMA TailMovesUp ==
    ASSUME NEW S, NEW q \in Seq(S), q # <<>>
    PROVE  /\ Head(q) = q[1] /\ 1 \in 1..Len(q)
           /\ \A k \in 1..Len(Tail(q)) :
                 Tail(q)[k] = q[k + 1] /\ k + 1 \in 1..Len(q) /\ k + 1 # 1
           /\ \A k, n \in 1..Len(Tail(q)) : k + 1 = n + 1 => k = n
OBVIOUS

\* What a client sends is unread, and nobody takes it for received.
LEMMA ClientKeepsRead ==
    ASSUME IndInv, ReadInv, NEW c \in Clients, ClientActs(c)
    PROVE  ReadInv'
<1> USE PeersAreClients
<1>0. /\ UNCHANGED <<peer, replied, main, i, data, read_set, handlers>>
      /\ Open' = Open
    BY DEF ClientActs, ClientStep, Connect, SendSegment, Leave, setVars, Open
<1>1. CASE Connect(c)
    <2>1. /\ c \notin connected /\ connected' = connected \cup {c}
          /\ backlog' = Append(backlog, c) /\ UNCHANGED <<sent, unread>>
        BY <1>1 DEF Connect
    <2>2. /\ Len(backlog) \in Nat /\ Len(backlog') = Len(backlog) + 1
          /\ backlog'[Len(backlog) + 1] = c
          /\ \A k \in 1..Len(backlog) : backlog'[k] = backlog[k]
        BY <2>1 DEF IndInv, Types, ConnectionTypes, ConnectionsTypeOK
    <2>3. \A k \in 1..Len(backlog) : backlog[k] # c
        BY <2>1
    <2>4. \A s \in Sockets : peer[s] # c
        BY <2>1, ConnectionsAssumption DEF IndInv, Types, ConnectionTypes
    <2>5. OnePlace'
        BY <1>0, <2>2, <2>3, <2>4 DEF ReadInv, OnePlace
    <2>6. NotReceivedYet'
        BY <1>0, <2>1, <2>2 DEF ReadInv, NotReceivedYet, Untouched
    <2>7. Collected' /\ \A d \in replied' : Whole(d)'
        BY <1>0, <2>1 DEF ReadInv, Collected, Whole
    <2> QED BY <2>5, <2>6, <2>7 DEF ReadInv
<1>2. CASE SendSegment(c)
    <2>1. /\ c \in connected /\ sent[c] < Request[c].segments
          /\ \A d \in Clients \ {c} : sent'[d] = sent[d] /\ unread'[d] = unread[d]
          /\ sent'[c] = sent[c] + 1 /\ unread'[c] = unread[c] + 1
          /\ UNCHANGED <<backlog, connected>>
        BY <1>2 DEF SendSegment, IndInv, Types, ConnectionTypes
    <2>2. \A d \in Clients :
              /\ Untouched(d) => Untouched(d)'
              /\ Whole(d) => Whole(d)'
        BY <2>1 DEF Untouched, Whole
    <2>3. \A d \in Clients, n \in Nat :
              n + unread[d] = sent[d] => n + unread'[d] = sent'[d]
        BY <2>1
    <2>4. OnePlace'
        BY <1>0, <2>1 DEF ReadInv, OnePlace
    <2>5. NotReceivedYet'
        <3>1. \A d \in Clients \ connected' : sent'[d] = 0 /\ unread'[d] = 0
            BY <2>1 DEF ReadInv, NotReceivedYet
        <3>2. \A k \in 1..Len(backlog') : unread'[backlog'[k]] = sent'[backlog'[k]]
            BY <2>1, <2>2 DEF ReadInv, NotReceivedYet, Untouched
        <3>3. \A s \in Open : unread[peer[s]] = sent[peer[s]] =>
                              unread'[peer[s]] = sent'[peer[s]]
            BY <2>2 DEF Untouched
        <3> QED BY <1>0, <3>1, <3>2, <3>3 DEF ReadInv, NotReceivedYet, Untouched
    <2>6. Collected'
        <3>1. main = "recv" => peer[read_set[i]] \in Clients
            BY IndexedAreOpen
        <3>2. \A s \in Open : handlers[s] = "WriteHandler" => Whole(peer[s])'
            BY <1>0, <2>2 DEF ReadInv, Collected, Whole
        <3>3. main = "recv" => data + unread'[peer[read_set[i]]] = sent'[peer[read_set[i]]]
            BY <2>3, <3>1 DEF ReadInv, Collected
        <3> QED BY <1>0, <3>2, <3>3 DEF Collected, Whole
    <2>7. \A d \in replied' : Whole(d)'
        BY <1>0, <2>2 DEF ReadInv, Whole
    <2> QED BY <2>4, <2>5, <2>6, <2>7 DEF ReadInv
<1>3. CASE Leave(c)
    BY <1>0, <1>3 DEF Leave, ReadInv, OnePlace, NotReceivedYet, Collected, Untouched, Whole
<1> QED BY <1>1, <1>2, <1>3 DEF ClientActs, ClientStep

\* The head of the listen queue goes away, or behind a socket that was closed.
LEMMA AcceptKeepsRead ==
    ASSUME IndInv, ReadInv, AcceptOne \/ AcceptError
    PROVE  ReadInv'
<1> USE PeersAreClients
<1>0. /\ UNCHANGED <<replied, main, i, data, sent, unread, connected>>
      /\ main = "accept" /\ backlog # <<>> /\ backlog' = Tail(backlog)
    BY DEF AcceptOne, AcceptOn, AcceptError, AcceptAborted
<1>1. /\ Head(backlog) = backlog[1] /\ 1 \in 1..Len(backlog)
      /\ \A k \in 1..Len(backlog') :
            backlog'[k] = backlog[k + 1] /\ k + 1 \in 1..Len(backlog) /\ k + 1 # 1
      /\ \A k, n \in 1..Len(backlog') : k + 1 = n + 1 => k = n
    BY <1>0, TailMovesUp DEF IndInv, Types, ConnectionTypes, ConnectionsTypeOK
<1>r. \A c \in replied' : Whole(c)'
    BY <1>0 DEF ReadInv, Whole
<1>2. /\ \A k, n \in 1..Len(backlog') : backlog'[k] = backlog'[n] => k = n
      /\ \A k \in 1..Len(backlog') : unread'[backlog'[k]] = sent'[backlog'[k]]
    BY <1>0, <1>1 DEF ReadInv, OnePlace, NotReceivedYet, Untouched
<1>3. CASE AcceptError
    <2>1. UNCHANGED <<peer, Open, handlers, read_set>>
        BY <1>3 DEF AcceptError, AcceptAborted, setVars, Open
    <2>2. OnePlace'
        BY <1>1, <1>2, <2>1 DEF ReadInv, OnePlace
    <2>3. NotReceivedYet' /\ Collected'
        BY <1>0, <1>2, <2>1 DEF ReadInv, NotReceivedYet, Collected, Untouched, Whole
    <2> QED BY <1>r, <2>2, <2>3 DEF ReadInv
<1>4. CASE AcceptOne
    <2>1. PICK s \in Sockets :
              AcceptOn(s) /\ handlers' = [handlers EXCEPT ![s] = "ReadHandler"]
        BY <1>4 DEF AcceptOne
    <2>2. /\ s \notin Open
          /\ peer'[s] = backlog[1]
          /\ \A r \in Sockets \ {s} : peer'[r] = peer[r] /\ handlers'[r] = handlers[r]
          /\ handlers'[s] = "ReadHandler"
        BY <1>1, <2>1 DEF AcceptOn, IndInv, Types, ConnectionTypes, ConnectionsTypeOK,
                          ServerTypes
    <2>3. \A r \in Open : r # s /\ peer'[r] = peer[r] /\ handlers'[r] = handlers[r]
        BY <2>2
    <2>4. Open' = Open \cup {s}
        BY <1>1, <2>2, ConnectionsAssumption DEF Open
    <2>5. OnePlace'
        <3>1. \A k \in 1..Len(backlog'), r \in Sockets : peer'[r] # backlog'[k]
            BY <1>1, <2>2 DEF ReadInv, OnePlace
        <3>2. \A r \in Open : peer[r] # backlog[1]
            BY <1>1 DEF ReadInv, OnePlace, Open
        <3>3. \A q, r \in Open' : peer'[q] = peer'[r] => q = r
            BY <2>2, <2>3, <2>4, <3>2 DEF ReadInv, OnePlace
        <3> QED BY <1>2, <3>1, <3>3 DEF OnePlace
    <2>6. NotReceivedYet'
        <3>1. \A c \in Clients \ connected' : sent'[c] = 0 /\ unread'[c] = 0
            BY <1>0 DEF ReadInv, NotReceivedYet
        <3>2. \A r \in Open : handlers'[r] = "ReadHandler" =>
                  unread'[peer'[r]] = sent'[peer'[r]]
            BY <1>0, <2>3 DEF ReadInv, NotReceivedYet, Untouched
        <3>3. unread'[peer'[s]] = sent'[peer'[s]]
            BY <1>0, <1>1, <2>2 DEF ReadInv, NotReceivedYet, Untouched
        <3> QED BY <1>2, <2>4, <3>1, <3>2, <3>3 DEF NotReceivedYet, Untouched
    <2>7. Collected'
        BY <1>0, <2>2, <2>3, <2>4 DEF ReadInv, Collected, Whole
    <2> QED BY <1>r, <2>5, <2>6, <2>7 DEF ReadInv
<1> QED BY <1>3, <1>4

\* A loop goes on, or a ReadHandler begins, with nothing collected.
LEMMA LoopKeepsRead ==
    ASSUME IndInv, ReadInv,
           Select \/ SelectTimesOut \/ EndLoop \/ Skip \/ HandleRead \/ AcceptEnds
    PROVE  ReadInv'
<1>1. /\ UNCHANGED <<connVars, handlers, read_set>> /\ main # "recv"
      /\ \/ main' # "recv"
         \/ main' = "recv" /\ i' = i /\ data' = 0 /\ i <= Len(read_set)
            /\ read_set[i] # listenSocket
    BY DEF Select, SelectTimesOut, EndLoop, Skip, HandleRead, AcceptEnds, setVars
<1>2. OnePlace' /\ \A c \in replied' : Whole(c)'
    BY <1>1 DEF ReadInv, OnePlace, Whole, connVars, Open
<1>3. NotReceivedYet'
    BY <1>1 DEF ReadInv, NotReceivedYet, Untouched, connVars, Open
<1>4. main' = "recv" => 0 + unread[peer[read_set[i]]] = sent[peer[read_set[i]]]
  <2> SUFFICES ASSUME main' = "recv"
               PROVE  0 + unread[peer[read_set[i]]] = sent[peer[read_set[i]]]
      OBVIOUS
  <2>1. i \in 1..Len(read_set)
      BY <1>1 DEF IndInv, Types, ServerTypes
  <2>2. read_set[i] \in Open /\ handlers[read_set[i]] = "ReadHandler"
      BY <1>1, <2>1, IndexedAreOpen
  <2>3. unread[peer[read_set[i]]] = sent[peer[read_set[i]]]
      BY <1>1, <2>2 DEF ReadInv, NotReceivedYet, Untouched
  <2> QED BY <2>2, <2>3, PeersAreClients
<1>5. Collected'
    BY <1>1, <1>4 DEF ReadInv, Collected, Whole, connVars, Open
<1> QED BY <1>2, <1>3, <1>5 DEF ReadInv

\* The ReadHandler at the index receives, from its own client.
LEMMA RecvKeepsRead ==
    ASSUME IndInv, ReadInv, RecvPart \/ ReadSucceeds
    PROVE  ReadInv'
<1> USE PeersAreClients
<1> DEFINE s == read_set[i]  c == peer[s]
<1>1. s \in Open /\ handlers[s] = "ReadHandler" /\ c \in Clients
    BY IndexedAreOpen DEF RecvPart, ReadSucceeds
<1>2. /\ main = "recv" /\ unread'[c] = 0
      /\ \A d \in Clients \ {c} : unread'[d] = unread[d]
      /\ UNCHANGED <<backlog, peer, sent, connected, replied>>
    BY <1>1 DEF RecvPart, ReadSucceeds, Receive, IndInv, Types, ConnectionTypes
<1>3. Open' = Open
    BY <1>2 DEF Open
<1>4. /\ \A r \in Open : r # s => peer[r] \in Clients \ {c}
      /\ \A k \in 1..Len(backlog) : backlog[k] \in Clients \ {c}
  <2>1. \A r \in Open : r # s => peer[r] # c
      BY <1>1 DEF ReadInv, OnePlace
  <2>2. \A k \in 1..Len(backlog) : backlog[k] # c
      BY <1>1 DEF ReadInv, OnePlace, Open
  <2> QED BY <2>1, <2>2
<1>5. /\ data \in Nat /\ sent[c] \in Nat /\ unread[c] \in Nat
      /\ data + unread[c] = sent[c]
    BY <1>1, <1>2 DEF ReadInv, Collected
<1>6. OnePlace'
    BY <1>2, <1>3 DEF ReadInv, OnePlace
<1>7. /\ \A d \in Clients \ connected : sent[d] = 0 /\ unread'[d] = 0
      /\ \A k \in 1..Len(backlog) : unread'[backlog[k]] = sent[backlog[k]]
      /\ \A r \in Open : r # s /\ handlers[r] = "ReadHandler" =>
            unread'[peer[r]] = sent[peer[r]]
      /\ \A r \in Open : r # s /\ handlers[r] = "WriteHandler" =>
            Whole(peer[r]) /\ unread'[peer[r]] = 0
  <2>1. \A d \in Clients \ connected : sent[d] = 0 /\ unread'[d] = 0
      BY <1>2 DEF ReadInv, NotReceivedYet
  <2>2. \A k \in 1..Len(backlog) : unread'[backlog[k]] = sent[backlog[k]]
      BY <1>2, <1>4 DEF ReadInv, NotReceivedYet, Untouched
  <2>3. \A r \in Open : r # s /\ handlers[r] = "ReadHandler" =>
            unread'[peer[r]] = sent[peer[r]]
      BY <1>2, <1>4 DEF ReadInv, NotReceivedYet, Untouched
  <2>4. \A r \in Open : r # s /\ handlers[r] = "WriteHandler" =>
            Whole(peer[r]) /\ unread'[peer[r]] = 0
      BY <1>2, <1>4 DEF ReadInv, Collected, Whole
  <2> QED BY <2>1, <2>2, <2>3, <2>4
<1>8. \A d \in replied' : Whole(d)'
  <2>1. \A d \in replied : d \in Clients /\ Whole(d)
      BY DEF ReadInv
  <2> QED BY <1>2, <2>1 DEF Whole
<1>9. CASE RecvPart
  <2>1. UNCHANGED <<main, i, handlers, read_set>> /\ data' = data + unread[c]
      BY <1>9 DEF RecvPart, setVars
  <2>2. data' + unread'[c] = sent[c]
      BY <1>2, <1>5, <2>1
  <2> HIDE DEF c
  <2>3. NotReceivedYet'
      BY <1>2, <1>3, <1>7, <2>1 DEF NotReceivedYet, Untouched
  <2>4. Collected'
      BY <1>1, <1>2, <1>3, <1>7, <2>1, <2>2 DEF Collected, Whole, c
  <2> QED BY <1>6, <1>8, <2>3, <2>4 DEF ReadInv
<1>10. CASE ReadSucceeds
  <2>1. /\ main' = "read" /\ handlers' = [handlers EXCEPT ![s] = "WriteHandler"]
        /\ isAllData(c, data + unread[c]) /\ ~parseRawDataThrows(c)
      BY <1>10 DEF ReadSucceeds
  <2>2. /\ handlers'[s] = "WriteHandler"
        /\ \A r \in Open : r # s => handlers'[r] = handlers[r]
      BY <1>1, <2>1 DEF IndInv, Types, ServerTypes
  <2>3. Request[c].kind = "good" /\ sent[c] = Request[c].segments
    <3>1. Request[c].kind \in {"good", "bad", "endless"}
        BY <1>1, ConnectionsAssumption
    <3> QED BY <1>5, <2>1, <3>1 DEF isAllData, parseRawDataThrows
  <2> HIDE DEF c
  <2>4. NotReceivedYet'
      BY <1>2, <1>3, <1>7, <2>2 DEF NotReceivedYet, Untouched
  <2>5. Collected'
      BY <1>2, <1>3, <1>7, <2>1, <2>2, <2>3 DEF Collected, Whole, c
  <2> QED BY <1>6, <1>8, <2>4, <2>5 DEF ReadInv
<1> QED BY <1>9, <1>10

\* The response goes to the client whose request the WriteHandler has.
LEMMA RespondKeepsRead ==
    ASSUME IndInv, ReadInv, Respond
    PROVE  ReadInv'
<1>1. /\ main = "write" /\ main' = "close"
      /\ write_set[i] \in Open /\ handlers[write_set[i]] = "WriteHandler"
      /\ replied' \subseteq replied \cup {peer[write_set[i]]}
      /\ UNCHANGED <<backlog, peer, sent, unread, connected, handlers, read_set, i, data>>
  <2>1. main = "write" /\ i <= Len(write_set)
      BY DEF Respond
  <2> QED BY <2>1, IndexedAreOpen DEF Respond, SendTo
<1>2. OnePlace' /\ NotReceivedYet' /\ Collected'
    BY <1>1 DEF ReadInv, OnePlace, NotReceivedYet, Collected, Untouched, Whole, Open
<1>3. \A d \in replied' : Whole(d)'
  <2>1. \A d \in replied' : Whole(d)
      BY <1>1 DEF ReadInv, Collected
  <2> QED BY <1>1, <2>1 DEF Whole
<1> QED BY <1>2, <1>3 DEF ReadInv

\* What is dropped with a socket that is closed is its own client's.
LEMMA CloseKeepsRead ==
    ASSUME IndInv, ReadInv, HandleError \/ CloseAnswered \/ HandleReadTimeout
    PROVE  ReadInv'
<1>1. PICK s \in Open :
          /\ CloseSocket(s)
          /\ handlers' = [handlers EXCEPT ![s] = "none"]
          /\ main = "recv" => s = read_set[i]
  <2>1. CASE HandleError
      BY <2>1, IndexedAreOpen DEF HandleError
  <2>2. CASE CloseAnswered
      BY <2>2, IndexedAreOpen DEF CloseAnswered
  <2>3. CASE HandleReadTimeout
      BY <2>3, IndexedAreOpen DEF HandleReadTimeout
  <2> QED BY <2>1, <2>2, <2>3
<1>2. main' # "recv"
    BY DEF HandleError, CloseAnswered, HandleReadTimeout
<1> DEFINE c == peer[s]
<1>3. /\ peer' = [peer EXCEPT ![s] = NoClient]
      /\ unread' = [d \in Clients |-> IF d = c THEN 0 ELSE unread[d]]
      /\ UNCHANGED <<backlog, sent, connected, replied>>
    BY <1>1 DEF CloseSocket
<1>4. /\ Open' \subseteq Open \ {s}
      /\ \A r \in Open \ {s} : peer'[r] = peer[r] /\ handlers'[r] = handlers[r]
      /\ \A r \in Sockets : peer'[r] \in {peer[r], NoClient}
    BY <1>1, <1>3 DEF Open, IndInv, Types, ConnectionTypes, ConnectionsTypeOK, ServerTypes
<1>5. /\ \A r \in Open \ {s} : peer[r] \in Clients \ {c}
      /\ \A k \in 1..Len(backlog) : backlog[k] \in Clients \ {c}
  <2>1. \A r \in Open \ {s} : peer[r] # c
      BY DEF ReadInv, OnePlace
  <2>2. \A k \in 1..Len(backlog) : backlog[k] # c
      BY DEF ReadInv, OnePlace, Open
  <2> QED BY <2>1, <2>2, PeersAreClients
<1> HIDE DEF c
<1>6. OnePlace'
  <2>1. \A k \in 1..Len(backlog) : backlog[k] # NoClient
      BY <1>5, ConnectionsAssumption
  <2>2. \A k \in 1..Len(backlog), r \in Sockets : peer'[r] # backlog[k]
      BY <1>4, <2>1 DEF ReadInv, OnePlace
  <2> QED BY <1>3, <1>4, <2>2 DEF ReadInv, OnePlace
<1>7. NotReceivedYet'
  <2>1. \A d \in Clients \ connected : sent[d] = 0 /\ unread'[d] = 0
      BY <1>3 DEF ReadInv, NotReceivedYet
  <2>2. \A k \in 1..Len(backlog) : unread'[backlog[k]] = sent[backlog[k]]
      BY <1>3, <1>5 DEF ReadInv, NotReceivedYet, Untouched
  <2>3. \A r \in Open \ {s} : handlers[r] = "ReadHandler" =>
            unread'[peer'[r]] = sent[peer'[r]]
      BY <1>1, <1>3, <1>4, <1>5 DEF ReadInv, NotReceivedYet, Untouched
  <2> QED BY <1>3, <1>4, <2>1, <2>2, <2>3 DEF NotReceivedYet, Untouched
<1>8. Collected'
  <2>1. \A r \in Open \ {s} : handlers[r] = "WriteHandler" =>
            Whole(peer[r]) /\ unread'[peer'[r]] = 0
      BY <1>3, <1>4, <1>5 DEF ReadInv, Collected, Whole
  <2> QED BY <1>2, <1>3, <1>4, <2>1 DEF Collected, Whole
<1>9. \A d \in replied' : Whole(d)'
  <2>1. \A d \in replied : d \in Clients /\ Whole(d)
      BY PeersAreClients DEF ReadInv
  <2> QED BY <1>3, <2>1 DEF Whole
<1> QED BY <1>6, <1>7, <1>8, <1>9 DEF ReadInv

LEMMA NextKeepsRead == IndInv /\ ReadInv /\ [Next]_vars => ReadInv'
<1> SUFFICES ASSUME IndInv, ReadInv, [Next]_vars PROVE ReadInv'
    OBVIOUS
<1>1. CASE Step
    BY <1>1, LoopKeepsRead, AcceptKeepsRead, RecvKeepsRead, RespondKeepsRead,
       CloseKeepsRead DEF Step
<1>2. ASSUME NEW c \in Clients, ClientActs(c) PROVE ReadInv'
    BY <1>2, ClientKeepsRead
<1>3. CASE UNCHANGED vars
    BY <1>3 DEF vars, setVars, connVars, ReadInv, OnePlace, NotReceivedYet, Collected,
                Untouched, Whole, Open
<1> QED BY <1>1, <1>2, <1>3 DEF Next

\* A response is for what its own client sent, and for all of it, though the
\* index and the arrays change under the loops between the recv and the send
\* (ReadHandler.h, 30-42; WriteHandler.h, 21-22).
THEOREM AnswersOnlyWhatWasSent == Spec => []AnswersWhatWasSent
<1>1. Init => IndInv /\ ReadInv
    BY InitInv, InitRead
<1>2. IndInv /\ ReadInv /\ [Next]_vars => (IndInv /\ ReadInv)'
    BY NextKeepsInv, NextKeepsRead
<1>3. IndInv => \A s \in Sockets : handlers[s] = "WriteHandler" => s \in Open
    BY DEF IndInv, Registered
<1>4. IndInv /\ ReadInv => AnswersWhatWasSent
    BY <1>3 DEF ReadInv, Collected, AnswersWhatWasSent
<1> QED BY <1>1, <1>2, <1>4, PTL DEF Spec
=============================================================================
