---------------------------- MODULE Connections ----------------------------
(***************************************************************************)
(* What the servers of the repository use of TCP: the listen queue, the    *)
(* connection sockets of the process, and the clients at the other end.    *)
(* It is the operating system's part, modelled from the calls the servers  *)
(* make (accept, recv, send, closesocket or close).                        *)
(*                                                                         *)
(* A client connects once, sends its request in segments and may leave at  *)
(* any time.  A request is "good", "bad" when HttpRequest::parseRawData    *)
(* throws on it, or "endless" when HttpRequest::isAllData is never true of *)
(* it (nothing more is sent, or the body is longer than Content-Length).   *)
(* Socket numbers are reused once they are closed.                         *)
(***************************************************************************)
EXTENDS Naturals, Sequences, FiniteSets

CONSTANTS Clients,     \* each connects at most once: the bound on connections
          Sockets,     \* the numbers accept can return: the process's limit
          NoSocket,
          NoClient,
          Request      \* Request[c]: the kind and the number of segments

ASSUME ConnectionsAssumption ==
    /\ IsFiniteSet(Sockets)
    /\ NoSocket \notin Sockets
    /\ NoClient \notin Clients
    /\ Request \in [Clients -> [kind : {"good", "bad", "endless"},
                                segments : Nat]]

VARIABLES
    backlog,     \* the clients that connected and wait to be accepted
    peer,        \* peer[s]: the client at the other end of an open socket
    sent,        \* sent[c]: how many segments c has sent
    unread,      \* unread[c]: how many of them the server has not received
    connected,   \* the clients that have ever connected
    left,        \* the clients that closed or reset their end
    closed,      \* the clients whose connection the server, or the reset, ended
    replied      \* the clients a response was sent to while they listened

connVars == <<backlog, peer, sent, unread, connected, left, closed, replied>>

ConnectionsTypeOK ==
    /\ backlog \in Seq(Clients)
    /\ peer \in [Sockets -> Clients \cup {NoClient}]
    /\ \A c \in Clients : sent[c] \in 0..Request[c].segments
    /\ \A c \in Clients : unread[c] \in 0..sent[c]
    /\ connected \subseteq Clients
    /\ left \subseteq connected
    /\ closed \subseteq connected
    /\ replied \subseteq connected

ConnectionsInit ==
    /\ backlog = <<>>
    /\ peer = [s \in Sockets |-> NoClient]
    /\ sent = [c \in Clients |-> 0]
    /\ unread = [c \in Clients |-> 0]
    /\ connected = {}
    /\ left = {}
    /\ closed = {}
    /\ replied = {}

Open == {s \in Sockets : peer[s] # NoClient}

----------------------------------------------------------------------------
\* The clients

Connect(c) ==
    /\ c \notin connected
    /\ connected' = connected \cup {c}
    /\ backlog' = Append(backlog, c)
    /\ UNCHANGED <<peer, sent, unread, left, closed, replied>>

SendSegment(c) ==
    /\ c \in connected \ (left \cup closed)
    /\ sent[c] < Request[c].segments
    /\ sent' = [sent EXCEPT ![c] = @ + 1]
    /\ unread' = [unread EXCEPT ![c] = @ + 1]
    /\ UNCHANGED <<backlog, peer, connected, left, closed, replied>>

Leave(c) ==
    /\ c \in connected \ (left \cup closed)
    /\ left' = left \cup {c}
    /\ UNCHANGED <<backlog, peer, sent, unread, connected, closed, replied>>

----------------------------------------------------------------------------
\* The calls of the server

\* accept returns s for the client at the head of the listen queue.
AcceptOn(s) ==
    /\ backlog # <<>>
    /\ s \notin Open
    /\ peer' = [peer EXCEPT ![s] = Head(backlog)]
    /\ backlog' = Tail(backlog)
    /\ UNCHANGED <<sent, unread, connected, left, closed, replied>>

\* POSIX: a call that opens a descriptor returns the least free number.
LowestFree(s) == \A r \in Sockets \ Open : s <= r

\* accept fails with ECONNABORTED or WSAECONNRESET: the client at the head of
\* the listen queue reset its connection before it was accepted.
AcceptAborted ==
    /\ backlog # <<>>
    /\ Head(backlog) \in left
    /\ backlog' = Tail(backlog)
    /\ closed' = closed \cup {Head(backlog)}
    /\ UNCHANGED <<peer, sent, unread, connected, left, replied>>

\* recv returns what has arrived on s.
Receive(s) ==
    /\ s \in Open
    /\ unread[peer[s]] > 0
    /\ unread' = [unread EXCEPT ![peer[s]] = 0]
    /\ UNCHANGED <<backlog, peer, sent, connected, left, closed, replied>>

\* recv returns 0 or SOCKET_ERROR: the client closed its end and everything
\* it sent was received, or it reset the connection, or s is not open.
ReceiveFails(s) == s \in Open => peer[s] \in left

\* send on s: it reaches a client that is still there.
SendTo(s) ==
    /\ replied' = replied \cup ({peer[s]} \ (left \cup {NoClient}))
    /\ UNCHANGED <<backlog, peer, sent, unread, connected, left, closed>>

\* The number s is free again, and what had arrived on it is dropped.  To
\* close a number that is not open is an error without effect.
CloseSocket(s) ==
    /\ peer' = [peer EXCEPT ![s] = NoClient]
    /\ closed' = closed \cup ({peer[s]} \ {NoClient})
    /\ unread' = [c \in Clients |-> IF c = peer[s] THEN 0 ELSE unread[c]]
    /\ UNCHANGED <<backlog, sent, connected, left, replied>>

----------------------------------------------------------------------------
ClientStep(c) == Connect(c) \/ SendSegment(c) \/ Leave(c)

\* A client that started a request sends the rest of it, and one whose request
\* never ends leaves in the end.  Nobody has to connect, and a client with a
\* request that ends may wait for the response forever.
ClientFairness ==
    \A c \in Clients :
        /\ WF_connVars(SendSegment(c))
        /\ WF_connVars(Request[c].kind = "endless" /\ Leave(c))
=============================================================================
