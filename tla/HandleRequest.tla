--------------------------- MODULE HandleRequest ---------------------------
(***************************************************************************)
(* The task of the pooled servers: HttpResponse::HandleRequest, run by a   *)
(* worker of ThreadPool on a connection of Connections.  It receives until *)
(* the request is complete, parses it, sends the response, and then, after *)
(* an exception too, closes the socket and calls the server's callback.    *)
(*                                                                         *)
(* The sockets block: recv waits for data or for the client to go.         *)
(***************************************************************************)
EXTENDS HttpRequest, ThreadPool

VARIABLES
    step,      \* step[w]: where worker w is in HandleRequest
    data       \* data[w]: how much of the request its recvData has

requestVars == <<step, data>>

RequestTypeOK ==
    /\ step \in [Workers -> {"idle", "recv", "send", "close", "callback",
                             "respond"}]
    /\ data \in [Workers -> Nat]

RequestInit ==
    /\ step = [w \in Workers |-> "idle"]
    /\ data = [w \in Workers |-> 0]

Goto(w, next) == step' = [step EXCEPT ![w] = next]

----------------------------------------------------------------------------
\* A worker takes a task, and starts to receive.
Take(w) ==
    /\ GetTask(w)
    /\ Goto(w, "recv")
    /\ UNCHANGED <<data, connVars>>

\* The task is over, and its local variables are gone.
Finish(w) ==
    /\ TaskEnds(w)
    /\ Goto(w, "idle")
    /\ data' = [data EXCEPT ![w] = 0]
    /\ UNCHANGED connVars

\* recv returns data.  When it completes the request parseRawData runs, and
\* throws on a bad one.
Recv(w) ==
    LET s == task[w] c == peer[s] IN
    /\ step[w] = "recv"
    /\ Receive(s)
    /\ data' = [data EXCEPT ![w] = @ + unread[c]]
    /\ Goto(w, IF ~isAllData(c, data'[w]) THEN "recv"
               ELSE IF parseRawDataThrows(c) THEN "close" ELSE "send")
    /\ UNCHANGED poolVars

\* recv returns 0 or an error, and recvData throws.
RecvThrows(w) ==
    /\ step[w] = "recv"
    /\ ReceiveFails(task[w])
    /\ Goto(w, "close")
    /\ UNCHANGED <<data, connVars, poolVars>>

\* httpSend of handleGet or handlePost: one response, 404 pages included.
Send(w) ==
    /\ step[w] = "send"
    /\ SendTo(task[w])
    /\ Goto(w, "close")
    /\ UNCHANGED <<data, poolVars>>

\* Mutant: the socket is closed only when nothing was thrown.
CloseIfSent(w) ==
    /\ step[w] = "close"
    /\ IF peer[task[w]] \in replied
       THEN CloseSocket(task[w]) ELSE UNCHANGED connVars
    /\ Goto(w, "callback")
    /\ UNCHANGED <<data, poolVars>>

\* closeSocket(client)
Close(w) ==
    /\ step[w] = "close"
    /\ CloseSocket(task[w])
    /\ Goto(w, "callback")
    /\ UNCHANGED <<data, poolVars>>

\* The steps of HandleRequest up to the callback.
Handle(w) == Recv(w) \/ RecvThrows(w) \/ Send(w) \/ Close(w)

----------------------------------------------------------------------------
\* What a worker has collected is all that the client it is connected with sent
\* but for what has not been received yet, although socket numbers are used
\* again; and only a good request that was received to its end is answered
\* (HttpRequest.h, 67-105; HttpResponse.h, 203-213).
AnswersWhatWasSent ==
    /\ \A w \in Workers : step[w] = "recv" /\ task[w] \in Open =>
          LET c == peer[task[w]] IN data[w] + unread[c] = sent[c]
    /\ \A c \in replied :
          Request[c].kind = "good" /\ sent[c] = Request[c].segments /\ unread[c] = 0
=============================================================================
