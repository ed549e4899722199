------------------------------ MODULE RecvData ------------------------------
(***************************************************************************)
(* HttpRequest's constructor for a socket: recvData collects what a client *)
(* sends, in pieces of any length up to that of its buffer, until          *)
(* isAllData; then parseRawData takes it apart.  It is the detail behind   *)
(* the segments and kinds of module HttpRequest.                           *)
(*                                                                         *)
(* The client may stop anywhere and close or reset the connection.         *)
(***************************************************************************)
EXTENDS RequestText

CONSTANTS Texts,       \* what a client may send
          BufLen,      \* the length of buf: 1024 in the code
          Garbage      \* what may lie behind buf, up to a byte that is 0

ASSUME RecvDataAssumption ==
    /\ BufLen \in Nat \ {0}
    /\ Texts \subseteq Seq(Characters)
    /\ Garbage \subseteq Seq(Characters)
    /\ <<>> \in Garbage

VARIABLES
    text,        \* what this client sends
    received,    \* how many of its characters recv has returned
    buf,
    data,
    gone,        \* the client closed or reset its end
    at,          \* where the constructor is
    parsed,      \* requestLine, requestHeader and requestBody
    intact       \* no recv filled buf, and no character was NUL

recvVars == <<text, received, buf, data, gone, at, parsed, intact>>

RecvTypeOK ==
    /\ text \in Texts
    /\ received \in 0..Len(text)
    /\ Len(buf) = BufLen /\ buf \in Seq(Characters)
    /\ data \in Seq(Characters)
    /\ gone \in BOOLEAN
    /\ at \in {"recv", "parse", "done", "threw"}
    /\ intact \in BOOLEAN

Zeros == [i \in 1..BufLen |-> NUL]

RecvInit ==
    /\ text \in Texts
    /\ received = 0
    /\ buf = Zeros
    /\ data = <<>>
    /\ gone = FALSE
    /\ at = "recv"
    /\ parsed = Throws
    /\ intact = TRUE

\* The client, with what it sent received.
Leave ==
    /\ at = "recv"
    /\ ~gone
    /\ gone' = TRUE
    /\ UNCHANGED <<text, received, buf, data, at, parsed, intact>>

\* Mutant: buf is not cleared before recv.
KeepBuffer(piece) == [i \in 1..BufLen |-> IF i <= Len(piece) THEN piece[i] ELSE buf[i]]

\* memset, and what recv writes.
FillBuffer(piece) == [i \in 1..BufLen |-> IF i <= Len(piece) THEN piece[i] ELSE NUL]

\* data += buf: the characters before the first NUL, which may be behind buf.
CString(b) ==
    LET P == {i \in DOMAIN b : b[i] = NUL}
    IN  IF P = {} THEN {b \o g : g \in Garbage} ELSE {SubSeq(b, 1, Min(P) - 1)}

\* One round of the loop in which recv returns data.
Recv ==
    /\ at = "recv"
    /\ ~gone
    /\ \E n \in 1..Min({BufLen, Len(text) - received}) :
          LET piece == SubSeq(text, received + 1, received + n) IN
          /\ buf' = FillBuffer(piece)
          /\ received' = received + n
          /\ \E s \in CString(buf') : data' = data \o s
          /\ intact' = (intact /\ n < BufLen /\ \A k \in 1..n : piece[k] # NUL)
    /\ at' = CASE isAllData(data') = Throws -> "threw"
               [] isAllData(data') = TRUE   -> "parse"
               [] OTHER                     -> "recv"
    /\ UNCHANGED <<text, gone, parsed>>

\* Mutant: what recv returned is not looked at.
RecvAgain ==
    /\ at = "recv"
    /\ gone
    /\ buf' = Zeros
    /\ UNCHANGED <<text, received, data, gone, at, parsed, intact>>

\* recv returns 0 or SOCKET_ERROR, and recvData throws.
RecvEnds ==
    /\ at = "recv"
    /\ gone
    /\ buf' = Zeros
    /\ at' = "threw"
    /\ UNCHANGED <<text, received, data, gone, parsed, intact>>

Parse ==
    /\ at = "parse"
    /\ parsed' = parseRawData(data)
    /\ at' = IF parsed' = Throws THEN "threw" ELSE "done"
    /\ UNCHANGED <<text, received, buf, data, gone, intact>>

RecvNext == Leave \/ Recv \/ RecvEnds \/ Parse

RecvSpec == RecvInit /\ [][RecvNext]_recvVars

\* The thread runs; a client that has not left sends the rest of its request.
RecvFairness == WF_recvVars(Recv \/ RecvEnds \/ Parse)

----------------------------------------------------------------------------
\* A text isAllData is meant for: the empty line ends it, or is followed by the
\* body whose length a header before that line gives.
IsRequest(t) ==
    LET headerEnd == find(t, EmptyLine, 1)
        name == find(t, <<CL>>, 1)
        colon == find(t, <<":">>, name)
        end == find(t, CRLF, colon + 1)
    IN  /\ headerEnd # 0
        /\ IF name = 0 THEN Len(t) = headerEnd + 3
           ELSE /\ colon # 0 /\ end # 0 /\ end <= headerEnd
                /\ stod[SubSeq(t, colon + 1, end - 1)] = Len(t) - (headerEnd + 3)

\* Until a recv fills the buffer or brings a NUL, what was collected is what
\* the client sent so far, however it was cut (HttpRequest.h, 82-92; the
\* comment at 67).
CollectedAsSent == RecvTypeOK /\ (intact => data = SubSeq(text, 1, received))

\* However it was cut, a request is not taken for complete before its last
\* character has come, and is then parsed as a whole; and the constructor
\* throws only when the client has left, or when a whole request would not
\* parse either (HttpRequest.h, 82-101, 239-263).
RightOutcome ==
    intact /\ IsRequest(text) =>
        /\ at \in {"parse", "done"} => received = Len(text)
        /\ at = "done" => parsed = parseRawData(text)
        /\ at = "threw" => gone \/ parseRawData(text) = Throws
=============================================================================
