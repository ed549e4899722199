------------------------------ MODULE MCClasses ------------------------------
(***************************************************************************)
(* The instance that TLC checks of the two classes that work on their own: *)
(* SyncQueue and HttpRequest (RecvData).  They share no state, so there is *)
(* nothing to find in a behaviour with steps of both: each one is of one   *)
(* class.                                                                  *)
(*                                                                         *)
(* SyncQueue: two putters that share three elements, and two getters.  Two *)
(* of each are the fewest with which a getter that was not waiting can     *)
(* take the element a waiting getter was woken for, and with which two     *)
(* puts can meet one waiting getter.                                       *)
(*                                                                         *)
(* HttpRequest: every request of a small set is sent, in every             *)
(* segmentation.  The reference is Render, which writes a request as HTTP  *)
(* has it.                                                                 *)
(***************************************************************************)
EXTENDS SyncQueue, RecvData, SequencesExt

VARIABLE class   \* the class this behaviour is of

ClassInit ==
    /\ Init
    /\ RecvInit
    /\ \/ class = "HttpRequest"
       \/ class = "SyncQueue" /\ text = CHOOSE t \in Texts : TRUE

\* What a constructor that is done leaves to do.
Ended == at \in {"done", "threw"} /\ UNCHANGED recvVars

ClassNext ==
    /\ \/ class = "SyncQueue" /\ Next /\ UNCHANGED recvVars
       \/ class = "HttpRequest" /\ (RecvNext \/ Ended) /\ UNCHANGED vars
    /\ UNCHANGED class

\* Where the class is HttpRequest the fairness of SyncQueue asks for nothing: no
\* thread is inside put or get.
ClassSpec == ClassInit /\ [][ClassNext]_<<vars, recvVars, class>> /\ Fairness

----------------------------------------------------------------------------
\* The texts

\* A header as a client writes it: a name, spaces, a value.
Field(name, spaces, value) ==
    <<name, ":">> \o [i \in 1..spaces |-> SP] \o value \o CRLF

Fields(fields) ==
    FlattenSeq([i \in DOMAIN fields |->
                   Field(fields[i].name, fields[i].spaces, fields[i].value)])

Render(r) ==
    <<"x", SP>> \o r.url \o <<SP, "x">> \o CRLF \o Fields(r.fields) \o CRLF \o r.body

Other == [name |-> "x", spaces |-> 1, value |-> <<"x", ":", "x">>]
Empty == [name |-> "x", spaces |-> 1, value |-> <<>>]
Length(n) == [name |-> CL, spaces |-> 1,
              value |-> <<CHOOSE d \in DOMAIN Numbers : Numbers[d] = n>>]

Urls == {<<"/", "x">>, <<>>}
Bodies == {<<"x">>, <<SP, ":">>, <<CL>>, <<"x">> \o EmptyLine, EmptyLine}

\* Without a body there need not be a length; with one it is given.
Requests ==
    [url : Urls, body : {<<>>},
     fields : {<<>>, <<Other>>, <<Empty, Length(0)>>, <<Length(0)>>}]
    \cup
    UNION {[url : Urls, body : {b},
            fields : {<<Length(Len(b))>>, <<Other, Length(Len(b))>>,
                      <<Length(Len(b)), Empty>>}] : b \in Bodies}

\* What is not a request: one space in the line, a header without a colon.
Malformed ==
    {<<"x", SP, "/">> \o CRLF \o CRLF,
     <<"x", SP, "/", SP, "x">> \o CRLF \o <<"x">> \o CRLF \o CRLF,
     <<"x">> \o CRLF \o <<"x", ":", "x">> \o CRLF \o CRLF}

\* Texts the code does not read as HTTP has them: the words Content-Length in
\* the URL, a body without a length, a body with a NUL in it.
Misread ==
    {Render([url |-> <<"/", CL>>, fields |-> <<Other>>, body |-> <<>>]),
     Render([url |-> <<"/", CL>>, fields |-> <<>>, body |-> <<>>]),
     Render([url |-> <<"/">>, fields |-> <<Other>>, body |-> <<"x", "x">>]),
     Render([url |-> <<"/">>, fields |-> <<Length(3)>>, body |-> <<"x", NUL, "x">>])}

MCTexts == {Render(r) : r \in Requests} \cup Malformed \cup Misread
MCGarbage == {<<>>, <<"x">>}

----------------------------------------------------------------------------
\* The map a request's fields stand for: the last of a name counts.
FieldMap(fields) ==
    [k \in {<<fields[i].name>> : i \in DOMAIN fields} |->
        fields[Max({i \in DOMAIN fields : <<fields[i].name>> = k})].value]

Meaning(r) == [line |-> [method |-> <<"x">>, url |-> r.url, version |-> <<"x">>],
               header |-> FieldMap(r.fields), body |-> r.body]

\* The requests each text may be written from.
Sources == [t \in MCTexts |-> {r \in Requests : Render(r) = t}]

WellFormed == Sources[text] # {}

\* A request as HTTP has it is one isAllData is meant for, and is parsed into
\* the line, headers and body it was made of.  parseRawData on a part of it,
\* which v4 calls on whatever one receive brought, throws until the empty line
\* is there, and gives the line and the headers from then on.  A malformed one
\* is never parsed (HttpRequest.h, 138-219; HttpServer_v4.h, 97-99).
PartParsesOrThrows ==
    intact =>
        /\ text \in Malformed => parseRawData(data) = Throws
        /\ WellFormed => IsRequest(text)
        /\ \A r \in Sources[text] :
              IF find(data, EmptyLine, 1) = 0 THEN parseRawData(data) = Throws
              ELSE /\ parseRawData(data).line = Meaning(r).line
                   /\ parseRawData(data).header = Meaning(r).header
                   /\ received = Len(text) => parseRawData(data).body = Meaning(r).body

\* The loop ends, if the thread runs and a client that has not left sends the
\* rest: with the request, or with an exception once the client has left.  It
\* may wait for good only if the buffer was filled, or for a text that is misread
\* (HttpRequest.h, 82-101).
ReadToTheEnd ==
    class = "HttpRequest" /\ RecvFairness =>
        <>(at \in {"done", "threw"} \/ ~intact \/ text \in Misread)
=============================================================================
