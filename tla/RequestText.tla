---------------------------- MODULE RequestText ----------------------------
(***************************************************************************)
(* How include/http/HttpRequest.h reads the text of a request.  A text is  *)
(* a sequence of characters; the words "Content-Length" are one character  *)
(* here, CL, and so is a number.  Positions count from 1, and 0 is what    *)
(* string::find calls npos.                                                *)
(***************************************************************************)
EXTENDS Integers, Sequences, FiniteSetsExt, Functions

CONSTANT Throws    \* the exception of a function that throws

ASSUME ThrowsAssumption == Throws \notin BOOLEAN \cup Int    \* it returns nothing

CR == "CR"
LF == "LF"
SP == " "
CL == "Content-Length"
NUL == "NUL"
CRLF == <<CR, LF>>
EmptyLine == CRLF \o CRLF

\* The value of a character that is a number
Digits == <<"0", "1", "2", "3", "4", "5">>
Numbers == [n \in Range(Digits) |-> (CHOOSE i \in DOMAIN Digits : Digits[i] = n) - 1]

Characters == {CR, LF, SP, CL, NUL, ":", "/", "x"} \cup DOMAIN Numbers

----------------------------------------------------------------------------
\* string::find: where t begins in s, at position from or later.
find(s, t, from) ==
    LET P == {i \in from..(Len(s) - Len(t) + 1) : SubSeq(s, i, i + Len(t) - 1) = t}
    IN  IF P = {} THEN 0 ELSE Min(P)

\* Mutant: the spaces before a value stay.
WithSpaces(s) == s

\* find_first_not_of(' '), and what is left from there.
WithoutSpaces(s) ==
    LET P == {i \in DOMAIN s : s[i] # SP}
    IN  IF P = {} THEN <<>> ELSE SubSeq(s, Min(P), Len(s))

\* stod: the number after the spaces.
stod[s \in Seq(Characters)] ==
    LET t == WithoutSpaces(s)
    IN  IF t # <<>> /\ Head(t) \in DOMAIN Numbers THEN Numbers[Head(t)] ELSE Throws

\* Mutant: no body is waited for.
isAllHeader(s) == find(s, EmptyLine, 1) # 0

\* The body is as long as the first "Content-Length" says, wherever it stands;
\* without one, no body is waited for.
isAllData(s) ==
    LET headerEnd == find(s, EmptyLine, 1)
        name == find(s, <<CL>>, 1)
        start == find(s, <<":">>, name) + 1
        end == find(s, CRLF, start)
        length == stod[SubSeq(s, start, IF end = 0 THEN Len(s) ELSE end - 1)]
    IN  IF headerEnd = 0 THEN FALSE
        ELSE IF name = 0 THEN TRUE
        ELSE IF length = Throws THEN Throws
        ELSE Len(s) - (headerEnd + 3) = length

reqLineToMap(line) ==
    LET first == find(line, <<SP>>, 1)
        second == find(line, <<SP>>, first + 1)
    IN  IF first = 0 \/ second = 0 THEN Throws
        ELSE [method  |-> SubSeq(line, 1, first - 1),
              url     |-> SubSeq(line, first + 1, second - 1),
              version |-> SubSeq(line, second + 1, Len(line))]

\* A header for each line, the last of a name.  A line without a colon takes
\* the one of a line after it, and its value then goes to the end.
reqHeaderToMap[header \in Seq(Characters)] ==
    LET starts == {1} \cup {i + 2 : i \in {j \in 1..(Len(header) - 1) :
                                              SubSeq(header, j, j + 1) = CRLF}}
        middle == [p \in starts |-> find(header, <<":">>, p)]
        end == [p \in starts |-> find(header, CRLF, p)]
        key == [p \in starts |-> SubSeq(header, p, middle[p] - 1)]
        value(p) == WithoutSpaces(SubSeq(header, middle[p] + 1,
                        IF end[p] > middle[p] THEN end[p] - 1 ELSE Len(header)))
    IN  IF \E p \in starts : middle[p] = 0 THEN Throws
        ELSE [k \in Range(key) |-> value(Max({p \in starts : key[p] = k}))]

\* The request line up to the first line end, the headers from there to the
\* empty line after it, the body after the first empty line.
parseRawData(s) ==
    LET headerEnd == find(s, EmptyLine, 1)
        lineEnd == find(s, CRLF, 1)
        end == find(s, EmptyLine, lineEnd + 2)
        line == reqLineToMap(SubSeq(s, 1, lineEnd - 1))
        header == IF end = 0 THEN <<>>
                  ELSE reqHeaderToMap[SubSeq(s, lineEnd + 2, end - 1)]
    IN  IF headerEnd = 0 \/ line = Throws \/ header = Throws THEN Throws
        ELSE [line |-> line, header |-> header,
              body |-> SubSeq(s, headerEnd + 4, Len(s))]
=============================================================================
