---------------------------- MODULE HttpRequest ----------------------------
(***************************************************************************)
(* What include/http/HttpRequest.h makes of the segments of a request: the *)
(* test for completeness recvData repeats after every recv, and whether    *)
(* the constructor then throws.  The text of a request is abstracted to    *)
(* its kind and the number of its segments (see Connections).              *)
(***************************************************************************)
EXTENDS Connections

\* Mutant: whatever came first is taken for all.
isAnyData(c, n) == Request[c].kind # "endless" /\ n > 0

\* After n segments of c's request: the empty line has come, and the body has
\* exactly the length that Content-Length gives, if it is there.
isAllData(c, n) == Request[c].kind # "endless" /\ n = Request[c].segments

\* The request line, or a header, is not as reqLineToMap or reqHeaderToMap
\* expect it.
parseRawDataThrows(c) == Request[c].kind = "bad"
=============================================================================
