CONSTANTS
    c1 = c1
    c2 = c2
    c3 = c3
    Clients = {c1, c2, c3}
    Sockets = {s1, s2}
    NoSocket = NoSocket
    NoClient = NoClient
    Request <- MCRequest
    listenSocket = listenSocket
    FD_SETSIZE = 3

SPECIFICATION FairSpec

INVARIANTS RegisteredOnce AnswersWhatWasSent SpareIsThere
PROPERTIES ClosedUnlessNoSpare
