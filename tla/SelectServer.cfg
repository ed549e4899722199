CONSTANTS
    c1 = c1
    c2 = c2
    c3 = c3
    Clients = {c1, c2, c3}
    Sockets = {1, 2, 3}
    Tasks = {1, 2, 3}
    Workers = {w1}
    NoSocket = 0
    NoTask = 0
    NoClient = NoClient
    Request <- MCRequest
    listenSocket = 4
    FD_SETSIZE = 3
    MaxSelectErrors = 1

SPECIFICATION FairSpec

INVARIANTS WatchedOrOwned AnswersWhatWasSent
PROPERTIES ListenStaysWatched AcceptedIsClosed

CHECK_DEADLOCK FALSE
