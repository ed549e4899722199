CONSTANTS
    c1 = c1
    c2 = c2
    c3 = c3
    Clients = {c1, c2, c3}
    Sockets = {1, 2}
    Tasks = {1, 2}
    Workers = {w1}
    NoSocket = 0
    NoTask = 0
    NoClient = NoClient
    Request <- MCRequest
    listenSocket = 3
    MAX_EVENTS = 2

SPECIFICATION FairSpec

INVARIANTS NoLostEdge AnswersWhatWasSent
PROPERTIES ArrivedIsHandled

CHECK_DEADLOCK FALSE
