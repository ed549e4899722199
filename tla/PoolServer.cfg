CONSTANTS
    c1 = c1
    c2 = c2
    c3 = c3
    Clients = {c1, c2, c3}
    Sockets = {s1, s2}
    Tasks = {s1, s2}
    Workers = {w1, w2}
    NoSocket = NoSocket
    NoTask = NoSocket
    NoClient = NoClient
    Request <- MCRequest

SPECIFICATION FairSpec

INVARIANTS OwnedOnce AnswersWhatWasSent CurrentIsExact
PROPERTIES EveryoneIsServed

CHECK_DEADLOCK FALSE
