CONSTANTS
    c1 = c1
    c2 = c2
    c3 = c3
    Clients = {c1, c2, c3}
    Sockets = {1, 2}
    NoSocket = 0
    NoClient = NoClient
    Request <- MCRequest
    Threads = {1, 2, 3, 4}
    MaxAcceptErrors = 1

SPECIFICATION FairSpec

INVARIANTS LeakedOnlyByException CountersAreExact RecordedOnce
PROPERTIES GoodIsAnswered

CHECK_DEADLOCK FALSE
