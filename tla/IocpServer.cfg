CONSTANTS
    c1 = c1
    c2 = c2
    c3 = c3
    Clients = {c1, c2, c3}
    Sockets = {1, 2, 3}
    NoSocket = 0
    NoClient = NoClient
    Request <- MCRequest
    Workers = {w1, w2}
    IoData = {1, 2, 3}
    NoData = 0
    nPosted = 2

SPECIFICATION FairSpec

INVARIANTS InOnePlace SocketIsItsOwn LostForAReason
PROPERTIES SentIsHandled

CHECK_DEADLOCK FALSE
