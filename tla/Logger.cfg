CONSTANTS
    Callers = {t1, t2}
    Main = t1
    t_write = t_write
    Nothing = Nothing
    Free = Free
    MaxLogged = 3
    MaxFailures = 1

SPECIFICATION FairSpec

INVARIANTS OnceInOrder FileFollowsConsole
PROPERTIES PutIsPrinted ExitEnds

CHECK_DEADLOCK FALSE
