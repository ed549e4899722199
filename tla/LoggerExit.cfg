CONSTANTS
    Callers = {t1, t2}
    Main = t1
    t_write = t_write
    Nothing = Nothing
    Free = Free
    MaxLogged = 3
    MaxFailures = 1

SPECIFICATION Spec

INVARIANT AllPrintedAtExit

CHECK_DEADLOCK FALSE
