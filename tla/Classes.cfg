CONSTANTS
    Putters = {p1, p2}
    Getters = {c1, c2}
    Elements = {e1, e2, e3}
    Nothing = Nothing
    Undefined = Undefined
    Free = Free
    Throws = Throws
    BufLen = 8
    Texts <- MCTexts
    Garbage <- MCGarbage

SPECIFICATION ClassSpec

INVARIANTS TypeOK NoLostWakeup FrontIsDefined
INVARIANTS CollectedAsSent RightOutcome PartParsesOrThrows
PROPERTIES ImplementsFifo TakenIfSomeoneWaits ReadToTheEnd
