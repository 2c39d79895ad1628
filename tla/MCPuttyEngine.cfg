SPECIFICATION FairSpec
CONSTANTS
    a = a
    b = b
    c = c
    d = d
    Sock <- Sock4
    MayFail = TRUE
    MayListen = TRUE
    MayWait = TRUE
    MaxConnects = 2
INVARIANTS
    RunLIsExpected
    NoDanglingEntries
    CountIsExplained
PROPERTIES
    EndIsReported
CHECK_DEADLOCK FALSE
