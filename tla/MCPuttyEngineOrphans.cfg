SPECIFICATION FairSpec
CONSTANTS
    a = a
    b = b
    c = c
    d = d
    Sock <- Sock4
    MayFail = FALSE
    MayListen = TRUE
    MayWait = FALSE
    MaxConnects = 1
PROPERTIES
    ClosedIsReported
CHECK_DEADLOCK FALSE
