SPECIFICATION Spec
CONSTANTS
    Chan <- OneChan
    OUR_V2_WINSIZE = 4
    UINT_MAX = 31
    Windows = {0, 2}
    Leftovers = {0, 1}
    MayBacklog = FALSE
    Replies = {0}
    MaxWindow = 2
    MaxApp = 3
INVARIANTS
    StreamIntact
