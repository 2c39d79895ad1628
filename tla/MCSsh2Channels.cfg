SPECIFICATION FairSpec
CONSTANTS
    Chan <- OneChan
    OUR_V2_WINSIZE = 3
    UINT_MAX = 31
    Windows = {0, 2}
    Leftovers = {0}
    MayBacklog = TRUE
    Replies = {0}
    MaxWindow = 2
    MaxApp = 3
INVARIANTS
    FrozenForAReason
    WindowsAgree
    StreamIntact
    CloseIsLast
    IdIsFree
PROPERTIES
    FrozenAreThawed
    ClosedAreDeleted
    ServerIsFed
