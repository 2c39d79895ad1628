SPECIFICATION FairSpec
CONSTANTS
    Chan <- TwoChans
    SSH1_BUFFER_LIMIT = 1
    MaxSegment = 2
    MaxData = 2
    MaxOpens = 2
INVARIANTS
    DataInOrder
    CountIsReasons
    CloseHandshake
PROPERTIES
    FreezeIsLifted
CHECK_DEADLOCK FALSE
