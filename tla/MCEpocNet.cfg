SPECIFICATION FairSpec
CONSTANTS
    ssh = ssh
    fwd = fwd
    Sock <- Both
    OobSock <- OnlyFwd
    FwdSock <- OnlyFwd
    BUFFER_GRANULE = 2
    MaxWrite = 2
    MaxRead = 1
INVARIANTS
    StreamIntact
    PeerInOrder
    FreezingLosesNothing
    NoPanic
PROPERTIES
    ImplementsByteStream
    KilledSocketsGo
    WrittenIsReceived
CHECK_DEADLOCK FALSE
