SPECIFICATION FairSpec
CONSTANTS
    Offers <- HardOffers
    Configs <- TwoConfigs
    SequenceMod = 8
    SizeCap = 3
    MaxApp = 2
    MaxSrvData = 1
    MaxRequests = 2
INVARIANTS
    PeersUnderstandEachOther
    RekeyTimerIsSet
PROPERTIES
    ImplementsPacketTransport
    AppIsReceived
    CipherIsAsConfigured
CHECK_DEADLOCK FALSE
