SPECIFICATION FairSpec
CONSTANTS
    Chan <- OneChan
    SSH1_BUFFER_LIMIT = 1
    MaxSegment = 2
    MaxData = 3
    MaxOpens = 1
PROPERTIES
    DelayedIsProcessed
CHECK_DEADLOCK FALSE
