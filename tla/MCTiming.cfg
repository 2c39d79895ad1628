SPECIFICATION FairSpec
CONSTANTS
    term = term
    ssh = ssh
    Ctx <- BothCtx
    Half = 17
    Delays <- ShortDelays
    MaxAfter = 3
    MaxEarly = 1
    MaxLate = 1
    MaxIdle = 2
    MaxTimers = 2
    CanReuse = FALSE
INVARIANTS
    TimersAreAhead
    FrontEndKnows
    NoTimerIsLost
    AnnulledNeverRuns
PROPERTIES
    TimersRun
CHECK_DEADLOCK FALSE
