SPECIFICATION Spec
CONSTANTS
    Forwardings <- Four
    Repeatable <- TwoOfThem
    Versions <- BothVersions
    MaxSetups = 3
INVARIANTS
    RepliesMatch
    ForwardsAsConfigured
    
CHECK_DEADLOCK FALSE
