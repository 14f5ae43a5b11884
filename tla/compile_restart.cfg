SPECIFICATION FairSpec
CHECK_DEADLOCK FALSE
CONSTANTS
    Submissions   <- OneSubmission
    Versions      <- TwoVersions
    Unreadable    <- SecondVersion
    Coverages     <- OneCoverage
    MaxCandidates = 2
    Costs         <- PaidAgent
    CostLimit     = 1
    Linking       = TRUE
    MaxFaults     = 1
INVARIANTS
    TypeOK
    EvidenceOnDisk
    CloseIsQuiescent
    NothingLeftUnread
PROPERTIES
    PromiseKept
    ClosedStaysClosed
    CostHighWater
    LoopAdvances
    LoopEnds
