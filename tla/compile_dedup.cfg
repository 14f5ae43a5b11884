SPECIFICATION Spec
CHECK_DEADLOCK FALSE
CONSTANTS
    Submissions   <- OneSubmission
    Versions      <- TwoVersions
    Unreadable    <- NoVersions
    Coverages     <- OneCoverage
    MaxCandidates = 2
    Costs         <- FreeAgent
    CostLimit     = 1
    Linking       = FALSE
    MaxFaults     = 0
INVARIANTS
    EvaluatedAtMostOnce
