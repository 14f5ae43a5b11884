SPECIFICATION Spec
CHECK_DEADLOCK FALSE
CONSTANTS
    Submissions   <- ThreeSubmissions
    Versions      <- OneVersion
    Unreadable    <- NoVersions
    Coverages     <- TwoCoverages
    MaxCandidates = 2
    Costs         <- FreeAgent
    CostLimit     = 1
    Linking       = FALSE
    MaxFaults     = 1
INVARIANTS
    SelectedIsUsable
    FeedbackLeakBound
