SPECIFICATION FairSpec
CHECK_DEADLOCK FALSE
CONSTANTS
    cold     = cold
    compiled = compiled
    Releases <- MCReleases
    LayersOf <- MCLayersOf
    Cached   <- MCCached
    Inputs   <- OneInput
    Versions <- Versions12
    FailureThreshold = 1
    CooldownRequests = 1
    MaxRequests = 2
INVARIANTS
    TypeOK
    AnswersAreOwn
    QueuedIsAuditable
    RecordedIsForgotten
    EvidenceIsTraced
    AnswersAreTraced
    OutageIsBounded
PROPERTIES
    RequestEnds
    RequestsAdvance
