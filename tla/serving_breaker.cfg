SPECIFICATION Spec
CHECK_DEADLOCK FALSE
CONSTANTS
    cold     = cold
    compiled = compiled
    Releases <- MCReleases
    LayersOf <- MCLayersOf
    Cached   <- MCCached
    Inputs   <- OneInput
    Versions <- Versions12
    FailureThreshold = 1
    CooldownRequests = 1
    MaxRequests = 2
INVARIANT OpenedLayersRest
