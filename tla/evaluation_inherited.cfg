SPECIFICATION Spec
CONSTANTS
    s1 = s1
    s2 = s2
    a1 = a1
    a2 = a2
    n0 = n0
    n1 = n1
    same = same
    earlier = earlier
    good = good
    rash = rash
    linked = linked
    files = files
    bad = bad
    old = old
    Absent = Absent
    Partial = Partial
    Damaged = Damaged
    NoPackage = NoPackage
    NoReport = NoReport
    MaxTests = 2
    MaxFinals = 1
    MaxMishaps = 1
    FallbackLatency = 3
    Objective = "coverage"
    Submissions   <- MCSubmissions
    Contents      <- MCContents
    DraftsOf      <- MCDraftsOf
    Malformed     = {bad}
    Follow        <- MCFollow
    Kept          <- MCKept
    Layers        = {1, 2, 3}
    Manifests     <- MCManifests
    ManifestOf    <- MCManifestOfBehind
    LayerOf       <- MCLayerOf
    EnabledOf     <- MCEnabledOf
    Attempts      = {a1, a2}
    AttemptOf     <- MCAttemptOf
    Snapshots     = {n0, n1}
    SnapshotOf    <- MCSnapshotOf
    Bases         = {same, earlier}
    BaseOf        <- MCBaseEarlier
    BaseArtifacts <- MCBaseArtifacts
    BaselineOf    <- MCBaselineOf
    RowsOf        <- MCRowsOf
    TagsOf        <- MCTagsOf
    LatencyOf     <- MCLatencyOf
    TrialsOf      <- MCTrialsOf
    Healthy       <- MCHealthy
    Req           <- MCReq
INVARIANT UnchangedArtifactsReleasable
CHECK_DEADLOCK FALSE
