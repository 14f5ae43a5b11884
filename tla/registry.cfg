SPECIFICATION Spec
CHECK_DEADLOCK FALSE
CONSTANTS
    cold      = cold
    first     = first
    other     = other
    foreign   = foreign
    mine      = mine
    theirs    = theirs
    l1        = l1
    NoRelease = NoRelease
    MaxOperations = 4
    Targets    <- MCTargets
    Releases   <- MCReleases
    Packages   <- MCPackages
    TargetOf   <- MCTargetOf
    ContractOf <- MCContractOf
    PackagesOf <- MCPackagesOf
INVARIANTS
    TypeOK
    OneContract
    StableIsMarked
    SelectionIsSound
PROPERTIES
    KeepsChannelPromise
