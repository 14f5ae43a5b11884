SPECIFICATION Spec
CHECK_DEADLOCK FALSE
CONSTANTS
    c1 = c1
    c2 = c2
    Compiles      <- BothCompiles
    Dirs          <- TwoDirs
    Seed          = Seed
    Empty         = Empty
    Missing       = Missing
    NoTree        = NoTree
    GroupOf       <- MCGroupOf
    OnConflict    = "fail"
    MinAgreement  = 100
    MinGold       = 1
    AllowInsufficient = FALSE
    MaxCalls      <- NoLimit
    Worlds        <- BothWorlds
    Allowed       <- UserOnly
    Answers       <- MCAnswers
    MaxConcurrent = 1
PROPERTIES
    HoldoutIsFresh
SYMMETRY Symmetric
