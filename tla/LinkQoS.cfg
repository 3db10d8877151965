SPECIFICATION QosSpec
CONSTANTS
    Files    <- MCFiles
    Asks     <- MCAsks
    SetUp    = setup
    Updates  = {u1, u2}
    MaxMoves = 1
    Nothing  = nothing
    Word     = 1048576
    CallsFail = TRUE
SYMMETRY Symmetry
INVARIANTS
    FlagsAgree
    QdiscsFollowConfig
PROPERTIES
    CheckedLinksWork
