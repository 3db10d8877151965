SPECIFICATION FairSpec
CONSTANTS
    Opens    = {o1, o2}
    Closes   = {c1, c2}
    Cleans   = {}
    Names    = {m}
    Ids      = {i, j}
    Daemon   = daemon
    None     = none
    Faults   = TRUE
    MayCrash = FALSE
INVARIANTS
    TypeOK
    NoOrphans
    OpenProjectsWhole
    ExitIsClean
PROPERTIES
    ShutdownEnds
