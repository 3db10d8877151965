SPECIFICATION Spec
CONSTANTS
    Opens    = {o1, o2}
    Closes   = {c1}
    Cleans   = {k1}
    Names    = {m}
    Ids      = {i, j}
    Daemon   = daemon
    None     = none
    Faults   = FALSE
    MayCrash = TRUE
SYMMETRY Symmetry
INVARIANTS
    OpenProjectsWhole
PROPERTIES
    CleanIsThorough
