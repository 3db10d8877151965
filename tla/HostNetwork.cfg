SPECIFICATION Spec
CONSTANTS
    n1 = n1
    n2 = n2
    b1 = b1
    b2 = b2
    p1 = p1
    p2 = p2
    h1 = h1
    h2 = h2
    MgntNodes  = {n1, n2}
    Bridges    = {b1, b2}
    MgntBridge = mgnt
    Peers      = {p1, p2}
    NodeOf     <- MCNodeOf
    Layouts    <- MCLayouts
    Hosts      = {h1, h2}
    Root       = root
    Other      = other
    None       = none
    MaxLoads   = 2
    MaxRuns    = 2
    Faults     = TRUE
CHECK_DEADLOCK FALSE
INVARIANTS
    RunConnects
    HostIsLeftClean
