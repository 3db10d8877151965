SPECIFICATION Spec
CONSTANTS
    a = a
    b = b
    s = s
    Docker  <- MCDocker
    Ovs     <- MCOvs
    Idx     <- MCIdx
    Links   <- MCLinks
    Files   <- MCFiles
    Launch  <- MCLaunch
    Lingering <- MCLingering
    OvsInst = ovsinst
    Faults  = TRUE
INVARIANTS
    TypeOK
    LinksIntact
    NoLeak
    ClosedClean
PROPERTIES
    ToggleKeepsLinks
    RunIsComplete
