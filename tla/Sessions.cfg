SPECIFICATION Spec
CHECK_DEADLOCK FALSE
CONSTANTS
    Mixes <- MCMixes
    Loads <- MCLoads
    MaxPackets = 3
    Window = 1
    c1 = c1
    c2 = c2
    NoFile = NoFile
    Copies <- MCCopies
    Kinds <- MCKinds
    Fragile <- MCFragile
    Blocks = 2
INVARIANTS
    LittleIsLost
    HangsExplained
    CopyIsExact
    NoTempLeft
    CrashExplained
PROPERTIES
    StreamsInOrder
    DaemonStops
