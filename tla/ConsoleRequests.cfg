SPECIFICATION Spec
CHECK_DEADLOCK FALSE
CONSTANTS
    c1 = c1
    c2 = c2
    n1 = n1
    n2 = n2
    Consoles <- MCConsoles
    Nodes <- MCNodes
    Scenarios <- MCScenarios
    Mortal <- MCMortal
    Room = 2
INVARIANTS
    PanicsExplained
PROPERTIES
    ArchiveIsWhole
    RequestsEnd
