SPECIFICATION Spec
CHECK_DEADLOCK FALSE
CONSTANTS
    r1 = r1
    r2 = r2
    r3 = r3
    e0 = e0
    e1 = e1
    Requests <- MCRequests
    Interfaces <- MCInterfaces
    Plans <- MCPlans
    HasVrf = TRUE
    Timeout = TRUE
    MaxDeaths = 1
INVARIANTS
    InterfacesSurvive
    ConfigIsReal
PROPERTIES
    RequestsEnd
