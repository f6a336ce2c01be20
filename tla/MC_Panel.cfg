CONSTANTS
    u1 = u1
    u2 = u2
    s1 = s1
    n1 = n1
    n2 = n2
    None = None
    Users <- MCUsers
    Servers <- MCServers
    Names <- MCNames
    Reqs <- MCReqs
    MaxConnections = 1
    RateCount = 1
    PanelScenarios <- MCScenarios
SPECIFICATION PanelSpec
CHECK_DEADLOCK FALSE
INVARIANTS SelfServiceKept 
PROPERTIES DeletedRowsLeaveNoClient ReconcileExact RequestsEnd
