CONSTANTS
    Requests <- MCRequests
    Handler = {h1, h2}
    Refresh = {f1, f2}
    Limit = 1
    MaxFailures = 1

SPECIFICATION FairSpec

INVARIANTS
    TypeOK
    PointsHaveNode
    AcceptedIsStored

PROPERTIES
    ImplementsIngest
    DashboardCatchesUp
