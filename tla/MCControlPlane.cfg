SPECIFICATION Spec
CONSTANTS
    w1 = w1
    w2 = w2
    e1 = e1
    e2 = e2
    s1 = s1
    p1 = p1
    n1 = n1
    Default = Default
    Null = Null
    NoRow = NoRow
    Gone = Gone
    Ids = {w1, w2, e1, e2, s1, p1}
    TableOf <- TableOfIds
    Names = {n1}
    Configs <- SomeConfigs
    InitialRows <- SomeRows
    Clients = {c1, c2}
    Detectors = {d1, d2}
    MaxRequests = 3
    MaxFaults = 1
CHECK_DEADLOCK FALSE
SYMMETRY Symmetry
INVARIANTS
    SyncIsExact
    DefaultWorkspaceRemains
    DisableReportedOnce
PROPERTIES
    WorkspaceIsolation
    ReenabledOnPurpose
