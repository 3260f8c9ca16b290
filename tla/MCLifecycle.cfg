SPECIFICATION MCSpec
CONSTANTS
    Servers = {"admin"}
    Handlers = {h1, h2}
    Flushers = {f1}
    Jobs = {j1}
    PoolSize = 1
    LogSize = 1
    BatchSize = 2
    MaxInflight = 1
    MaxBackground = 1
    MaxTasks = 2
    Commands = {c1, c2, c3}
    Nodes = {n1, n2}
    Latest = 2
CHECK_DEADLOCK FALSE
INVARIANTS
    ServesDefaultWorkspace
    ResourcesOutliveUsers
    HandedOverIsWritten
PROPERTIES
    StopReturns
