CONSTANTS
    a1 = a1
    a2 = a2
    a3 = a3
    g1 = g1
    q1 = q1
    h1 = h1
    h2 = h2
    NoTask = NoTask
    Tasks <- ThreeTasks
    Producers <- NoProducer
    Requeuers <- OneRequeuer
    Holders <- OneHolder
    RetryLengths <- OneOrTwo
    RequeueJobBatch = 2
    PoolSize = 1
    PoolConcurrency = 2
    MaxFaults = 0
SPECIFICATION Spec
SYMMETRY Sym
INVARIANTS
    RetryChainUnbroken
    ChainIsBounded
CHECK_DEADLOCK FALSE
