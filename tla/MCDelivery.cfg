CONSTANTS
    a1 = a1
    a2 = a2
    a3 = a3
    g1 = g1
    q1 = q1
    h1 = h1
    h2 = h2
    NoTask = NoTask
    Tasks <- OneTask
    Producers <- OneProducer
    Requeuers <- OneRequeuer
    Holders <- TwoHolders
    RetryLengths <- OneOrTwo
    RequeueJobBatch = 1
    PoolSize = 1
    PoolConcurrency = 2
    MaxFaults = 1
SPECIFICATION FairSpec
INVARIANTS
    TypeOK
    QueuedIsRecoverable
    PayloadlessIsSettled
    DuplicateHasCause
PROPERTIES
    SettledStaysSettled
    EveryAttemptSettles
CHECK_DEADLOCK FALSE
