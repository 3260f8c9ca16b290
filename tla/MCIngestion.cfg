CONSTANTS
    e1 = e1
    e2 = e2
    e3 = e3
    m1 = m1
    m2 = m2
    m3 = m3
    l1 = l1
    l2 = l2
    u1 = u1
    NoUnique = NoUnique
    Sync <- OneSync
    Async <- TwoAsync
    Messages <- ThreeMessages
    Of <- TwoAndOne
    Listeners <- TwoListeners
    UniqueIds <- OneId
    Unique <- SharedId
    BatchCount = 2
    MaxFaults = 1
SPECIFICATION BoundedSpec
INVARIANTS
    TypeOK
    AcceptedIsNotLost
    FannedOutOnce
    OneEntryPerMessage
PROPERTIES
    AcceptedIsStored
CHECK_DEADLOCK FALSE
