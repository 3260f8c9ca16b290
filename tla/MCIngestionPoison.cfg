CONSTANTS
    e1 = e1
    e2 = e2
    e3 = e3
    m1 = m1
    m2 = m2
    m3 = m3
    l1 = l1
    l2 = l2
    u1 = u1
    NoUnique = NoUnique
    Sync <- NoEvents
    Async <- ThreeAsync
    Messages <- ThreeMessages
    Of <- OneEach
    Listeners <- OneListener
    UniqueIds <- OneId
    Unique <- SharedId
    BatchCount = 3
    MaxFaults = 0
SPECIFICATION FairSpec
PROPERTIES
    AcceptedIsStored
CHECK_DEADLOCK FALSE
