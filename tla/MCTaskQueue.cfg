CONSTANTS
    t1 = t1
    t2 = t2
    c1 = c1
    c2 = c2
    Tasks <- MCTasks
    Clients <- MCClients
    VisibilityTimeout = 2
    GetCount = 1
    MaxTime = 4
SPECIFICATION Spec
SYMMETRY Sym
INVARIANTS
    TypeOK
PROPERTIES
    ExclusiveLease
    ImplementsDelayQueue
