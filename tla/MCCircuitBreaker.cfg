CONSTANTS
    e1 = e1
    e2 = e2
    e3 = e3
    Events <- ThreeEvents
    Kind <- OneFailure
    Size = 2
    MinuteLen = 2
    HourLen = 4
    StartTime = 3
    MaxTime = 6
    MaxFaults = 1
SPECIFICATION Spec
CONSTRAINT InTime
SYMMETRY Sym
INVARIANTS
    TypeOK
    CountedOnce
    SyncedIsCounted
CHECK_DEADLOCK FALSE
