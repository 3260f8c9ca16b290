CONSTANTS
    c1 = c1
    c2 = c2
    NoEntry = NoEntry
    Callers <- TwoCallers
    MaxVersion = 3
    MaxFaults = 2
SPECIFICATION FairSpec
INVARIANTS
    RTypeOK
    StaleHasCause
PROPERTIES
    EventuallyFresh
