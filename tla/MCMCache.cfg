SPECIFICATION Spec
CONSTANTS
    cp = cp
    dp = dp
    c1 = c1
    c2 = c2
    NoEntry = NoEntry
    Nodes = {cp, dp}
    DataNodes = {dp}
    Callers = {c1, c2}
    NodeOf <- OneNode
    Deletions <- LastDeletes
    MaxVersion = 2
    MaxFaults = 1
    L1TTL = 1
    L2TTL = 2
    MaxLoad = 1
INVARIANTS
    MessagesSuffice
    StaleIsBounded
