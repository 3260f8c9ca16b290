SPECIFICATION FairSpec
CONSTANTS
    Nodes = {gw, cp}
    Gateway = gw
    Router = Router
    Plugins = Plugins
    NoJob = NoJob
    Jobs = {j1, j2}
    MaxVersion = 2
    MaxFaults = 1
INVARIANTS
    TypeOK
    StaleHasCause
PROPERTY
    EventuallyCurrent
