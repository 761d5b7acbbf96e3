CONSTANTS
    Workers = {w1}
    Clients = {c1, c2}
    MaxInflight = 0
    QueueCapacity = 1
    MaxCalls = 2
SPECIFICATION FairSpec
CHECK_DEADLOCK FALSE
PROPERTIES
    EveryTaskSettles
    ShutdownReturns
