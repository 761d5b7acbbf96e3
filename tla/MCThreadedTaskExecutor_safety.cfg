CONSTANTS
    Workers = {w1, w2, w3}
    Clients = {c1, c2}
    MaxInflight = 2
    QueueCapacity = 1
    MaxCalls = 2
SPECIFICATION Spec
SYMMETRY ThreadSymmetry
CHECK_DEADLOCK FALSE
INVARIANTS
    PoolBounded
    CountersBalance
    TasksSettleOnce
    WorkWakeupNotLost
    JoinedMeansSettled
PROPERTY ImplementsPool
