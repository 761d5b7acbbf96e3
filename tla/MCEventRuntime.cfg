CONSTANTS
    w1 = w1
    w2 = w2
    Workers = {w1, w2}
    Keys = {"k"}
    Setups <- MCSetups
SPECIFICATION Spec
CHECK_DEADLOCK FALSE
INVARIANTS
    WorkDrained
    OnlySuccessIsVisible
    OldSnapshot
    TicksAccounted
PROPERTY RunReturns
