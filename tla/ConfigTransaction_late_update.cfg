CONSTANTS
    Ids = {1, 2}
    Components = {1, 2}
    Values = {0, 1}
    Immediate = FALSE
    MaxUpdates = 3
    MaxEpochs = 2
SPECIFICATION Spec
CHECK_DEADLOCK FALSE
INVARIANT OnlyAppliedIsCommitted
