CONSTANTS
    Ids = {1, 2, 3}
    Components = {1, 2}
    Values = {0, 1}
    Immediate = TRUE
    MaxUpdates = 4
    MaxEpochs = 2
SPECIFICATION Spec
CHECK_DEADLOCK FALSE
INVARIANTS
    LiveMatchesCommitted
    UpdatesAccounted
