CONSTANTS
    Capacity = 2
    MaxLocalSeq = 7
SPECIFICATION Spec
CHECK_DEADLOCK FALSE
INVARIANTS
    SlotExclusive
    Fifo
    EventsAccounted
