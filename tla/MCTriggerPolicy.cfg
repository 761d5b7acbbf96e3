CONSTANTS
    Ports = {1, 2}
    Policies <- MCPolicies
    Stamps = {1, 2, 4}
    Domains = {steady}
    MaxMessages = 3
    MaxTime = 3
SPECIFICATION Spec
CHECK_DEADLOCK FALSE
INVARIANTS
    MessagesAccounted
    PendingBounded
    InvocationsSound
PROPERTIES
    NothingExpiredOrLate
    BatchWhenDue
