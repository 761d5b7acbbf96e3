CONSTANTS
    Channels = {ch1}
    Readers = {1, 2}
    Configs <- ReaderConfigs
    MaxTrackedReaders = 1
    MaxSequence = 3
    MaxDeliveries = 5
SPECIFICATION Spec
CHECK_DEADLOCK FALSE
INVARIANTS
    DeliveredOnceInOrder
    QueueSharing
    QueueConservation
