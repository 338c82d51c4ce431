SPECIFICATION Spec
CONSTANTS
    QKeys = {1, 2}
    Flows = {f1, f2}
    Filters <- mcTwoFilters
    Sizes = {15}
    Configs <- mcOtherConfigs
    Limits = {}
    DefaultLimit = 20
    Garbage = {0}
    MaxTime = 0
    MaxPackets = 2
    MaxDiscs = 1
INVARIANTS
    IteratorValid
PROPERTIES
    LossyFifoPromise LossyQueueDrains StopJoins
CHECK_DEADLOCK FALSE
