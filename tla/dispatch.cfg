SPECIFICATION Spec
CONSTANTS
    QKeys = {1}
    Flows = {f1}
    Filters <- mcFilters
    Sizes <- mcSizes
    Configs <- mcConfigs
    Limits = {15}
    DefaultLimit = 20
    Garbage <- mcGarbage
    MaxTime = 2
    MaxPackets = 3
    MaxDiscs = 2
INVARIANTS
    TypeOK Conservation ByteAccounting LimitBound QuotaBound LotteryOnce PopsAPacket WithinMaxDelay ArrivalOrder
CHECK_DEADLOCK FALSE
