SPECIFICATION Spec
CONSTANTS
    QKeys = {1}
    Flows = {f1}
    Filters = {}
    Sizes = {15}
    Configs <- mcDelayConfigs
    Limits = {}
    DefaultLimit = 20
    Garbage = {0}
    MaxTime = 2
    MaxPackets = 1
    MaxDiscs = 1
PROPERTIES
    DelayReleases
CHECK_DEADLOCK FALSE
