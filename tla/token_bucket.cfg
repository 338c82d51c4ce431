SPECIFICATION Spec
CONSTANTS
    Sizes <- mcSizes
    Half = 8
    Second = 2
    Rate = 3
    Burst = 6
    Garbage <- mcGarbage
    Gaps = {1, 2, 9, 17}
    MaxTime = 30
INVARIANTS
    TypeOK RateBound
CHECK_DEADLOCK FALSE
