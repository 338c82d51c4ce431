SPECIFICATION Spec
CONSTANTS
    Sizes <- mcOneByte
    Half = 1048576
    Second = 1000
    Rate = 90
    Burst = 1500
    Garbage = {0}
    Gaps = {10}
    MaxTime = 100
INVARIANTS
    KeepsRate
CHECK_DEADLOCK FALSE
