SPECIFICATION Spec
CONSTANTS
    Gateways = {g1, g2}
    Wanted = g1
    Scripts <- mcScripts
    Tries = 2
    MaxLost = 1
    MaxDuplicated = 1
INVARIANTS
    TypeOK SuccessMeansExecuted NothingAfterStop
PROPERTIES
    CommandReturns
CHECK_DEADLOCK FALSE
