SPECIFICATION Spec
CONSTANTS
    Servers = {s1}
    Addresses = {a1, a2}
    None = None
    Foreign <- mcOneForeign
    Refusals = TRUE
    MaxLost = 1
    MaxDuplicated = 0
    Hosts = {h1, h2}
    MaxMoves = 1
    MaxArpLost = 1
INVARIANTS
    TypeOK SpeaksForItsLease
PROPERTIES
    GetsThrough
CHECK_DEADLOCK FALSE
