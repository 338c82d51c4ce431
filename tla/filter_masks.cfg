SPECIFICATION Spec
CONSTANTS
    AddressBits = 3
    Octet = 4
    None = None
    PortNumbers <- mcFewPorts
    Tried <- mcMasks
INVARIANTS
    MaskSelectsSubnet
CHECK_DEADLOCK FALSE
