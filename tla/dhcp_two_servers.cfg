SPECIFICATION Spec
CONSTANTS
    Servers = {s1, s2}
    Addresses = {a1, a2}
    None = None
    Foreign <- mcNoForeign
    Refusals = FALSE
    MaxLost = 0
    Limit = 300
    FieldLists <- mcFieldLists
    Beyond <- mcBeyond
    MaxDuplicated = 0
INVARIANTS
    AddressIsCommitted
CHECK_DEADLOCK FALSE
