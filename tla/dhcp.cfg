SPECIFICATION Spec
CONSTANTS
    Servers = {s1, s2}
    Addresses = {a1, a2}
    None = None
    Foreign <- mcOneForeign
    Refusals = TRUE
    MaxLost = 1
    Limit = 300
    FieldLists <- mcFieldLists
    Beyond <- mcBeyond
    MaxDuplicated = 1
INVARIANTS
    TypeOK  OptionsAreRead
PROPERTIES
    ReleasesItsLease GetsConfigured
CHECK_DEADLOCK FALSE
