CONSTANTS
    u1 = u1
    r1 = r1
    r2 = r2
    m1 = m1
    m2 = m2
    None = None
    Users <- OneUser
    Requests <- OneRequest
    Mutators <- TwoMutators
    MaxMutations = 2
    GatewayCaches = TRUE
SPECIFICATION FairSpec
CHECK_DEADLOCK FALSE
PROPERTIES
    EventuallyFresh
    EventuallyRefused
