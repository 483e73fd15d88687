CONSTANTS
    u1 = u1
    r1 = r1
    r2 = r2
    m1 = m1
    m2 = m2
    None = None
    Users <- OneUser
    Requests <- TwoRequests
    Mutators <- TwoMutators
    MaxMutations = 2
    GatewayCaches = FALSE
SPECIFICATION Spec
SYMMETRY Symmetry
CHECK_DEADLOCK FALSE
INVARIANTS
    TypeOK
    StaleIsExplained
    OwedDenialExplained
