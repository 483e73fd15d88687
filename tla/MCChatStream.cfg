CONSTANTS
    r1 = r1
    r2 = r2
    Past = Past
    None = None
    Reqs <- TwoReqs
    Modules = 2
    MaxFaults = 1
    MaxErased = 1
SPECIFICATION Spec
SYMMETRY Symmetry
CHECK_DEADLOCK FALSE
INVARIANTS
    TypeOK
    CancelledLeavesNothing
    OverlapIsExplained
    
    StuckIsExplained
    NeverStuck
