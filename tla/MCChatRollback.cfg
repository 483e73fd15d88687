CONSTANTS
    r1 = r1
    r2 = r2
    Past = Past
    None = None
    Reqs <- TwoReqs
    Modules = 2
    MaxFaults = 0
    MaxErased = 0
SPECIFICATION Spec
CHECK_DEADLOCK FALSE
PROPERTIES
    RollbackSparesCompleted
