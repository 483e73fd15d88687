CONSTANTS
    u1 = u1
    p1 = p1
    p2 = p2
    r1 = r1
    v1 = v1
    v2 = v2
    None = None
    Users <- OneUser
    Procs <- TwoProcs
    ResetLinks <- OneResetLink
    VerifyLinks <- TwoVerifyLinks
SPECIFICATION Spec
SYMMETRY Symmetry
CHECK_DEADLOCK FALSE
INVARIANTS
    TypeOK
    OneOpenLink
PROPERTIES
    ResetIsOneTime
    UsedLinksAdmitNobody
