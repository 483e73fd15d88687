CONSTANTS
    u1 = u1
    p1 = p1
    p2 = p2
    t1 = t1
    t2 = t2
    t3 = t3
    None = None
    Users <- OneUser
    Admins <- NoAdmins
    Procs <- TwoProcs
    Tokens <- ThreeTokens
    KeepCurrent = TRUE
SPECIFICATION Spec
SYMMETRY Symmetry
CHECK_DEADLOCK FALSE
INVARIANTS
    TypeOK
    ExchangedIsSpent
    LockoutKillsSessions
    OldPasswordSessions
    NoOrphanTokens
PROPERTIES
    RevocationIsFinal
    LockedOutOnlyShrinks
