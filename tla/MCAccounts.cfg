CONSTANTS
    u1 = u1
    u2 = u2
    s1 = s1
    s2 = s2
    w1 = w1
    w2 = w2
    c1 = c1
    Nobody = Nobody
    None = None
    NoValue = NoValue
    Users <- OneUser
    Sessions <- TwoSessions
    Turns <- TwoWorkers
    Jobs <- TwoWorkers
    Requests <- SomeRequests
    Accounts <- SomeAccounts
    WeekDays = 2
    MonthDays = 3
    AuthPage = 1
    PdfLines = 5
    MaxRecords = 3
    MaxTime = 7
    Members <- TwoMembers
    AdminUsers <- OneUser
    Clerks <- TwoWorkers
    Payloads <- SomePayloads
    Lower <- LowerOf
    Malformed <- BadTexts
    MaxUploads = 2
    Clients <- OneClient
    Asked <- AskedPaths
    MaxRetries = 3
    MaxOutages = 1
CHECK_DEADLOCK FALSE
SYMMETRY Symmetry
SPECIFICATION Spec
INVARIANTS
    TypeOK
    OrphansAreExplained
    
    
    PicturesAreKept
    ProxyIsSound
PROPERTIES
    RefusalsAreExplained
