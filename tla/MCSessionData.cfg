CONSTANTS
    w1 = w1
    w2 = w2
    s1 = s1
    s2 = s2
    p1 = p1
    p2 = p2
    u1 = u1
    NoWriter = NoWriter
    NoAdmin = NoAdmin
    None = None
    Null = Null
    Writers <- TwoWorkers
    Questions <- SomeQuestions
    Words <- Few
    ContextWords <- Context
    AnswerWords <- AnswerOf
    KeepRecent = 1
    KeepLong = 2
    ListLimit = 5
    MaxAsked = 3
    Admins <- TwoWorkers
    Versions <- TwoVersions
    MaxEdits = 4
    Reqs <- TwoWorkers
    Sessions <- TwoSessions
    Names <- TwoNames
    Products <- AllProducts
    Works = {1}
    MaxStarts = 4
    MaxDay = 1
    Users <- OneUser
    AdminUsers = {}
    Conversations <- TwoSessions
    Threads <- TwoWorkers
    Features <- AllFeatures
    MaxMessages = 4
CHECK_DEADLOCK FALSE
SYMMETRY Symmetry
SPECIFICATION Spec
INVARIANTS
    TypeOK
    MemoryIsExplained
    AnnotationIsExplained
    ChosenIsServed
    LearningIsExplained
    LessonsAreExplained
    
