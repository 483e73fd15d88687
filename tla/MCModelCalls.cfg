CONSTANTS
    c1 = c1
    c2 = c2
    problem = problem
    pattern = pattern
    quiz = quiz
    Teacher = Teacher
    Explainer = Explainer
    Nobody = Nobody
    Callers <- TwoCallers
    Topics <- TwoTopics
    LessonTopics <- OneLesson
    Nested <- OneNested
    Wants <- FewWants
    MaxEntries = 2
    Ttl = 1
    MaxHttp = 1
    MaxJson = 1
    Models = 2
    MaxNow = 1
    MaxCalls = 3
CHECK_DEADLOCK FALSE
SPECIFICATION FairSpec
INVARIANTS
    TypeOK
    CacheIsSound
PROPERTIES
    OtherSectionsKept
    EveryCallEnds
