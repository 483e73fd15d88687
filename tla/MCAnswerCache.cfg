CONSTANTS
    c1 = c1
    c2 = c2
    problem = problem
    pattern = pattern
    quiz = quiz
    Teacher = Teacher
    Explainer = Explainer
    Nobody = Nobody
    Callers <- TwoCallers
    Topics <- TwoTopics
    LessonTopics <- AllLessons
    Nested <- OneNested
    Wants <- SomeWants
    MaxEntries = 2
    Ttl = 1
    MaxHttp = 0
    MaxJson = 1
    Models = 1
    MaxNow = 1
    MaxCalls = 4
SYMMETRY Symmetry
CHECK_DEADLOCK FALSE
SPECIFICATION Spec
INVARIANT
    AnswersStayOnTopic
