SPECIFICATION ccSpec
CONSTANTS
    p1 = p1  p2 = p2  p3 = p3  v1 = v1
    Caller = {p1, p2, p3, v1}
    IdOf <- MCIdOf
    QueueOf <- MCQueueOf
    Limit <- OneEach
    EvalLimitFromEnv = TRUE
CHECK_DEADLOCK FALSE
INVARIANTS WithinLimit
