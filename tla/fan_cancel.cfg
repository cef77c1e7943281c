SPECIFICATION fanSpec
CONSTANTS
    x1 = x1  x2 = x2  y1 = y1  y2 = y2  z1 = z1  X = X  Y = Y  Z = Z
    TestRun = {X, Y, Z}
    Caller = {x1, x2, y1, y2, z1}
    IdOf <- MCIdOf
    QueueOf <- MCQueueOf
    RunOf <- MCRunOf
    Limit <- TwoSlots
    Parallel <- MCParallel
    EvalLimitFromEnv = FALSE
CHECK_DEADLOCK FALSE
INVARIANTS EndedCaseHoldsNothing
