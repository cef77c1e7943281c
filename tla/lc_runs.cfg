SPECIFICATION Spec
CONSTANTS
    e1 = e1  e2 = e2  a2 = a2  a3 = a3  b1 = b1
    NoRun = NoRun
    Caller = {a2, a3, b1}
    FirstRun = {b1}
    MayWait = {e1}
    IdOf <- MCIdOf
    QueueOf <- MCQueueOf
    Limit <- OneSlot
    EvalLimitFromEnv = FALSE
CHECK_DEADLOCK FALSE
INVARIANTS TypeOK OneRunExecutes CapacityAccounted PendingIsQueued SlotHasOwner ThrottledRunHasHolder
PROPERTIES ThrottledRunProceeds
