SPECIFICATION Spec
CONSTANTS
    r1 = r1  q1 = q1  q2 = q2
    Runner = {r1}
    Request = {q1, q2}
    MaxConcurrency = 2
    MaxOffers = 2
    NoRequest = NoRequest
CHECK_DEADLOCK FALSE
INVARIANTS AtMostOnce SettingsFindWaitingTask NothingOfUnknownRunner
PROPERTIES ImplementsTaskCalls EveryCallEnds TasksForgotten
