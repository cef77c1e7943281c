SPECIFICATION Spec
CONSTANTS
    h1 = h1  c1 = c1  pa = pa
    NoParent = NoParent
    ParentOf <- MCParentOf
    MaxAttempts = 2
    Host = {h1}
    Execution = {c1, pa}
    Booting = {h1}
    MayStop = {pa}
    MayFailEarly = {c1}
    MaxTerms = 2
    MaxErrors = 2
    MaxPolls = 1
    MaxStops = 1
CHECK_DEADLOCK FALSE
INVARIANTS TypeOK OneRunAtATime
PROPERTIES DueExecutionsResume ResumedOrExhausted
