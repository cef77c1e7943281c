SPECIFICATION Spec
CONSTANTS
    m1 = m1  m2 = m2
    NoHost = NoHost
    Host = {m1, m2}
    MaxChecks = 2
    MaxFaults = 2
CHECK_DEADLOCK FALSE
INVARIANTS AssertionsHold HealthyLeaderHoldsKey
PROPERTIES EventuallyOneLeader
