SPECIFICATION Spec
CONSTANTS
    m1 = m1  m2 = m2  w1 = w1
    Main = {m1}
    Workflow = {w1}
    NoMain = NoMain  FirstLeader = m1
    TriggersOf <- MCTriggersOf
    MaxPublishes = 1
    MaxTerms = 1
    MaxErrors = 1
CHECK_DEADLOCK FALSE
PROPERTIES EveryRequestEnds
