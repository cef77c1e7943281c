SPECIFICATION Spec
CONSTANTS
    m1 = m1  m2 = m2  w1 = w1
    Main = {m1, m2}
    Workflow = {w1}
    NoMain = NoMain  FirstLeader = m1
    TriggersOf <- MCTriggersOf
    MaxPublishes = 3
    MaxTerms = 2
    MaxErrors = 1
CHECK_DEADLOCK FALSE
INVARIANTS TypeOK SerializedPerWorkflow SettledIsPublished
PROPERTIES LatestRequestWins ClaimableIsClaimed
