SPECIFICATION Spec
CONSTANTS
    m1 = m1  m2 = m2  e1 = e1
    Main = {m1, m2}
    Execution = {e1}
    NoMain = NoMain
    KeepsSuccess = {e1}
    KeepsError = {}
    MayStop = {e1}
    Unstable = {m1}
    BatchSize = 1
    MaxFaults = 1
CHECK_DEADLOCK FALSE
INVARIANTS TypeOK RunAtMostOnce SuccessIsReal LeaderRecovers
PROPERTIES InProgressEnds CallerAnswered
