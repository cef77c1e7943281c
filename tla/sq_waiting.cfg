SPECIFICATION Spec
CONSTANTS
    m1 = m1  m2 = m2  e1 = e1
    Main = {m1, m2}
    Execution = {e1}
    NoMain = NoMain
    KeepsSuccess = {}
    KeepsError = {}
    MayStop = {}
    Unstable = {}
    BatchSize = 1
    MaxFaults = 0
CHECK_DEADLOCK FALSE
PROPERTIES WaitingKept
