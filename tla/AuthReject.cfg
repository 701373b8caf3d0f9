SPECIFICATION Spec
CONSTANTS
    ResendTimes = 3
    Aps <- OnlyWrongKey
    SendMayFail = FALSE
    MaxSessions = 1
    MaxOther = 0
INVARIANT RejectedIsNotDone
CHECK_DEADLOCK FALSE
