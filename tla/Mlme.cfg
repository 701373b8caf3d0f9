SPECIFICATION FairSpec
CONSTANTS
    Pool <- SmallPool
    Caller <- Users
    Ops <- UserOps
    TryTimes = 2
    MaxCalls = 4
INVARIANTS MessagesAccounted IdleIsClean ConnectFlagIsTrue
PROPERTIES ScanIsReported DisconnectHappens AbortEndsAttempt
CHECK_DEADLOCK FALSE
