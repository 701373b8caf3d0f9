SPECIFICATION FairSpec
CONSTANTS
    Pool <- SmallPool
    Caller <- Users
    Ops <- DownOps
    TryTimes = 1
    MaxCalls = 4
INVARIANTS IdleIsClean ConnectFlagIsTrue
PROPERTY AbortIsHeard
CHECK_DEADLOCK FALSE
