SPECIFICATION Spec
CONSTANTS
    Pool <- SmallPool
    Caller <- User
    Ops <- ConnOps
    TryTimes = 1
    MaxCalls = 2
INVARIANT ConnRequestKept
CHECK_DEADLOCK FALSE
