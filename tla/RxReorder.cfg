SPECIFICATION FairSpec
CONSTANTS
    SnMod = 12
    WSize = 4
    NodeNum = 4
    Missing = {0, 3}
    Start = 6
    Skip = {0, 3}
    MaxSent = 14
    MaxConn = 2
    MaxBa = 2
INVARIANTS HeldInWindow PoolSuffices
PROPERTIES DeliveredInOrder DropIsJustified HeldFramesLeave
CHECK_DEADLOCK FALSE
