SPECIFICATION FairSpec
CONSTANTS
    ResendTimes = 3
    Aps <- AllAps
    SendMayFail = TRUE
    MaxSessions = 2
    MaxOther = 1
INVARIANTS CleanEnd MessagesAccounted FreshMessages DoneMeansAccepted
PROPERTIES AuthEnds ImplementsProcedure
CHECK_DEADLOCK FALSE
