SPECIFICATION FairSpec
CONSTANTS
    Stopper = {s1}
    ResendTimes = 3
    SendMayFail = TRUE
    MaxSessions = 2
    MaxOther = 1
INVARIANTS CleanEnd MessagesAccounted FreshMessages DoneMeansAccepted
PROPERTIES AssocEnds ImplementsProcedure
CHECK_DEADLOCK FALSE
