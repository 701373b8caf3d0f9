SPECIFICATION FairSpec
CONSTANTS
    Stopper = {s1}
    MaxCh = 2
    ProbeTimes = 1
    PauseEvery = 2
    BuddyAp = TRUE
    HwMayFail = TRUE
    MaxScans = 2
    MaxOther = 1
INVARIANTS CleanEnd MessagesAccounted ChipScansUnderLock
PROPERTIES RequestKeptUnderLock ScanEnds ImplementsProcedure
CHECK_DEADLOCK FALSE
