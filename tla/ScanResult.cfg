SPECIFICATION Spec
CONSTANTS
    Stopper = {s1}
    MaxCh = 2
    ProbeTimes = 1
    PauseEvery = 2
    BuddyAp = TRUE
    HwMayFail = FALSE
    MaxScans = 2
    MaxOther = 1
INVARIANT ResultIsVerdict
CHECK_DEADLOCK FALSE
