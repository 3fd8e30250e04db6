SPECIFICATION Spec
CONSTANTS
    MaxLoads = 1
    MaxVshStarts = 0
    ProbePolls = 1
    StartPolls = 0
    Results <- TwoResults
    Selective = TRUE
CHECK_DEADLOCK FALSE
INVARIANTS
    DelayedAfterDelay
