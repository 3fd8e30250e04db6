SPECIFICATION Spec
CONSTANTS
    MaxLoads = 1
    MaxVshStarts = 2
    ProbePolls = 0
    StartPolls = 1
    Results <- OneResult
    Selective = TRUE
CHECK_DEADLOCK FALSE
INVARIANTS
    TypeOK
    StartSnapshotWhole
    EvidenceWhole
