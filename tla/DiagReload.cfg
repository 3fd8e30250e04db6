SPECIFICATION FairSpec
CONSTANTS
    MaxLoads = 2
    MaxVshStarts = 0
    ProbePolls = 1
    StartPolls = 0
    Results <- OneResult
    Selective = TRUE
CHECK_DEADLOCK FALSE
INVARIANTS
    ProbeSnapshotWhole
    CheckpointResultReturned
    ProbeSeenCheckpointed
PROPERTIES
    WriterEnds
