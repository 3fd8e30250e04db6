SPECIFICATION FairSpec
CONSTANTS
    Headers <- TwoSections
    Keys <- ThreeKeys
    Slide <- SlidePlugin
    Puts <- TwoKeys
    Values <- SomeValues
    InitialFiles <- AllFiles
    FragileFiles <- Files
    MaxPuts = 3
    MaxFaults = 1
CHECK_DEADLOCK FALSE
INVARIANTS
    TypeOK
    RescueCopy
PROPERTIES
    KeepsStore
    PutsReturn
