SPECIFICATION Spec
CONSTANTS
    Headers <- TwoSections
    Keys <- ThreeKeys
    Slide <- SlidePlugin
    Puts <- TwoKeys
    Values <- SomeValues
    InitialFiles <- AllFiles
    FragileFiles <- AllFiles
    MaxPuts = 2
    MaxFaults = 1
CHECK_DEADLOCK FALSE
INVARIANTS
    RestCopied
