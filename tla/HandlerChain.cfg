SPECIFICATION FairSpec
CONSTANTS
    Starters = {s1}
    Configs <- AllConfigs
INVARIANTS
    TypeOK
    WholeChainRuns
    NoHandlerTwice
    NoDanglingHandler
    SlidePluginAllOrNone
    PatchesFlushed
PROPERTIES
    ComesUp
    StartsReturn
