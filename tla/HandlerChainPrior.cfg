SPECIFICATION Spec
CONSTANTS
    Starters = {s1}
    Configs <- AllConfigs
INVARIANTS
    PriorAlwaysRuns
