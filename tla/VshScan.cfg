SPECIFICATION FairSpec
CONSTANTS
    v0 = v0
    zero = zero
    lib = lib
    sysmem = sysmem
    nid = nid
    otherNid = otherNid
    stub = stub
    otherStub = otherStub
    Modules <- ModulesMC
    Size = 4
    HeaderWords = 1
    MinWords = 2
    Libraries <- TwoLibraries
    Nids <- TwoNids
    Stubs <- TwoStubs
    TargetStub = stub
    Library = lib
    Nid = nid
    GetModelLibrary = sysmem
    GetModelNids <- ModelNids
    Words = 5
    Predicates <- TwoPredicates
    Target = 0
    Initializer = 2
    Limit = 2
    StateLimit = 1
    Before = 1
    After = 2
    Distance = 2
    Zero = zero
CHECK_DEADLOCK FALSE
INVARIANTS
    TypeOK
    CountsComplete
    PriorityKept
    WindowsClamped
    ImportsGenuine
PROPERTIES
    ReadersEnd
