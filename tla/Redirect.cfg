SPECIFICATION Spec
CONSTANTS
    t1 = t1
    t2 = t2
    font = font
    rco = rco
    rcoElsewhere = rcoElsewhere
    codepage = codepage
    plain = plain
    u1 = u1
    u2 = u2
    minus1 = minus1
    Threads <- TwoThreads
    Files <- AllFiles
    Flash <- OnFlash
    Names <- AllNames
    Base <- BaseOf
    ValidType <- HasType
    Named <- HasName
    Font = font
    Uids <- TwoUids
    NoUid = minus1
INVARIANTS
    TypeOK
    BuffersOwned
    DriverMatchesResult
    BlacklistHonoured
PROPERTIES
    KeepsPromise
