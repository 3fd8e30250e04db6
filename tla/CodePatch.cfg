SPECIFICATION Spec
CONSTANTS
    Firmwares <- ThreeFirmwares
    Addresses <- TwoAddresses
    MaxMissing = 2
    MaxLoads = 2
INVARIANTS
    TypeOK
    CallsArrive
    InitPatched
