SPECIFICATION Spec
CONSTANTS
    Specs <- ModeSpecs
    WarehouseNames <- MCNames
    MaxGeneration = 1
    MaxFaults = 1
    MaxLosses = 0
    MaxCrashes = 0
    MaxLag = 1
INVARIANTS
    TypeOK
    Inv
