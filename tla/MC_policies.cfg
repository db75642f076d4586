SPECIFICATION Spec
CONSTANTS
    Specs <- NoAuthSpecs
    WarehouseNames <- MCNames
    MaxGeneration = 1
    MaxFaults = 0
    MaxLosses = 0
    MaxCrashes = 0
    MaxLag = 1
INVARIANTS
    ReadyCoversPolicies
