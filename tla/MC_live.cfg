SPECIFICATION LiveSpec
CONSTANTS
    Specs <- LiveSpecs
    WarehouseNames <- MCNames
    MaxGeneration = 1
    MaxFaults = 0
    MaxLosses = 1
    MaxCrashes = 0
    MaxLag = 1
INVARIANTS
    ReadyIsProvisioned
    StartupOrder
    QuiescentIsSettled
    EnforcementOrder
PROPERTIES
    EventuallySettled
