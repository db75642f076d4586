SPECIFICATION OutageSpec
CONSTANTS
    Specs <- OutageSpecs
    WarehouseNames <- MCNames
    MaxGeneration = 2
    MaxFaults = 0
    MaxLosses = 1
    MaxCrashes = 1
    MaxLag = 1
INVARIANTS
    ReadyIsComplete
    ReadyIsProvisioned
    QuiescentIsSettled
PROPERTIES
    ReadyGenerationAdvances
    OutageReported
    GenerationObserved
CHECK_DEADLOCK FALSE
