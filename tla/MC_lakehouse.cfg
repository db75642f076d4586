SPECIFICATION Spec
CONSTANTS
    Specs <- MCSpecs
    Installed <- MCInstalled
    MaxEdits = 1
    MaxLosses = 1
    MaxFaults = 1
INVARIANTS
    TypeOK
    StorageReachable
    OneSpec
PROPERTIES
    EventuallyUsable
CHECK_DEADLOCK FALSE
