SPECIFICATION Spec
CONSTANTS
    Names <- MCNames
    Models <- MCModels
    PageSize = 1
    MaxEdits = 2
    MaxFaults = 1
    MaxLate = 0
    MaxDeletes = 1
    MaxOthers = 0
INVARIANTS
    ModelsChange
    UpToDate
    GrantsKept
PROPERTIES
    ImplementsAccessStore
