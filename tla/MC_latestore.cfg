SPECIFICATION Spec
CONSTANTS
    Names <- MCNames
    Models <- MCModels
    PageSize = 1
    MaxEdits = 0
    MaxFaults = 0
    MaxLate = 1
    MaxDeletes = 0
    MaxOthers = 0
INVARIANTS
    GrantsKept
