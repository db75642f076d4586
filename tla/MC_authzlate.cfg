SPECIFICATION Spec
CONSTANTS
    Names <- MCNames
    Models <- MCModels
    PageSize = 1
    MaxEdits = 1
    MaxFaults = 1
    MaxLate = 1
    MaxDeletes = 1
    MaxOthers = 1
INVARIANTS
    TypeOK
    OneStore
