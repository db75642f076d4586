SPECIFICATION Spec
CONSTANTS
    MaxLosses = 1
    MaxRestarts = 1
INVARIANTS
    TypeOK
    TokensSurvive
PROPERTIES
    SecretsKept
    CredentialsAgree
CHECK_DEADLOCK FALSE
