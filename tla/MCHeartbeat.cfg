CONSTANTS
    OptionalWindow = 2
    MissWindow = 2
    RecoveryWindow = 3
    MaxTime = 9
SPECIFICATION Spec
INVARIANTS NoEarlyTimeout
