SPECIFICATION FairSpec
CONSTANTS
    HostWriters = {v1}
    HelperWriters = {w1, w2}
    MaxHost = 2
    MaxHelper = 2
    MaxId = 2
    MaxEpoch = 2
INVARIANTS
    TypeOK
    BorrowedIsStill
    HoldersAgree
PROPERTIES
    DeadHostReaped
    BorrowDecided
\* Both processes may die.
CHECK_DEADLOCK FALSE
