SPECIFICATION Spec
CONSTANTS
    Clients = {c1, c2}
    Borrowers = {t1, t2}
    Mutators = {m1, m2}
    Bindings = {b1, b2}
    Holds = {h1, h2, h3}
    NoHold = nohold
    Nobody = nobody
    MaxGeneration = 2
    MaxNesting = 2
INVARIANTS
    BorrowExcludesMutation
    
    ReleasedStaysReleased
PROPERTIES
    BindingKept
\* After a fence and a shutdown nothing is left to do.
CHECK_DEADLOCK FALSE
SYMMETRY Symmetry
