SPECIFICATION FairSpec
CONSTANTS
    Starts = {s1, s2}
    Cancels = {c1, c2}
    Others = {o1}
    Nothing = nothing
INVARIANTS
    TypeOK
    OneMutation
    AnsweredOnce
PROPERTIES
    WaiterAnswered
    RequestAnswered
\* Every request is answered and the server stops.
CHECK_DEADLOCK FALSE
