SPECIFICATION Spec
CONSTANTS
    Hosts = {h1, h2}
    RouteWorker = rw
    StartupWorker = sw
    IoThread = io
    Nobody = nobody
    Routes = {r1, r2}
    Startups = {a1}
    MaxEpoch = 2
    MaxDepth = 2
    MaxCallbacks = 1
SYMMETRY Symmetry
INVARIANTS
    TerminalAlone
    NoStaleStart
    ReservationsExact
PROPERTIES
    ImplementsGate
\* Every start is served and the epoch reaches its bound.
CHECK_DEADLOCK FALSE
