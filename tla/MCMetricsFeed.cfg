CONSTANTS
    NoOne = NoOne
    Requests = {r1, r2}
    Viewers = {v1, v2, v3}
    MaxClients = 2
    MaxTotal = 3
    MaxInstant = 4

SPECIFICATION Spec

SYMMETRY Interchangeable

INVARIANTS
    TypeOK
    CountersExact
    SnapshotCountsViewer
    RateCountsSinceBase

PROPERTY
    ImplementsPool
