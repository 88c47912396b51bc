\* Calls judged by a stale time, against the sweep.
SPECIFICATION Spec
CONSTANTS
    Calls = {c1, c2, c3, c4}
    Clients = {a, b}
    NULL = NULL
    Window = 3
    MaxRequests = 2
    MaxLag = 1
    MaxTime = 5
SYMMETRY Interchangeable
INVARIANTS
    TypeOK
    WindowBudget
PROPERTIES
    DeniedOnlyWhenFull
