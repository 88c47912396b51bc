\* Which requests the per-address budget covers.
SPECIFICATION Spec
CONSTANTS
    Calls = {c1, c2, c3, c4}
    Clients = {a, b}
    NULL = NULL
    Window = 3
    MaxRequests = 2
    MaxLag = 0
    MaxTime = 5
SYMMETRY Interchangeable
INVARIANTS
    ListenerBudget
