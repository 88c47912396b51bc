\* A share whose owner changes its settings while it is downloaded, in and out of
\* a session that outlives its deadline, expires and is cleaned up.
SPECIFICATION Spec
CONSTANTS
    ShareIds = {s1}
    Hashes = {h1}
    NULL = NULL
    Limits = {1, NULL}
    Lifetimes = {1, 2}
    MaxTime = 1
    I64Max = 2
    Clients = {a}
    Requests = {r1, r2}
    Visits = {v1}
    Updates = {u1}
    Settings <- FewSettings
    Keep = Keep
    SessionTtl = 2
    MaxCrashes = 0
SYMMETRY Interchangeable
INVARIANTS
    LateNeverServed
PROPERTIES
    RegistrySpec
    NeverReopened
    OnlyOwnerOverdraws
    DeadlinesAhead
