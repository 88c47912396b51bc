\* What becomes of two requests of a session, in and out of time, under fair
\* scheduling.  No symmetry: liveness properties.
SPECIFICATION FairSpec
CONSTANTS
    ShareIds = {s1}
    Hashes = {}
    NULL = NULL
    Limits = {1}
    Lifetimes = {1}
    MaxTime = 1
    I64Max = 2
    Clients = {a}
    Requests = {r1, r2}
    Visits = {v1}
    Updates = {}
    Settings <- AnyOffer
    Keep = Keep
    SessionTtl = 1
    MaxCrashes = 1
PROPERTIES
    BudgetSpec
    PaidSessionGoesOn
    RequestsFinish
    ExpiredSharesRevoked
