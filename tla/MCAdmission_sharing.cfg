\* Two shares, two clients that may use each other's cookies, and a restart:
\* who pays, and how often.
SPECIFICATION Spec
CONSTANTS
    ShareIds = {s1, s2}
    Hashes = {}
    NULL = NULL
    Limits = {2}
    Lifetimes = {1}
    MaxTime = 0
    I64Max = 2
    Clients = {a, b}
    Requests = {r1, r2}
    Visits = {v1}
    Updates = {}
    Settings <- AnyOffer
    Keep = Keep
    SessionTtl = 1
    MaxCrashes = 1
SYMMETRY Interchangeable
INVARIANTS
    TypeOK
    ServedIsPaid
    MutexHeldInClaim
    OneChargePerSession
    CountMatchesCharges
