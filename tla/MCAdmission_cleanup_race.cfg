\* The owner extends a share between the cleanup's SELECT and its UPDATE.
SPECIFICATION Spec
CONSTANTS
    ShareIds = {s1}
    Hashes = {}
    NULL = NULL
    Limits = {1}
    Lifetimes = {1}
    MaxTime = 1
    I64Max = 2
    Clients = {a}
    Requests = {}
    Visits = {}
    Updates = {u1}
    Settings <- AnyOffer
    Keep = Keep
    SessionTtl = 1
    MaxCrashes = 0
PROPERTIES
    CleanupRevokesOnlyExpired
