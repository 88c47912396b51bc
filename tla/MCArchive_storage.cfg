\* An upload, a download of it, two deletes and a restart.
\* No symmetry: a liveness property.
\* Every handler runs once: the system may stop.
CHECK_DEADLOCK FALSE
SPECIFICATION FairSpec
CONSTANTS
    Uploads = {u1}
    Slots = {e1, e2}
    Deletes = {d1, d2}
    Fetches = {f1}
    MaxBytes = 2
    MaxChunk = 2
    MaxCrashes = 1
    NULL = NULL
INVARIANTS
    TypeOK
    StoredWhole
    WithinLimit
    NothingLeftBehind
    ServedWhole
    ArchivesOwned
PROPERTIES
    DeletedGone
