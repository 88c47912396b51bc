\* One download of a folder whose client goes away.
\* Every handler runs once: the system may stop.
CHECK_DEADLOCK FALSE
SPECIFICATION Spec
CONSTANTS
    Uploads = {u1}
    Slots = {e1, e2}
    Deletes = {}
    Fetches = {f1}
    MaxBytes = 2
    MaxChunk = 2
    MaxCrashes = 0
    NULL = NULL
SYMMETRY Interchangeable
INVARIANTS
    ArchivesTemporary
