\* One request with a header of every form.
\* The recipient may be done with its downloads: the system may stop.
CHECK_DEADLOCK FALSE
SPECIFICATION Spec
CONSTANTS
    Bodies = {b1}
    FileLen = 3
    Chunk = 2
    Window = 2
    U64Max = 4
    MaxCrashes = 0
    NULL = NULL
INVARIANTS
    ListsServedWhole
