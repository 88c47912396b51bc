\* Two responses in parallel or one after the other, and a restart.
\* The recipient may be done with its downloads: the system may stop.
CHECK_DEADLOCK FALSE
SPECIFICATION FairSpec
CONSTANTS
    Bodies = {b1, b2}
    FileLen = 3
    Chunk = 2
    Window = 2
    U64Max = 4
    MaxCrashes = 1
    NULL = NULL
INVARIANTS
    TypeOK
    RangeAnswered
    EventsExact
    CopyFaithful
PROPERTIES
    TransfersSettle
