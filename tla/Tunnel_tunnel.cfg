\* Processes come and go, and two status calls overlap.
SPECIFICATION FairSpec
CONSTANTS
    Hostnames = {h1, h2}
    Configured = local
    NULL = NULL
    Polls = {p1, p2}
    BaseDelay = 1
    MaxDelay = 2
    MaxLines = 1
    MaxLost = 1
INVARIANTS
    TypeOK
    ConnectedIsCurrent
PROPERTIES
    ChildReplaced
    Published
    DashboardCatchesUp
