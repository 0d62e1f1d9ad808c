CONSTANTS
    Tasks = {a, b}
    NoTask = NoTask
    MaxEndpoints = 2
    MaxCaps = 3
    QueueDepth = 1
    MaxLineage = 3
    MaxGeneration = 6
    Requests <- MCRequests
SPECIFICATION Spec
ACTION_CONSTRAINT NoWrap
SYMMETRY TaskSymmetry
INVARIANTS
    TablesSound
    ReceiveConfined
    QueuedHandlesLive
PROPERTY RevokedForGood
