CONSTANTS
    Tasks = {a, b}
    NoTask = NoTask
    MaxEndpoints = 2
    MaxCaps = 2
    QueueDepth = 1
    MaxLineage = 2
    MaxGeneration = 5
    Requests <- MCRequests
SPECIFICATION Spec
SYMMETRY TaskSymmetry
INVARIANT GenerationsUnique
