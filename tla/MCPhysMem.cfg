\* The stack of recycled frames is smaller than the memory: frees are refused.
CONSTANTS
    Regions <- MCRegions
    MaxRecycled = 3
SPECIFICATION FramesSpec
INVARIANTS
    FramesAccounted
