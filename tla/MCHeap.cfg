\* Four slots for 24 bytes above the sentinel: the table can be full while the
\* heap is not.  Sizes and alignments leave remainders on both sides of the
\* split limit.
CONSTANTS
    HeapSize = 28
    Sentinel = 4
    CanaryBytes = 2
    MinSplit = 3
    MaxBlocks = 4
    Sizes = {1, 3, 9}
    Aligns = {1, 8}
SPECIFICATION HeapSpec
INVARIANTS
    HeapSound
    DamageContained
