SPECIFICATION Spec
CONSTANTS
    FrameSize = 256
    MaxAddr = 8191
    MaxAllocRegions = 2
    BootInfoLimit = 3072
    MaxBootInfoSize = 300
    MaxMapRegions = 3
    MaxModules = 1
    MaxEntries = 2
    MaxPathLen = 12
    PageSize = 64
    MaxWord = 4095
    ElfBase = 1024
    ElfEnd = 1408
    MaxProgramHeaders = 3
    MaxLoadSegments = 2
    MaxLoadPages = 5
    TextOffset = 192
    DataOffset = 256
    CodeSize = 40
    MinAllocAddr = 512
    MaxArchiveSize = 1000
    LogSize = 12
    Machines <- MCMachines
CHECK_DEADLOCK FALSE
INVARIANTS
    RegionsSound
    BootMemoryProtected
    ArchiveAccepted
    PlanSound
    LogKeepsNewest
