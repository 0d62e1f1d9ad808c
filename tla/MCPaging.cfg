\* Frames from 40 on are beyond the identity map; the records of the boot fit,
\* one more overflows; a destroyed space does not always fit into the stack.
CONSTANTS
    Memories <- MCMemories
    Plans <- MCPlans
    Slots = {s1, s2}
    IdentityEnd = 40
    MaxRecycled = 14
    MaxTracked = 7
    MaxUserPages = 3
    MaxTableFrames = 5
    MaxSpawns = 4
SYMMETRY SlotSymmetry
SPECIFICATION Spec
INVARIANTS
    FramesOwned
    NoSilentLeak
    UserViewExact
    KernelShared
    AuditClean
    CopiesConfined
