\* Four tasks and arrays of three entries: both lists can be full.  The
\* clock runs past the starvation limit.
CONSTANTS
    Tasks = {t1, t2, t3, t4}
    NoTask = NoTask
    QueueCapacity = 3
    Quantum = 2
    StarvationLimit = 3
    MaxTicks = 5
SPECIFICATION SchedSpec
CONSTRAINT TicksBound
INVARIANTS
    OnePlace
    ArraysSound
    GuardNeverReorders
PROPERTY ImplementsRoundRobin
