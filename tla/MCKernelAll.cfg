\* Four identifiers for three slots, so that a slot is reused.
CONSTANTS
    Tasks = {1, 2, 3, 4}
    NoTask = 0
    QueueCapacity = 3
    Quantum = 2
    StarvationLimit = 5
    MaxTasks = 3
    QueueDepth = 1
    Timeouts = {0, 1}
    NoTimeout = NoTimeout
    MaxTicks = 3
    LivesTicks = 2
    MixedWaits = FALSE
SPECIFICATION MCSpec
INVARIANTS
    Consistent
    NoStaleWait
    NoLostWakeup
    DeadlinesKept
    MessageAwaitsRestart
    NoForgottenParent
    NoEndpointLeak
\* Clock and identifiers are bounded.
CHECK_DEADLOCK FALSE
