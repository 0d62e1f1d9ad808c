CONSTANTS
    Tasks = {1, 2}
    NoTask = 0
    QueueCapacity = 2
    Quantum = 2
    StarvationLimit = 5
    MaxTasks = 2
    QueueDepth = 1
    Timeouts = {0, 1}
    NoTimeout = NoTimeout
    MaxTicks = 3
    MixedWaits = FALSE
SPECIFICATION UserSpec
PROPERTY TimedReceiveEnds
CHECK_DEADLOCK FALSE
