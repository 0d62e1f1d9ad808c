\* The preemptive regime: the clock runs for more than twice the bound on
\* the wait (3 * 2 ticks).
CONSTANTS
    Tasks = {t1, t2, t3, t4}
    NoTask = NoTask
    QueueCapacity = 3
    Quantum = 2
    StarvationLimit = 7
    MaxTicks = 14
SPECIFICATION RegimeSpec
CONSTRAINT TicksBound
INVARIANT WaitBounded
