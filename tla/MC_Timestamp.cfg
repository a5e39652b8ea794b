CONSTANTS
    t1 = t1
    t2 = t2
    Threads <- MCThreads2
    MaxTick = 4
    MonotonicClock = TRUE
    None = None

SPECIFICATION Spec
INVARIANTS
    TypeOK
    LatestCoversUpdates
PROPERTY
    ImplementsAtomic
