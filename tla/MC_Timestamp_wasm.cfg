CONSTANTS
    t1 = t1
    t2 = t2
    Threads <- MCThreads1
    MaxTick = 4
    MonotonicClock = FALSE
    None = None

SPECIFICATION Spec
INVARIANT
    UpdatedReadsSome
