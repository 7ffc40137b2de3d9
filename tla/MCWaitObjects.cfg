CONSTANTS
    t1 = t1
    t2 = t2
    t3 = t3
    s1 = s1
    s2 = s2
    x1 = x1
    x2 = x2
    all = all
    one = one
    None = None
    Threads <- MCThreads
    Sems <- MCSems
    Subs <- MCSubs
    Events <- MCEvents
    WakeupAll <- MCWakeupAll
    MaxValue = 1
SYMMETRY Symmetry
VIEW Observed
SPECIFICATION Spec
INVARIANTS
    QueuesSound
    WaitsArmed
    NestingSafe
CHECK_DEADLOCK FALSE
