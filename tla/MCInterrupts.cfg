CONSTANTS
    t1 = t1
    t2 = t2
    all = all
    one = one
    Threads <- MCThreads
    Timers <- MCTimers
    WakeupAll <- MCWakeupAll
    DELTA = 2
    Timeouts <- MCTimeouts
    Intervals <- MCIntervals
    Word = 64
    MaxTime = 8
    MaxRaises = 1
    Devices <- MCDevices
    Fake = TRUE
    NoChar = NoChar
SPECIFICATION MCSpec
INVARIANTS
    TimersSound
    NoDrift
    LinesSound
    DecoderSound
PROPERTIES
    IrqReturns
    FreedQuiet
    Served
CHECK_DEADLOCK FALSE
