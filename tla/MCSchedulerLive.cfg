CONSTANTS
    t1 = t1
    t2 = t2
    t3 = t3
    t4 = t4
    proc1 = proc1
    proc2 = proc2
    Threads <- MCFourThreads
    Procs <- MCOneProc
    Device = Device
    List = List
    None = None
    MaxHandles = 1
    MaxCreate = 3
SPECIFICATION LiveSpec
CHECK_DEADLOCK FALSE
PROPERTIES
    RunnableRuns
    HaltsAtEnd
