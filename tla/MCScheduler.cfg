CONSTANTS
    t1 = t1
    t2 = t2
    t3 = t3
    t4 = t4
    proc1 = proc1
    proc2 = proc2
    Threads <- MCThreads
    Procs <- MCProcs
    Device = Device
    List = List
    None = None
    MaxHandles = 2
    MaxCreate = 3
SPECIFICATION Spec
CHECK_DEADLOCK FALSE
SYMMETRY Names
INVARIANTS
    ListsSound
    RefsExact
    AssertionsHold
