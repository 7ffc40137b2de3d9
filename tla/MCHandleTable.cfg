CONSTANTS
    proc1 = proc1
    proc2 = proc2
    pipe = pipe
    timer = timer
    None = None
    Junk = Junk
    Objects <- MCObjects
    Procs <- MCProcs
    LowObjects <- MCLowObjects
    SetHandles <- MCSetHandles
    MIN_HANDLES = 2
    MAX_HANDLES = 16
    DefaultMin = 1
    MaxOpen = 3
SYMMETRY Symmetry
SPECIFICATION Spec
INVARIANTS
    TypeOK
    TablesWellFormed
    LowestDefaultHandle
    RefcountExact
PROPERTIES
    HandlesStable
CHECK_DEADLOCK FALSE
