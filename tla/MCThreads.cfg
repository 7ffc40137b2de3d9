CONSTANTS
    t1 = t1
    t2 = t2
    t3 = t3
    v1 = v1
    v2 = v2
    Fresh = Fresh
    None = None
    Tasks <- MCThreadNames
    Contents <- MCContents
    u1 = u1
    u2 = u2
    u3 = u3
    proc1 = proc1
    proc2 = proc2
    NoResult = NoResult
    Users <- MCUsers
    Procs <- MCProcs
    Owner <- MCOwner
    Codes = {0, 1}
SPECIFICATION MCSpec
INVARIANTS
    FpuTyped
    DamageConfined
    CodesSound
    NoneLeftWaiting
SYMMETRY MCSymmetry
CHECK_DEADLOCK FALSE
