CONSTANTS
    p1 = p1
    p2 = p2
    x1 = x1
    Absent = Absent
    Proc <- MCProc
    Content <- MCContent
    Images <- MCImages
    Blocks <- MCBlocks
    Pages = 2
    MaxThreads = 2
    MaxKept = 1
    Room = 2
SPECIFICATION Spec
INVARIANTS
    MappingsSound
    NoSharedWrite
PROPERTY Isolation
SYMMETRY MCSymmetry
VIEW Shape
CONSTRAINT Focus
CHECK_DEADLOCK FALSE
