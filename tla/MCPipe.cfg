CONSTANTS
    t1 = t1
    t2 = t2
    t3 = t3
    Threads <- MCThreads
    Byte <- MCByte
    MIN_SIZE = 1
    MAX_SIZE = 4
    WriteData <- MCWriteData
    ReadLengths <- MCReadLengths
SYMMETRY Symmetry
SPECIFICATION Spec
INVARIANTS
    TypeOK
    BufferSound
    NoLostWakeup
PROPERTIES
    ImplementsFifo
