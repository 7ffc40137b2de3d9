CONSTANTS
    Pages = 6
    Reserved <- MCReserved
    ChunkPages = 2
    MaxRef = 3
    WordBits = 4
    Words = 3
    LowWords = 1
    KernelPage = 10
    PageSize = 2
    MaxEntries = 2
    MaxProtected = 3
    ElfPages = 7
    MaxSections = 3
CHECK_DEADLOCK FALSE
SPECIFICATION MCSpec
INVARIANTS
    CountersSound
    BootSound
    
PROPERTIES
    ImplementsPageCount
