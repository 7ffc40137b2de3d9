CONSTANTS
    Opened <- MCOpened
    Byte <- MCByte
    Zero = 0
    Junk = 99
    Static <- MCStatic
    Mod = 16
    MaxPos = 4
    MaxLen = 2
    MaxSize = 5
    na = na
    nb = nb
    na0 = na0
    root = root
    n1 = n1
    n2 = n2
    None = None
    Dangling = Dangling
    MaxHeld = 2
SPECIFICATION MCSpec
INVARIANTS
    ContentSound
    TreeKept
PROPERTY ImplementsPlainFile
SYMMETRY MCSymmetry
VIEW Observed
CHECK_DEADLOCK FALSE
