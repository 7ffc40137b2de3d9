CONSTANTS
    o1 = o1
    o2 = o2
    o3 = o3
    Owners <- MCOwners
    Buckets <- MCBuckets
    Lengths <- MCLengths
    Pages = 4
    PageUnits = 7
SYMMETRY MCSymmetry
SPECIFICATION Spec
INVARIANTS
    HeapSound
    DataIntact
