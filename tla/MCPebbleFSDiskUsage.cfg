CONSTANTS
    o1 = o1
    o2 = o2
    d1 = d1
    d2 = d2
    n1 = n1
    n2 = n2
    NoOwner = NoOwner
    Owners <- MCOwners
    Dirs <- MCDirs
    Names <- MCNames
    MaxFree = 1
    IOFails = TRUE
SPECIFICATION Spec
SYMMETRY MCSymmetry
INVARIANTS
    DiskUsageAccurate
