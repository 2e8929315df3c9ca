CONSTANTS
    r1 = r1
    r2 = r2
    s1 = s1
    s2 = s2
    NoState = NoState
    Replicas <- MCReplicas
    States <- MCOneState
    MaxIdx = 2
    MaxBatch = 2
    ListFails = TRUE
    CommitFails = FALSE
SPECIFICATION Spec
SYMMETRY MCSymmetry
INVARIANT
    AckedStateDurable
