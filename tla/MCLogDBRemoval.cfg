CONSTANTS
    r1 = r1
    r2 = r2
    s1 = s1
    s2 = s2
    NoState = NoState
    Replicas <- MCOneReplica
    States <- MCStates
    MaxIdx = 3
    MaxBatch = 1
    ListFails = FALSE
    CommitFails = FALSE
SPECIFICATION Spec
SYMMETRY MCSymmetry
INVARIANT
    AckedStateDurable
