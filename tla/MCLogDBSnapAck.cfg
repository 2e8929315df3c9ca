CONSTANTS
    r1 = r1
    r2 = r2
    s1 = s1
    s2 = s2
    NoState = NoState
    Replicas <- MCOneReplica
    States <- MCOneState
    MaxIdx = 3
    MaxBatch = 1
    ListFails = TRUE
    CommitFails = FALSE
SPECIFICATION MCSaveSnapshotsScanFailsSpec
SYMMETRY MCSymmetry
INVARIANT
    AckedSnapshotDurable
