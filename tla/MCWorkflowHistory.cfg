SPECIFICATION Spec
CONSTANTS
    r1 = r1
    r2 = r2
    b1 = b1
    b2 = b2
    i1 = i1
    i2 = i2
    i3 = i3
    i4 = i4
    p1 = p1
    p2 = p2
    p3 = p3
    None = None
    Repo <- HistoryRepo
    Branch <- HistoryBranch
    Issue <- HistoryIssue
    PR <- HistoryPR
    RepoOf <- HistoryRepoOf
    BranchRepo <- HistoryBranchRepo
    DefaultBranch <- HistoryDefaultBranch
CONSTRAINT HistoryBound
SYMMETRY HistorySymmetry
CHECK_DEADLOCK FALSE
INVARIANTS
    TypeOK
    OneActivePullRequest
    DoneIffCompleted
    BranchHistoryChained
PROPERTIES
    HistoryAppendOnly
    ImplementsLifecycle
