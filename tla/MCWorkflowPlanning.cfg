SPECIFICATION Spec
CONSTANTS
    r1 = r1
    r2 = r2
    b1 = b1
    b2 = b2
    i1 = i1
    i2 = i2
    i3 = i3
    i4 = i4
    p1 = p1
    p2 = p2
    p3 = p3
    None = None
    Repo <- PlanningRepo
    Branch <- PlanningBranch
    Issue <- PlanningIssue
    PR <- PlanningPR
    RepoOf <- PlanningRepoOf
    BranchRepo <- PlanningBranchRepo
    DefaultBranch <- PlanningDefaultBranch
SYMMETRY PlanningSymmetry
CHECK_DEADLOCK FALSE
INVARIANTS
    DependenciesAcyclic
    SubIssueTrees
    StartedPrerequisitesDone
    StartedSubIssuesClosed
    ReferencesResolve
PROPERTIES
    StartedDependenciesFrozen
