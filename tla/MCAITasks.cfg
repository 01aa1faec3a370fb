SPECIFICATION Spec
CONSTANTS
    Task = {t1, t2, t3}
    Limits = {1, 2}
    QueueSizes = {0, 2}
    Turns = 1
    MaxChanges = 1
    MaxRestarts = 1
SYMMETRY TaskSymmetry
CHECK_DEADLOCK FALSE
INVARIANTS
    QueueMatchesStatus
    NoIdleCapacity
    AcceptedIsSaved
PROPERTIES
    StartsInOrderWithinLimit
    FinishedForGood
