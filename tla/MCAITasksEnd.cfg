SPECIFICATION FairSpec
CONSTANTS
    Task = {t1, t2}
    Limits = {1, 2}
    QueueSizes = {1}
    Turns = 1
    MaxChanges = 1
    MaxRestarts = 1
CHECK_DEADLOCK FALSE
PROPERTY EveryTaskEnds
