SPECIFICATION FairSpec
CONSTANTS
    Caller = {c1, c2}
    Repository = {r1}
    MaxIds = 2
    MaxGrants = 3
    Free = Free
CHECK_DEADLOCK FALSE
INVARIANTS
    LinksFollowConnection
    StaleTokenOnlyAfterLoss
    StoredCredentialUsable
PROPERTY EveryCallReturns
