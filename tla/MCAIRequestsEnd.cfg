SPECIFICATION FairSpec
CONSTANTS
    Request = {c1, c2, c3}
    Local = {local}
    Remote = {remote}
    Sensitive = {c2, c3}
    Streaming = {}
    Limits = {2}
    QueueSizes = {1}
    Places <- OnePlace
    MaxRebuilds = 0
    None = None
CHECK_DEADLOCK FALSE
PROPERTY EveryRequestEnds
