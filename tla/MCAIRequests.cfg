SPECIFICATION Spec
CONSTANTS
    Request = {c1, c2, c3}
    Local = {local}
    Remote = {remote}
    Sensitive = {c2}
    Streaming = {c3}
    Limits = {1, 2}
    QueueSizes = {1}
    Places <- OnePlace
    MaxRebuilds = 1
    None = None
CHECK_DEADLOCK FALSE
INVARIANTS
    CountersExact
    NobodySleepsBesideAFreeSlot
    PlacesExact
    OnlyOvertakenAtRemote
PROPERTIES
    AdmittedWithinLimits
