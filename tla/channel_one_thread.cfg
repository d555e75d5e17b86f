SPECIFICATION FairSpec
CONSTANTS
    Coroutine = {c1, c2, c3}
    Thread = {t1}
    Capacity = 1
    MaxItems = 2
PROPERTIES
    CloseReleasesAll
INVARIANTS
    FailedSendNotDelivered
CHECK_DEADLOCK FALSE
