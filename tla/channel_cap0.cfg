SPECIFICATION Spec
CONSTANTS
    Coroutine = {c1, c2, c3}
    Thread = {t1, t2}
    Capacity = 0
    MaxItems = 3
SYMMETRY Symmetry
PROPERTIES
    ImplementsPool
INVARIANTS
    SendMeetsReceiver
CHECK_DEADLOCK FALSE
