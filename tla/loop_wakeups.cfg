SPECIFICATION Spec
CONSTANTS
    Coroutine = {c1, c2}
    Fd = {f1, f2}
    Nobody = Nobody
    MaxId = 5
    MaxTime = 1
    Sharing = FALSE
    Closing = FALSE
    CancellingSleep = FALSE
SYMMETRY Symmetry
PROPERTIES
    ImplementsWakeups
    TimersInOrder
INVARIANTS
    TypeOK
    WaitsMatchCallbacks
    SuspendedCanBeWoken
    NoLostEdge
    ExitOnlyWhenIdle
CHECK_DEADLOCK FALSE
