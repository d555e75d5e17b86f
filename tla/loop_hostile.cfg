SPECIFICATION Spec
CONSTANTS
    Coroutine = {c1, c2, c3}
    Fd = {f1}
    Nobody = Nobody
    MaxId = 5
    MaxTime = 1
    Sharing = TRUE
    Closing = TRUE
    CancellingSleep = TRUE
SYMMETRY Symmetry
INVARIANTS
    NoCallbackForDeadFrame
    AwaiterKnowsItsWait
CHECK_DEADLOCK FALSE
