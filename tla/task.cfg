SPECIFICATION FairSpec
CONSTANTS
    Frame = {m, a, b, w}
    Main = m
    Waiter = {w}
    NoFrame = NoFrame
    Careful = TRUE
INVARIANTS
    QueuedWhereSuspended
    TimerFrameAlive
    VerdictIsTrue
PROPERTIES
    ParentResumes
CHECK_DEADLOCK FALSE
