SPECIFICATION FairSpec
CONSTANTS
    Frame = {m, a, b, w}
    Main = m
    Waiter = {w}
    NoFrame = NoFrame
    Careful = TRUE
PROPERTIES
    WaitForEndsAtDeadline
CHECK_DEADLOCK FALSE
