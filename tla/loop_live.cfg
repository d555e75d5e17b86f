SPECIFICATION FairSpec
CONSTANTS
    Coroutine = {c1, c2}
    Fd = {f1}
    Nobody = Nobody
    MaxId = 5
    MaxTime = 1
    Sharing = FALSE
    Closing = FALSE
    CancellingSleep = FALSE
PROPERTIES
    ReadyIoResumes
    SleeperWakes
    LoopEnds
CHECK_DEADLOCK FALSE
