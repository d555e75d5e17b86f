SPECIFICATION FairSpec
CONSTANTS
    Call = {c1, c2}
    Chan = {h1, h2, h3}
    NoCall = NoCall
    NoChan = NoChan
    Addr = {a1}
    MaxRetries = 1
    MaxEvents = 2
INVARIANTS
    AnswerIsOwn
    SuccessIsOnce
    NullOnlyWhenRobbed
PROPERTIES
    EveryCallEnds
CHECK_DEADLOCK FALSE
