SPECIFICATION FairSpec
CONSTANTS
    Conn = {c1, c2}
    NoConn = NoConn
    Worker = {w1, w2}
    Request <- MCRequest
    NoService = NoService
    Methods <- MCMethods
    QueueSize = 1
    MaxRequests = 2
INVARIANTS
    OneOwner
    AnswersInOrder
PROPERTIES
    EveryClientServed
    WorkersEnd
CHECK_DEADLOCK FALSE
