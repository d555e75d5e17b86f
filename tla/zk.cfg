SPECIFICATION FairSpec
CONSTANTS
    Addr = {a1}
    User = {u}
    Discovery = Discovery
    NoNode = NoNode
    MaxEvents = 2
INVARIANTS
    OpsUsedAlive
PROPERTIES
    WaitersWake
    ListBecomesCurrent
CHECK_DEADLOCK FALSE
