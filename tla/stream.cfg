SPECIFICATION FairSpec
CONSTANTS
    Byte <- MCByte
    Blank = Blank
    MaxMsgs = 2
    MsgLen = 5
    RawMsgs = 2
    InFlight = 2
    Garbage = 0
    BufferSize = {4, 17}
    Chunk = 5
    ReadSizes = {2, 5}
INVARIANTS
    TypeOK
    StreamIntact
    NoRequestDropped
    EndIsReal
PROPERTIES
    EveryRequestServed
CHECK_DEADLOCK FALSE
