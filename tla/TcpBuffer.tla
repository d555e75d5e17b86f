----------------------------- MODULE TcpBuffer -----------------------------
(***************************************************************************)
(* The buffer of a stream (src/tcp_buffer.cc): a vector with a read and a  *)
(* write index.  What lies before the read index has been read; what lies  *)
(* behind the write index is stale: bytes that were there before, since    *)
(* only growing makes a new vector.                                        *)
(***************************************************************************)
EXTENDS Integers, Sequences

CONSTANTS
    Byte,       \* what a place of the buffer may hold
    Blank       \* what a new vector holds

ASSUME BlankAssumption == Blank \in Byte

IsBuffer(b) ==
    /\ b = [size |-> b.size, r |-> b.r, w |-> b.w, bytes |-> b.bytes]
    /\ b.size \in Nat /\ b.r \in Nat /\ b.w \in Nat
    /\ b.r <= b.w /\ b.w <= b.size
    /\ b.bytes \in [0 .. b.size - 1 -> Byte]

NewBuffer(size) ==
    [size |-> size, r |-> 0, w |-> 0, bytes |-> [k \in 0 .. size - 1 |-> Blank]]

ReadAble(b) == b.w - b.r
WriteAble(b) == b.size - b.w

\* The unread bytes.
Contents(b) == [k \in 1 .. ReadAble(b) |-> b.bytes[b.r + k - 1]]

\* resizeBuffer(): a larger vector, the unread bytes at its front.
Resize(b, newSize) ==
    IF newSize <= b.size THEN b
    ELSE [size  |-> newSize, r |-> 0, w |-> ReadAble(b),
          bytes |-> [k \in 0 .. newSize - 1 |->
                        IF k < ReadAble(b) THEN b.bytes[b.r + k] ELSE Blank]]

\* Mutant: an empty buffer is not rewound.
AdjustLeavingEmpty(b) ==
    IF b.r < b.size \div 3 \/ ReadAble(b) = 0 THEN b
    ELSE [size  |-> b.size, r |-> 0, w |-> ReadAble(b),
          bytes |-> [k \in 0 .. b.size - 1 |->
                        IF k < ReadAble(b) THEN b.bytes[b.r + k]
                        ELSE b.bytes[k]]]

\* Mutant: the bytes stay where they are.
AdjustIndicesOnly(b) ==
    IF b.r < b.size \div 3 THEN b
    ELSE [size |-> b.size, r |-> 0, w |-> ReadAble(b), bytes |-> b.bytes]

\* adjustBuffer(): once a third has been read, the rest moves to the front.
Adjust(b) ==
    IF b.r < b.size \div 3 THEN b
    ELSE [size  |-> b.size, r |-> 0, w |-> ReadAble(b),
          bytes |-> [k \in 0 .. b.size - 1 |->
                        IF k < ReadAble(b) THEN b.bytes[b.r + k]
                        ELSE b.bytes[k]]]

\* moveReadIndex() and moveWriteIndex() compare with the size of the vector.
MoveRead(b, n) ==
    IF b.r + n > b.size THEN b
    ELSE Adjust([size |-> b.size, r |-> b.r + n, w |-> b.w, bytes |-> b.bytes])

MoveWrite(b, n) ==
    IF b.w + n > b.size THEN b
    ELSE Adjust([size |-> b.size, r |-> b.r, w |-> b.w + n, bytes |-> b.bytes])

\* Bytes put behind the write index.
Put(b, s) ==
    [size  |-> b.size, r |-> b.r, w |-> b.w,
     bytes |-> [k \in 0 .. b.size - 1 |->
                   IF b.w <= k /\ k < b.w + Len(s) THEN s[k - b.w + 1]
                   ELSE b.bytes[k]]]

\* recv() into writeableHead(), then moveWriteIndex().
Receive(b, s) == MoveWrite(Put(b, s), Len(s))

\* Mutant: room for the new bytes alone.
MakeRoomForNew(b, n) ==
    IF n > WriteAble(b) THEN Resize(b, (n * 3) \div 2) ELSE b

\* Room for n more bytes, and half as much again.
MakeRoom(b, n) ==
    IF n > WriteAble(b) THEN Resize(b, ((b.w + n) * 3) \div 2) ELSE b

\* writeToBuffer(), which does not adjust.
Write(b, s) ==
    LET c == Put(MakeRoom(b, Len(s)), s)
    IN  [size |-> c.size, r |-> c.r, w |-> c.w + Len(s), bytes |-> c.bytes]

\* readFromBuffer(): what it yields, and what it leaves.
ReadSize(b, n) == IF ReadAble(b) <= n THEN ReadAble(b) ELSE n
ReadFrom(b, n) == SubSeq(Contents(b), 1, ReadSize(b, n))
AfterRead(b, n) ==
    IF ReadAble(b) = 0 THEN b ELSE MoveRead(b, ReadSize(b, n))
=============================================================================
