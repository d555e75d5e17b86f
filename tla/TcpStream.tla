----------------------------- MODULE TcpStream -----------------------------
(***************************************************************************)
(* One direction of a connection: a peer writes messages with a TcpStream  *)
(* (src/tcpstream.cc), the socket carries their bytes in pieces of any     *)
(* size, and the other side reads them - either as bytes, with read(), or  *)
(* as the server does (src/rpc_provider.cc, handleClient()): it decodes    *)
(* what has come (src/tinypb_coder.cc), answers each message, and throws   *)
(* the rest of its buffer away.                                            *)
(*                                                                         *)
(* Byte k of message m is <<m, k>>: a START, two bytes of length (of four),*)
(* a body, and an END.                                                     *)
(***************************************************************************)
EXTENDS TcpBuffer, FiniteSets

CONSTANTS
    MaxMsgs,    \* bound on the messages written
    RawMsgs,    \* and on those written to a reader of bytes
    MsgLen,     \* bytes of a message
    InFlight,   \* messages written and not yet answered, at most
    Garbage,    \* the length read when not all bytes of it have come
    BufferSize, \* sizes of the streams' buffers
    Chunk,      \* what readToBuffer() grows a small buffer to (4096)
    ReadSizes   \* arguments of read()

ASSUME MessageAssumption ==
    /\ MaxMsgs \in Nat /\ MsgLen \in Nat \ {0}
    /\ (1 .. MaxMsgs) \X (1 .. MsgLen) \subseteq Byte
\* A frame holds a START, a length and an END, and a byte that was never written
\* is none of a message.
ASSUME FrameAssumption ==
    /\ MsgLen > 4 /\ InFlight \in Nat /\ Garbage \in Nat
    /\ Blank \notin (1 .. MaxMsgs) \X (1 .. MsgLen)
ASSUME SizeAssumption ==
    /\ BufferSize \subseteq Nat \ {0} /\ ReadSizes \subseteq Nat \ {0}
    /\ Chunk \in Nat \ {0}

VARIABLES
    framed,     \* the reader decodes messages
    out,        \* m_write_buffer of the writer
    net,        \* bytes sent and not yet received
    closed,     \* the writer has closed
    in,         \* m_read_buffer of the reader
    pc,         \* where the reader is
    total,      \* bytes this call of readToBuffer() has read
    msgs,       \* decoded messages, not yet served
    written,    \* history: bytes written
    taken,      \* history: bytes consumed
    served,     \* history: messages served
    cut         \* history: decode() has seen a part of a message

history == <<written, taken, served, cut>>
vars == <<framed, out, net, closed, in, pc, total, msgs, history>>

Encode(m) == [k \in 1 .. MsgLen |-> <<m, k>>]

Sent == Len(written) \div MsgLen

Init ==
    /\ framed \in BOOLEAN
    /\ \E size \in BufferSize :
         /\ out = NewBuffer(size)
         /\ in = NewBuffer(size)
    /\ net = <<>>
    /\ closed = FALSE
    /\ pc = "reading"
    /\ total = 0
    /\ msgs = <<>>
    /\ written = <<>> /\ taken = <<>> /\ served = <<>> /\ cut = FALSE

\* The read index moves by n: the bytes it passes are consumed for good.
Consume(n) ==
    /\ in' = MoveRead(in, n)
    /\ taken' = taken \o ReadFrom(in, n)

-----------------------------------------------------------------------------
\* The writer.

\* write(): encoded into the write buffer.
WriteMessage ==
    /\ ~closed
    /\ Sent < MaxMsgs
    /\ IF framed THEN Sent - Len(served) < InFlight ELSE Sent < RawMsgs
    /\ out' = Write(out, Encode(Sent + 1))
    /\ written' = written \o Encode(Sent + 1)
    /\ UNCHANGED <<framed, net, closed, in, pc, total, msgs, taken, served, cut>>

\* One turn of writeFromBuffer(): send() takes the first n bytes.
Send(n) ==
    /\ ~closed
    /\ n \in 1 .. ReadAble(out)
    /\ net' = net \o SubSeq(Contents(out), 1, n)
    /\ out' = MoveRead(out, n)
    /\ UNCHANGED <<framed, closed, in, pc, total, msgs, history>>

\* The writer closes when everything is sent.
Close ==
    /\ ~closed
    /\ ReadAble(out) = 0
    /\ closed' = TRUE
    /\ UNCHANGED <<framed, out, net, in, pc, total, msgs, history>>

-----------------------------------------------------------------------------
\* readToBuffer().

\* A full buffer grows - to Chunk, whatever its size is.
Grown ==
    IF WriteAble(in) = 0 THEN Resize(in, WriteAble(in) + Chunk) ELSE in

\* recv() takes what is there and fits.
Recv ==
    /\ pc = "reading"
    /\ net # <<>>
    /\ LET room == WriteAble(Grown)
           n == IF Len(net) <= room THEN Len(net) ELSE room
       IN  /\ n > 0
           /\ in' = Receive(Grown, SubSeq(net, 1, n))
           /\ net' = SubSeq(net, n + 1, Len(net))
           /\ total' = total + n
    /\ UNCHANGED <<framed, out, closed, pc, msgs, history>>

\* recv() returns 0: at the end of the stream, or because it was given no room.
\* Either way the loop is over.
RecvZero ==
    /\ pc = "reading"
    /\ \/ net = <<>> /\ closed
       \/ WriteAble(Grown) = 0
    /\ in' = Grown
    /\ pc' = "returned"
    /\ UNCHANGED <<framed, out, net, closed, total, msgs, history>>

\* Mutant: it waits although something has come.
RecvAgainWaits ==
    /\ pc = "reading"
    /\ net = <<>> /\ ~closed
    /\ in' = Grown
    /\ pc' = "waiting"
    /\ UNCHANGED <<framed, out, net, closed, total, msgs, history>>

\* EAGAIN: the call returns what it has, or waits for more.
RecvAgain ==
    /\ pc = "reading"
    /\ net = <<>> /\ ~closed
    /\ WriteAble(Grown) > 0
    /\ in' = Grown
    /\ pc' = IF total > 0 THEN "returned" ELSE "waiting"
    /\ UNCHANGED <<framed, out, net, closed, total, msgs, history>>

\* The ReadAwaiter resumes.
Readable ==
    /\ pc = "waiting"
    /\ net # <<>> \/ closed
    /\ pc' = "reading"
    /\ UNCHANGED <<framed, out, net, closed, in, total, msgs, history>>

-----------------------------------------------------------------------------
\* What is done with the bytes.

\* read(n): no bytes after readToBuffer() means that the peer is gone.
Read(n) ==
    /\ ~framed
    /\ pc = "returned"
    /\ in' = AfterRead(in, n)
    /\ taken' = taken \o ReadFrom(in, n)
    /\ pc' = IF ReadAble(in) = 0 THEN "over" ELSE "reading"
    /\ total' = 0
    /\ UNCHANGED <<framed, out, net, closed, msgs, written, served, cut>>

\* Bytes that have come, consumed or not.
Come == Len(taken) + ReadAble(in)

\* handleClient() after readToBuffer(): nothing means that the peer is gone.
\* What is decoded may end in the middle of a message.
Received ==
    /\ framed
    /\ pc = "returned"
    /\ pc' = IF ReadAble(in) = 0 THEN "over" ELSE "decoding"
    /\ cut' = (cut \/ Come % MsgLen # 0)
    /\ UNCHANGED <<framed, out, net, closed, in, total, msgs, written, taken,
                   served>>

IsKind(i, k) == in.bytes[i] # Blank /\ in.bytes[i][2] = k

\* The length behind a START.  Only its first byte is known to have come.
LengthAt(i) ==
    IF i + 2 < in.size /\ in.bytes[i + 1] = <<in.bytes[i][1], 2>>
                       /\ in.bytes[i + 2] = <<in.bytes[i][1], 3>>
    THEN MsgLen ELSE Garbage

LastOf(i) == i + LengthAt(i) - 1

\* Where decode() sees a message: an END stands where the length says, at the
\* write index at the latest.
Starts ==
    {i \in in.r .. in.w - 1 :
        /\ IsKind(i, 1)
        /\ i + 1 < in.w
        /\ LastOf(i) <= in.w
        /\ LastOf(i) \in DOMAIN in.bytes
        /\ IsKind(LastOf(i), MsgLen)}

\* The read index is moved past the write index, and adjustBuffer() moves a
\* negative number of bytes: the program ends.
Breaks(n) == in.r + n > in.w /\ in.r + n >= in.size \div 3

\* A message is decoded: the read index moves by its length, from wherever it
\* is.  One whose header does not fit is passed over.
DecodeOne ==
    \E i \in Starts :
        LET n == LastOf(i) - i + 1
        IN  /\ \A k \in Starts : i <= k
            /\ \/ /\ ~Breaks(n)
                  /\ Consume(n)
                  /\ msgs' = IF i + 3 >= LastOf(i) THEN msgs
                             ELSE Append(msgs, in.bytes[i][1])
                  /\ UNCHANGED pc
               \/ /\ Breaks(n)
                  /\ pc' = "broken"
                  /\ UNCHANGED <<in, taken, msgs>>

\* Mutant: one message is decoded of those that have come.
DecodeFirst ==
    /\ pc = "decoding"
    /\ pc' = "serving"
    /\ \/ \E i \in Starts :
             /\ \A k \in Starts : i <= k
             /\ Consume(LastOf(i) - i + 1)
             /\ msgs' = Append(msgs, in.bytes[i][1])
       \/ Starts = {} /\ UNCHANGED <<in, msgs, taken>>
    /\ UNCHANGED <<framed, out, net, closed, total, written, served, cut>>

\* One turn of decode(), which goes on until it finds no message.
Decode ==
    /\ pc = "decoding"
    /\ \/ DecodeOne
       \/ Starts = {} /\ pc' = "serving" /\ UNCHANGED <<in, msgs, taken>>
    /\ UNCHANGED <<framed, out, net, closed, total, written, served, cut>>

\* dispatch() and the answer; writing it fails when the peer is gone.
Serve ==
    /\ pc = "serving"
    /\ msgs # <<>>
    /\ served' = Append(served, Head(msgs))
    /\ msgs' = Tail(msgs)
    /\ pc' \in IF closed THEN {"serving", "over"} ELSE {"serving"}
    /\ UNCHANGED <<framed, out, net, closed, in, total, written, taken, cut>>

\* What decode() has left is dropped before the next round.
DropRest ==
    /\ pc = "serving"
    /\ msgs = <<>>
    /\ Consume(ReadAble(in))
    /\ pc' = "reading"
    /\ total' = 0
    /\ UNCHANGED <<framed, out, net, closed, msgs, written, served, cut>>

-----------------------------------------------------------------------------
Writer == WriteMessage \/ Close \/ \E n \in 1 .. ReadAble(out) : Send(n)

Reader ==
    \/ Recv \/ RecvZero \/ RecvAgain \/ Readable
    \/ \E n \in ReadSizes : Read(n)
    \/ Received \/ Decode \/ Serve \/ DropRest

Next == Writer \/ Reader

Spec == Init /\ [][Next]_vars

\* The reader's loop runs, and what was written is sent.
FairSpec ==
    Spec /\ WF_vars(Reader) /\ WF_vars(\E n \in 1 .. ReadAble(out) : Send(n))

-----------------------------------------------------------------------------
\* Properties.

Places == {"reading", "waiting", "returned", "decoding", "serving", "over",
           "broken"}

\* After a cut decode() may leave the read index one behind the write index,
\* until the rest is dropped.
Overrun ==
    /\ cut /\ pc \notin {"reading", "waiting", "returned"}
    /\ in.r = in.w + 1
    /\ in.r < in.size \div 3
    /\ IsBuffer([size |-> in.size, r |-> in.w, w |-> in.w, bytes |-> in.bytes])

TypeOK ==
    /\ framed \in BOOLEAN /\ closed \in BOOLEAN /\ cut \in BOOLEAN
    /\ IsBuffer(out)
    /\ IsBuffer(in) \/ Overrun
    /\ net \in Seq(Byte)
    /\ pc \in Places
    /\ total \in Nat
    /\ written \in Seq(Byte) /\ taken \in Seq(Byte)

\* No byte is lost, repeated or overtaken between write() and the move of the
\* read index over it, however the buffers grow, move their contents and are
\* rewound, and wherever decode() sees messages.
StreamIntact ==
    taken \o Contents(in) \o net \o Contents(out) = written

\* What the server has consumed is the requests it has served and those it is to
\* serve, once each and in order: none is skipped by decode() or dropped behind it,
\* until decode() sees a part of a message.  Bytes that are read together, a full
\* buffer and a rewound one do no harm.
NoRequestDropped ==
    framed /\ ~cut =>
        /\ Len(taken) = MsgLen * (Len(served) + Len(msgs))
        /\ \A k \in DOMAIN served : served[k] = k
        /\ \A k \in DOMAIN msgs : msgs[k] = Len(served) + k

\* The reader gives up only at the end of the stream: a full buffer, for which
\* recv() returns 0 as well, is never taken for it, not by the server either.
EndIsReal == pc = "over" => closed

\* A request that is written is served at last, unless the peer closes or
\* decode() has seen a part of a message.
EveryRequestServed ==
    \A k \in 1 .. MaxMsgs :
        framed /\ Sent >= k
            ~> (\E j \in DOMAIN served : served[j] = k) \/ closed \/ cut
=============================================================================
