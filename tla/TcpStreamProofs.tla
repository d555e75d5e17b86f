-------------------------- MODULE TcpStreamProofs --------------------------
(***************************************************************************)
(* A stream, for all sizes of buffers, messages and pieces: no byte is     *)
(* lost, repeated or reordered on its way to the reader, and no reader     *)
(* gives up before the end of the stream.  What the server has decoded is  *)
(* every request it has consumed, in order, until decode() has seen a part *)
(* of a message.                                                           *)
(***************************************************************************)
EXTENDS TcpStream, TcpBufferProofs

\* What is inductive: both buffers are in order, and the bytes add up.
ByteInv ==
    /\ IsBuffer(out)
    /\ IsBuffer(in) \/ Overrun
    /\ net \in Seq(Byte) /\ written \in Seq(Byte) /\ taken \in Seq(Byte)
    /\ StreamIntact

\* A new buffer is empty.
LEMMA NewBufferEmpty ==
    ASSUME NEW size \in Nat
    PROVE  IsBuffer(NewBuffer(size)) /\ Contents(NewBuffer(size)) = <<>>
BY BlankAssumption DEF IsBuffer, NewBuffer, Contents, ReadAble

\* A full buffer that grows keeps its bytes.
LEMMA GrownKeeps ==
    ASSUME IsBuffer(in)
    PROVE  IsBuffer(Grown) /\ Contents(Grown) = Contents(in)
<1>1. WriteAble(in) + Chunk \in Nat
  BY SizeAssumption DEF IsBuffer, WriteAble
<1> QED BY <1>1, ResizeKeeps DEF Grown

\* A buffer whose read index has overrun the write index holds nothing.
LEMMA OverrunEmpty ==
    ASSUME Overrun
    PROVE  /\ Contents(in) = <<>> /\ ReadAble(in) = -1
           /\ in.size \in Nat /\ in.r \in Nat /\ in.w \in Nat
           /\ in.w < in.size
<1>1. /\ in.r = in.w + 1 /\ in.w \in Nat /\ in.size \in Nat
      /\ in.r < in.size \div 3
  BY DEF Overrun, IsBuffer
<1>2. ReadAble(in) = -1
  BY <1>1 DEF ReadAble
<1>3. Contents(in) = <<>>
  BY <1>2 DEF Contents
<1>. QED  BY <1>1, <1>2, <1>3

\* What the read buffer holds, and when it is certainly one.
LEMMA ReadBuffer ==
    ASSUME ByteInv
    PROVE  /\ Contents(in) \in Seq(Byte)
           /\ ~cut => IsBuffer(in)
           /\ pc \in {"reading", "waiting", "returned"} => IsBuffer(in)
<1>1. CASE IsBuffer(in)
  BY <1>1, ContentsType
<1>2. CASE Overrun
  BY <1>2, OverrunEmpty, EmptySeq DEF Overrun
<1>. QED  BY <1>1, <1>2 DEF ByteInv

\* The bytes of the parts, put together in another grouping.
LEMMA Regroup ==
    ASSUME NEW a \in Seq(Byte), NEW b \in Seq(Byte), NEW c \in Seq(Byte),
           NEW d \in Seq(Byte)
    PROVE  /\ (a \o b) \o c \o d = a \o (b \o c) \o d
           /\ a \o b \o (c \o d) = a \o (b \o c) \o d
<1>1. (a \o b) \o c = a \o (b \o c)
  BY ConcatAssociative, SMTT(60)
<1>2. a \o b \in Seq(Byte)
  BY ConcatProperties
<1>3. ((a \o b) \o c) \o d = (a \o b) \o (c \o d)
  BY <1>2, ConcatAssociative, SMTT(60)
<1> QED BY <1>1, <1>3

LEMMA ByteInit == Init => ByteInv
<1> SUFFICES ASSUME Init PROVE ByteInv
  OBVIOUS
<1>1. PICK size \in BufferSize : out = NewBuffer(size) /\ in = NewBuffer(size)
  BY DEF Init
<1>2. size \in Nat
  BY SizeAssumption
<1>3. net = <<>> /\ written = <<>> /\ taken = <<>> /\ <<>> \in Seq(Byte)
  BY EmptySeq DEF Init
<1>4. <<>> \o <<>> = <<>>
  BY <1>3, ConcatEmptySeq
<1> QED BY <1>1, <1>2, <1>3, <1>4, NewBufferEmpty DEF ByteInv, StreamIntact

\* write() appends a message to the bytes and to their history.
LEMMA WriteMessageInv == ByteInv /\ WriteMessage => ByteInv'
<1> SUFFICES ASSUME ByteInv, WriteMessage PROVE ByteInv'
  OBVIOUS
<1> DEFINE e == Encode(Sent + 1)
<1>1. e \in Seq(Byte)
  <2>1. Sent + 1 \in 1 .. MaxMsgs
    <3>1. Len(written) \in Nat
      BY DEF ByteInv
    <3>2. Sent \in Nat
      BY <3>1, MessageAssumption DEF Sent
    <3> QED BY <3>2, MessageAssumption DEF WriteMessage
  <2>2. \A k \in 1 .. MsgLen : <<Sent + 1, k>> \in Byte
    BY <2>1, MessageAssumption
  <2> QED BY <2>2, MessageAssumption DEF Encode
<1> HIDE DEF e
<1>2. IsBuffer(out') /\ Contents(out') = Contents(out) \o e
  BY <1>1, WriteAppends DEF WriteMessage, ByteInv, e
<1>3. /\ written' = written \o e /\ written' \in Seq(Byte)
      /\ in' = in /\ net' = net /\ taken' = taken
      /\ cut' = cut /\ pc' = pc
  BY <1>1, ConcatProperties DEF WriteMessage, ByteInv, e
<1> DEFINE head == taken \o Contents(in) \o net
<1>4. head \in Seq(Byte) /\ Contents(out) \in Seq(Byte)
  BY ContentsType, ReadBuffer, ConcatProperties DEF ByteInv
<1>5. (head \o Contents(out)) \o e = head \o (Contents(out) \o e)
  <2> HIDE DEF head
  <2> QED BY <1>1, <1>4, ConcatAssociative, SMTT(60)
<1> QED BY <1>2, <1>3, <1>5 DEF ByteInv, StreamIntact, Overrun

\* send() moves bytes from the write buffer to the socket.
LEMMA SendInv == ASSUME NEW n \in 1 .. ReadAble(out), ByteInv, Send(n) PROVE ByteInv'
<1> DEFINE p == SubSeq(Contents(out), 1, n)
<1>1. n \in Nat /\ n <= ReadAble(out)
  BY DEF ByteInv, IsBuffer, ReadAble
<1>2. /\ IsBuffer(out') /\ Contents(out) = p \o Contents(out')
      /\ net' = net \o p /\ in' = in /\ taken' = taken /\ written' = written
      /\ cut' = cut /\ pc' = pc
  BY <1>1, MoveReadDrops DEF Send, ByteInv, history
<1>3. /\ p \in Seq(Byte) /\ Contents(out') \in Seq(Byte)
      /\ Contents(in) \in Seq(Byte)
  BY <1>1, <1>2, ContentsType, ReadBuffer, Split DEF ByteInv
<1> HIDE DEF p
<1>4. net' \in Seq(Byte) /\ taken \o Contents(in) \in Seq(Byte)
  BY <1>2, <1>3, ConcatProperties DEF ByteInv
<1>5. (taken \o Contents(in)) \o net \o (p \o Contents(out'))
        = (taken \o Contents(in)) \o (net \o p) \o Contents(out')
  <2> DEFINE a == taken \o Contents(in)
             d == Contents(out')
  <2>1. a \in Seq(Byte) /\ net \in Seq(Byte) /\ p \in Seq(Byte) /\ d \in Seq(Byte)
    BY <1>3, <1>4 DEF ByteInv
  <2> HIDE DEF a, d
  <2>2. a \o net \o (p \o d) = a \o (net \o p) \o d
    <3>1. (a \o net) \o p = a \o (net \o p)
      BY ONLY <2>1, ConcatAssociative, SMTT(60)
    <3>2. a \o net \in Seq(Byte)
      BY ONLY <2>1, ConcatProperties, SMTT(60)
    <3>3. ((a \o net) \o p) \o d = (a \o net) \o (p \o d)
      BY ONLY <2>1, <3>2, ConcatAssociative, SMTT(60)
    <3> QED BY ONLY <3>1, <3>3, Zenon
  <2> QED BY <2>2 DEF a, d
<1>6. StreamIntact'
  <2>1. taken \o Contents(in) \o net \o (p \o Contents(out')) = written
    BY <1>2, Zenon DEF ByteInv, StreamIntact
  <2> QED BY <1>2, <1>5, <2>1, Zenon DEF StreamIntact
<1> QED BY <1>2, <1>4, <1>6 DEF ByteInv, Overrun

\* recv() moves bytes from the socket to the read buffer.
LEMMA RecvInv == ByteInv /\ Recv => ByteInv'
<1> SUFFICES ASSUME ByteInv, Recv PROVE ByteInv'
  OBVIOUS
<1> DEFINE room == WriteAble(Grown)
           n == IF Len(net) <= room THEN Len(net) ELSE room
           p == SubSeq(net, 1, n)
<1>1. IsBuffer(Grown) /\ Contents(Grown) = Contents(in)
  BY GrownKeeps, ReadBuffer DEF Recv
<1>2. room \in Nat
  BY <1>1 DEF IsBuffer, WriteAble
<1>3. n \in Nat /\ n <= Len(net) /\ n <= room
  <2> HIDE DEF room
  <2> QED BY <1>2 DEF ByteInv
<1>4. /\ in' = Receive(Grown, p) /\ net' = SubSeq(net, n + 1, Len(net))
      /\ out' = out /\ taken' = taken /\ written' = written
  BY DEF Recv, history
<1>5. /\ p \in Seq(Byte) /\ Len(p) = n /\ net' \in Seq(Byte)
      /\ net = p \o net'
  <2> HIDE DEF n
  <2> QED BY <1>3, <1>4, Split DEF ByteInv
<1> HIDE DEF p, n, room
<1>6. IsBuffer(in') /\ Contents(in') = Contents(in) \o p
  BY <1>1, <1>3, <1>4, <1>5, ReceiveAppends DEF room
<1>7. Contents(in) \in Seq(Byte) /\ Contents(out) \in Seq(Byte)
  BY ContentsType, ReadBuffer DEF ByteInv
<1>8. taken \o Contents(in) \o (p \o net') = taken \o (Contents(in) \o p) \o net'
  <2> DEFINE b == Contents(in)
             d == net'
  <2>1. taken \in Seq(Byte) /\ b \in Seq(Byte) /\ p \in Seq(Byte) /\ d \in Seq(Byte)
    BY <1>5, <1>7 DEF ByteInv
  <2> HIDE DEF b, d
  <2>2. taken \o b \o (p \o d) = taken \o (b \o p) \o d
    BY ONLY <2>1, Regroup, SMTT(60)
  <2> QED BY <2>2 DEF b, d
<1>9. StreamIntact'
  <2>1. taken \o Contents(in) \o (p \o net') \o Contents(out) = written
    BY <1>5, Zenon DEF ByteInv, StreamIntact
  <2> QED BY <1>4, <1>6, <1>8, <2>1, Zenon DEF StreamIntact
<1> QED BY <1>4, <1>5, <1>6, <1>9 DEF ByteInv

\* Growing alone changes no byte.
LEMMA GrowInv ==
    ASSUME ByteInv, pc = "reading", in' = Grown,
           UNCHANGED <<out, net, written, taken>>
    PROVE  ByteInv'
<1>1. IsBuffer(in') /\ Contents(in') = Contents(in)
  BY GrownKeeps, ReadBuffer
<1> QED BY <1>1 DEF ByteInv, StreamIntact

\* read() takes from the front of the read buffer.
LEMMA ReadInv == ASSUME NEW n \in ReadSizes, ByteInv, Read(n) PROVE ByteInv'
<1> DEFINE m == ReadSize(in, n)
           p == SubSeq(Contents(in), 1, m)
<1>0. IsBuffer(in)
  BY ReadBuffer DEF Read
<1>1. m \in Nat /\ m <= ReadAble(in)
  BY <1>0, SizeAssumption DEF IsBuffer, ReadSize, ReadAble
<1>2. /\ in' = AfterRead(in, n) /\ taken' = taken \o p
      /\ out' = out /\ net' = net /\ written' = written
  BY DEF Read, ReadFrom
<1>3. IsBuffer(in') /\ Contents(in) = p \o Contents(in')
  <2>1. CASE ReadAble(in) = 0
    <3>1. in' = in /\ m = 0
      BY <1>1, <1>2, <2>1 DEF AfterRead
    <3>2. p = <<>>
      BY <3>1, SubSeqEmpty
    <3> QED BY <1>0, <3>1, <3>2, ContentsType, ConcatEmptySeq
  <2>2. CASE ReadAble(in) # 0
    BY <1>0, <1>1, <1>2, <2>2, MoveReadDrops DEF AfterRead
  <2> QED BY <2>1, <2>2
<1>4. /\ p \in Seq(Byte) /\ Contents(in') \in Seq(Byte)
      /\ Contents(out) \in Seq(Byte)
  BY <1>0, <1>1, <1>3, ContentsType, Split DEF ByteInv
<1> HIDE DEF p, m
<1>5. taken' \in Seq(Byte)
  BY <1>2, <1>4, ConcatProperties DEF ByteInv
<1>6. taken \o (p \o Contents(in')) \o net = (taken \o p) \o Contents(in') \o net
  <2> DEFINE c == Contents(in')
  <2>1. taken \in Seq(Byte) /\ p \in Seq(Byte) /\ c \in Seq(Byte) /\ net \in Seq(Byte)
    BY <1>4 DEF ByteInv
  <2> HIDE DEF c
  <2>2. taken \o (p \o c) \o net = (taken \o p) \o c \o net
    BY ONLY <2>1, Regroup, SMTT(60)
  <2> QED BY <2>2 DEF c
<1>7. StreamIntact'
  <2>1. taken \o (p \o Contents(in')) \o net \o Contents(out) = written
    BY <1>3, Zenon DEF ByteInv, StreamIntact
  <2> QED BY <1>2, <1>6, <2>1, Zenon DEF StreamIntact
<1> QED BY <1>2, <1>3, <1>5, <1>7 DEF ByteInv

-----------------------------------------------------------------------------
\* A buffer's indices.

\* A buffer has been read little of, so it is not full of read bytes.
Roomy(b) == b.r = 0 \/ b.r < b.size \div 3

LEMMA AdjustPlaces ==
    ASSUME NEW b, IsBuffer(b)
    PROVE  /\ Adjust(b).size = b.size
           /\ ReadAble(Adjust(b)) = ReadAble(b)
           /\ Roomy(Adjust(b))
<1>1. CASE b.r < b.size \div 3
  BY <1>1 DEF Adjust, Roomy
<1>2. CASE ~(b.r < b.size \div 3)
  <2>1. /\ Adjust(b).size = b.size /\ Adjust(b).r = 0
        /\ Adjust(b).w = ReadAble(b)
    BY <1>2 DEF Adjust
  <2>. QED  BY <2>1 DEF ReadAble, Roomy, IsBuffer
<1>. QED  BY <1>1, <1>2

LEMMA MoveReadPlaces ==
    ASSUME NEW b, IsBuffer(b), NEW n \in Nat, n <= ReadAble(b)
    PROVE  /\ MoveRead(b, n).size = b.size
           /\ ReadAble(MoveRead(b, n)) = ReadAble(b) - n
           /\ Roomy(MoveRead(b, n))
<1> DEFINE c == [size |-> b.size, r |-> b.r + n, w |-> b.w, bytes |-> b.bytes]
<1>1. MoveRead(b, n) = Adjust(c)
  BY DEF MoveRead, IsBuffer, ReadAble
<1>2. IsBuffer(c) /\ c.size = b.size /\ ReadAble(c) = ReadAble(b) - n
  BY DEF IsBuffer, ReadAble
<1> HIDE DEF c
<1>. QED  BY <1>1, <1>2, AdjustPlaces

LEMMA ReceivePlaces ==
    ASSUME NEW b, IsBuffer(b), NEW s \in Seq(Byte), Len(s) <= WriteAble(b)
    PROVE  /\ Receive(b, s).size = b.size
           /\ ReadAble(Receive(b, s)) = ReadAble(b) + Len(s)
           /\ Roomy(Receive(b, s))
<1> DEFINE c == [size |-> b.size, r |-> b.r, w |-> b.w + Len(s),
                 bytes |-> Put(b, s).bytes]
<1>1. Receive(b, s) = Adjust(c)
  BY DEF Receive, MoveWrite, Put, IsBuffer, WriteAble
<1>2. IsBuffer(c)
  BY PutFollows
<1>3. c.size = b.size /\ ReadAble(c) = ReadAble(b) + Len(s)
  BY DEF IsBuffer, ReadAble
<1> HIDE DEF c
<1>. QED  BY <1>1, <1>2, <1>3, AdjustPlaces

LEMMA GrownPlaces ==
    ASSUME IsBuffer(in), Roomy(in)
    PROVE  /\ Grown.size \in Nat /\ Grown.size >= in.size
           /\ ReadAble(Grown) = ReadAble(in)
           /\ Roomy(Grown)
<1>1. CASE WriteAble(in) # 0 \/ WriteAble(in) + Chunk <= in.size
  <2>1. Grown = in
    BY <1>1 DEF Grown, Resize
  <2>. QED  BY <2>1 DEF IsBuffer
<1>2. CASE WriteAble(in) = 0 /\ ~(WriteAble(in) + Chunk <= in.size)
  <2>1. /\ Grown.size = WriteAble(in) + Chunk /\ Grown.r = 0
        /\ Grown.w = ReadAble(in)
    BY <1>2 DEF Grown, Resize
  <2>. QED
    BY <1>2, <2>1, SizeAssumption DEF ReadAble, WriteAble, Roomy, IsBuffer
<1>. QED  BY <1>1, <1>2

-----------------------------------------------------------------------------
\* Where messages stand in the stream of bytes.

Pos(m) == m * MsgLen

LEMMA PosNext ==
    ASSUME NEW m \in Nat
    PROVE  Pos(m) \in Nat /\ Pos(0) = 0 /\ Pos(m + 1) = Pos(m) + MsgLen
  BY MessageAssumption DEF Pos

LEMMA PosOrder ==
    ASSUME NEW m \in Nat, NEW n \in Nat
    PROVE  /\ m <= n => /\ Pos(m) <= Pos(n)
                        /\ Pos(n) - Pos(m) = Pos(n - m)
           /\ m < n => Pos(m) + MsgLen <= Pos(n)
           /\ Pos(m) = Pos(n) => m = n
<1>1. ASSUME NEW k \in Nat, NEW l \in Nat, k <= l
      PROVE  Pos(k) <= Pos(l) /\ Pos(l) - Pos(k) = Pos(l - k)
  <2>1. l - k \in Nat /\ Pos(l - k) \in Nat
    BY <1>1, PosNext
  <2>2. Pos(l) - Pos(k) = Pos(l - k)
    BY <1>1, MessageAssumption DEF Pos
  <2>. QED  BY <2>1, <2>2, PosNext
<1>2. ASSUME NEW k \in Nat, NEW l \in Nat, k < l
      PROVE  Pos(k) + MsgLen <= Pos(l)
  BY <1>1, <1>2, PosNext
<1>3. Pos(m) = Pos(n) => m = n
  <2>1. Pos(m) \in Nat /\ Pos(n) \in Nat /\ MsgLen \in Nat \ {0}
    BY PosNext, MessageAssumption
  <2>2. m < n => Pos(m) < Pos(n)
    BY <1>2, <2>1
  <2>3. n < m => Pos(n) < Pos(m)
    BY <1>2, <2>1
  <2>. QED  BY <2>1, <2>2, <2>3
<1>. QED  BY <1>1, <1>2, <1>3

LEMMA PosCounts == ASSUME NEW m \in Nat PROVE Pos(m) \div MsgLen = m
  BY MessageAssumption DEF Pos

-----------------------------------------------------------------------------
\* What a step of the reader takes, and where its call ends.

\* A call that has read something has something to show; what has nothing to
\* show is at the end of the stream.
EndInv ==
    /\ Roomy(in) /\ in.size > 0
    /\ pc \in {"reading", "waiting", "returned"} /\ total > 0 => ReadAble(in) > 0
    /\ pc = "returned" /\ ReadAble(in) = 0 => closed
    /\ EndIsReal

StateInv ==
    /\ framed \in BOOLEAN /\ closed \in BOOLEAN /\ cut \in BOOLEAN
    /\ pc \in Places
    /\ total \in Nat
    /\ pc \in {"decoding", "serving", "broken"} => framed

\* Before anything was cut, decoding takes a message that is there.
TakesMessage ==
    ~cut /\ Decode /\ DecodeOne => ReadAble(in) >= MsgLen /\ Consume(MsgLen)

\* After a cut it may take what is there, and move the read index by one more.
TakesOneTooMany ==
    /\ cut /\ in.w + 1 < in.size \div 3
    /\ in' = [in EXCEPT !.r = in.w + 1]
    /\ taken' = taken \o Contents(in)

LEMMA ConsumeTakes ==
    ASSUME IsBuffer(in), NEW n \in Nat, n <= ReadAble(in), Consume(n)
    PROVE  in' = MoveRead(in, n) /\ taken' = taken \o SubSeq(Contents(in), 1, n)
<1>1. ReadSize(in, n) = n
  BY DEF ReadSize, ReadAble, IsBuffer
<1>. QED  BY <1>1 DEF Consume, ReadFrom

LEMMA ConsumeInv ==
    ASSUME ByteInv, IsBuffer(in), NEW n \in Nat, n <= ReadAble(in), Consume(n),
           UNCHANGED <<out, net, written>>
    PROVE  ByteInv'
<1> DEFINE p == SubSeq(Contents(in), 1, n)
<1>1. /\ in' = MoveRead(in, n) /\ taken' = taken \o p
      /\ out' = out /\ net' = net /\ written' = written
  BY ConsumeTakes
<1>2. IsBuffer(in') /\ Contents(in) = p \o Contents(in')
  BY <1>1, MoveReadDrops
<1>3. /\ p \in Seq(Byte) /\ Contents(in') \in Seq(Byte)
      /\ Contents(out) \in Seq(Byte)
  BY <1>2, ContentsType, Split DEF ByteInv
<1> HIDE DEF p
<1>4. taken' \in Seq(Byte)
  BY <1>1, <1>3, ConcatProperties DEF ByteInv
<1>5. taken \o (p \o Contents(in')) \o net = (taken \o p) \o Contents(in') \o net
  <2> DEFINE c == Contents(in')
  <2>1. taken \in Seq(Byte) /\ p \in Seq(Byte) /\ c \in Seq(Byte) /\ net \in Seq(Byte)
    BY <1>3 DEF ByteInv
  <2> HIDE DEF c
  <2>2. taken \o (p \o c) \o net = (taken \o p) \o c \o net
    BY ONLY <2>1, Regroup, SMTT(60)
  <2> QED BY <2>2 DEF c
<1>6. StreamIntact'
  <2>1. taken \o (p \o Contents(in')) \o net \o Contents(out) = written
    BY <1>2, Zenon DEF ByteInv, StreamIntact
  <2> QED BY <1>1, <1>5, <2>1, Zenon DEF StreamIntact
<1> QED BY <1>1, <1>2, <1>4, <1>6 DEF ByteInv

\* Consuming leaves the buffer little read.
LEMMA ConsumePlaces ==
    ASSUME ByteInv, IsBuffer(in), NEW n \in Nat, n <= ReadAble(in), Consume(n)
    PROVE  /\ in'.size = in.size
           /\ ReadAble(in') = ReadAble(in) - n
           /\ Roomy(in')
           /\ Len(taken') = Len(taken) + n
<1>1. in' = MoveRead(in, n) /\ taken' = taken \o SubSeq(Contents(in), 1, n)
  BY ConsumeTakes
<1>2. /\ SubSeq(Contents(in), 1, n) \in Seq(Byte)
      /\ Len(SubSeq(Contents(in), 1, n)) = n
  BY ContentsType, Split DEF ByteInv
<1>3. Len(taken') = Len(taken) + n
  BY <1>1, <1>2, ConcatProperties DEF ByteInv
<1>. QED  BY <1>1, <1>3, MoveReadPlaces

\* One byte too many: everything is taken, and the buffer holds nothing.
LEMMA OneTooMany ==
    ASSUME ByteInv, IsBuffer(in), TakesOneTooMany, cut' = cut,
           pc' \notin {"reading", "waiting", "returned"},
           UNCHANGED <<out, net, written>>
    PROVE  ByteInv' /\ in'.size = in.size /\ Roomy(in')
<1>1. /\ in.size \in Nat /\ in.w \in Nat /\ in.w + 1 < in.size \div 3
      /\ in = [size |-> in.size, r |-> in.r, w |-> in.w, bytes |-> in.bytes]
      /\ in.bytes \in [0 .. in.size - 1 -> Byte] /\ in.w <= in.size
  BY DEF TakesOneTooMany, IsBuffer
<1>2. in' = [size |-> in.size, r |-> in.w + 1, w |-> in.w, bytes |-> in.bytes]
  BY <1>1 DEF TakesOneTooMany
<1>3. /\ in'.size = in.size /\ in'.w = in.w /\ in'.bytes = in.bytes
      /\ in'.r = in.w + 1
  BY <1>2
<1>4. IsBuffer([size |-> in.size, r |-> in.w, w |-> in.w, bytes |-> in.bytes])
  BY <1>1 DEF IsBuffer
<1>5. Overrun'
  BY <1>1, <1>3, <1>4 DEF Overrun, TakesOneTooMany
<1>6. Contents(in') = <<>>
  <2>1. ReadAble(in') = -1
    BY <1>1, <1>2 DEF ReadAble
  <2>. QED  BY <2>1 DEF Contents
<1>7. taken' = taken \o Contents(in) /\ taken' \in Seq(Byte)
  BY ContentsType, ConcatProperties DEF TakesOneTooMany, ByteInv
<1>8. taken' \o Contents(in') = taken'
  BY <1>6, <1>7, ConcatEmptySeq
<1>9. StreamIntact'
  BY <1>7, <1>8 DEF ByteInv, StreamIntact
<1>10. in'.size = in.size /\ Roomy(in')
  BY <1>1, <1>2 DEF Roomy
<1>. QED  BY <1>5, <1>7, <1>9, <1>10 DEF ByteInv

\* The next DropRest moves the read index back.
LEMMA DropOverrun ==
    ASSUME ByteInv, Overrun, Consume(ReadAble(in)),
           UNCHANGED <<out, net, written>>
    PROVE  ByteInv' /\ in'.size = in.size /\ Roomy(in')
<1> DEFINE c == [size |-> in.size, r |-> in.w, w |-> in.w, bytes |-> in.bytes]
<1>1. /\ in.size \in Nat /\ in.w \in Nat /\ in.w <= in.size
      /\ in.r = in.w + 1 /\ in.r < in.size \div 3
      /\ IsBuffer(c)
  BY DEF Overrun, IsBuffer
<1>2. ReadAble(in) = -1 /\ Contents(in) = <<>>
  BY OverrunEmpty
<1>3. in' = MoveRead(in, -1) /\ in.r + (-1) = in.w
  BY <1>1, <1>2 DEF Consume
<1>4. in' = Adjust(c)
  BY <1>1, <1>3 DEF MoveRead
<1>5. /\ IsBuffer(in') /\ Contents(in') = Contents(c)
      /\ in'.size = in.size /\ Roomy(in')
  <2> HIDE DEF c
  <2>1. c.size = in.size
    BY DEF c
  <2>. QED  BY <1>1, <1>4, <2>1, AdjustKeeps, AdjustPlaces
<1>6. Contents(c) = <<>>
  <2>1. ReadAble(c) = 0
    BY <1>1 DEF ReadAble
  <2>. QED  BY <2>1 DEF Contents
<1>7. taken' = taken
  <2>1. ReadSize(in, -1) = -1
    BY <1>2 DEF ReadSize
  <2>2. SubSeq(<<>>, 1, -1) = <<>>
    BY SubSeqEmpty
  <2>3. taken' = taken \o <<>>
    BY <1>2, <2>1, <2>2 DEF Consume, ReadFrom
  <2>. QED  BY <2>3, ConcatEmptySeq DEF ByteInv
<1>8. StreamIntact'
  BY <1>2, <1>5, <1>6, <1>7 DEF ByteInv, StreamIntact
<1>. QED  BY <1>5, <1>7, <1>8 DEF ByteInv

\* Where decode() sees a message, an END stands at the write index at most.
LEMMA StartsPlaces ==
    ASSUME IsBuffer(in), NEW i \in Starts
    PROVE  /\ LastOf(i) - i + 1 \in Nat
           /\ in.r + (LastOf(i) - i + 1) <= in.w + 1
           /\ in.r + (LastOf(i) - i + 1) <= in.size
<1>1. /\ in.r \in Nat /\ in.w \in Nat /\ in.size \in Nat
      /\ DOMAIN in.bytes = 0 .. in.size - 1
  BY DEF IsBuffer
<1>2. /\ i \in Int /\ in.r <= i
      /\ LastOf(i) <= in.w /\ LastOf(i) \in DOMAIN in.bytes
  BY <1>1 DEF Starts
<1>3. LengthAt(i) \in Nat
  BY MessageAssumption, FrameAssumption DEF LengthAt
<1>4. LastOf(i) - i + 1 = LengthAt(i) /\ LastOf(i) \in Int
  BY <1>2, <1>3 DEF LastOf
<1>. QED  BY <1>1, <1>2, <1>3, <1>4

LEMMA DecodeTakes ==
    ASSUME ByteInv, StateInv, TakesMessage, Decode
    PROVE  /\ pc' \in {"decoding", "serving", "broken"}
           /\ UNCHANGED <<framed, out, net, closed, total, written, served, cut>>
           /\ \/ UNCHANGED <<in, taken>>
              \/ /\ IsBuffer(in)
                 /\ \/ \E n \in Nat : n <= ReadAble(in) /\ Consume(n)
                    \/ TakesOneTooMany
<1>1. /\ pc = "decoding"
      /\ UNCHANGED <<framed, out, net, closed, total, written, served, cut>>
  BY DEF Decode
<1>2. CASE Starts = {} /\ pc' = "serving" /\ UNCHANGED <<in, msgs, taken>>
  BY <1>1, <1>2
<1>3. CASE DecodeOne
  <2>1. PICK i \in Starts :
          \/ /\ ~Breaks(LastOf(i) - i + 1)
             /\ Consume(LastOf(i) - i + 1)
             /\ pc' = pc
          \/ pc' = "broken" /\ UNCHANGED <<in, taken>>
    BY <1>3 DEF DecodeOne
  <2> DEFINE n == LastOf(i) - i + 1
  <2>2. IsBuffer(in)
    <3> SUFFICES ASSUME Overrun PROVE FALSE
      BY DEF ByteInv
    <3>1. in.r = in.w + 1 /\ in.w \in Nat
      BY OverrunEmpty DEF Overrun
    <3>. QED  BY <3>1 DEF Starts
  <2>3. n \in Nat /\ in.r + n <= in.w + 1 /\ in.r + n <= in.size
        /\ in.r \in Nat /\ in.w \in Nat /\ in.size \in Nat /\ in.r <= in.w
    BY <2>2, StartsPlaces DEF IsBuffer
  <2> HIDE DEF n
  <2>4. CASE pc' = "broken" /\ UNCHANGED <<in, taken>>
    BY <1>1, <2>4
  <2>5. CASE ~Breaks(n) /\ Consume(n) /\ pc' = pc
    <3>1. CASE n <= ReadAble(in)
      BY <1>1, <2>2, <2>3, <2>5, <3>1
    <3>2. CASE ~(n <= ReadAble(in)) /\ cut
      <4>1. in.r + n = in.w + 1 /\ ReadAble(in) <= n /\ ReadAble(in) \in Nat
        BY <2>3, <3>2 DEF ReadAble
      <4>2. in.w + 1 < in.size \div 3
        BY <2>3, <2>5, <4>1 DEF Breaks
      <4>3. in' = [in EXCEPT !.r = in.w + 1]
        <5> DEFINE c == [size |-> in.size, r |-> in.w + 1, w |-> in.w,
                         bytes |-> in.bytes]
        <5>1. MoveRead(in, n) = Adjust(c)
          BY <2>3, <4>1 DEF MoveRead
        <5>2. Adjust(c) = c
          BY <4>2 DEF Adjust
        <5>3. c = [in EXCEPT !.r = in.w + 1]
          BY <2>2 DEF IsBuffer
        <5>. QED  BY <2>5, <5>1, <5>2, <5>3 DEF Consume
      <4>4. taken' = taken \o Contents(in)
        <5>1. ReadSize(in, n) = ReadAble(in)
          BY <4>1 DEF ReadSize
        <5>2. /\ Contents(in) \in Seq(Byte)
              /\ Len(Contents(in)) = ReadAble(in)
          BY <2>2, ContentsType
        <5>3. SubSeq(Contents(in), 1, ReadAble(in)) = Contents(in)
          BY <5>2, SubSeqFull
        <5>. QED  BY <2>5, <5>1, <5>3 DEF Consume, ReadFrom
      <4>. QED  BY <1>1, <2>2, <2>5, <3>2, <4>2, <4>3, <4>4 DEF TakesOneTooMany
    <3>3. CASE ~cut
      <4>1. ReadAble(in) >= MsgLen /\ Consume(MsgLen)
        BY <1>3, <3>3 DEF TakesMessage
      <4>2. MsgLen \in Nat /\ ReadAble(in) \in Nat
        BY <2>3, MessageAssumption DEF ReadAble
      <4>. QED  BY <1>1, <2>2, <2>5, <4>1, <4>2
    <3>. QED  BY <3>1, <3>2, <3>3 DEF StateInv
  <2>. QED  BY <2>1, <2>4, <2>5 DEF n
<1>. QED  BY <1>2, <1>3 DEF Decode

LEMMA ByteStep ==
    ASSUME ByteInv, StateInv, TakesMessage, [Next]_vars
    PROVE  ByteInv'
<1>1. CASE Decode
  <2>1. /\ pc' \notin {"reading", "waiting", "returned"} /\ cut' = cut
        /\ UNCHANGED <<out, net, written>>
        /\ pc = "decoding"
    BY <1>1, DecodeTakes DEF Decode
  <2>2. CASE UNCHANGED <<in, taken>>
    BY <2>1, <2>2 DEF ByteInv, StreamIntact, Overrun
  <2>3. CASE IsBuffer(in) /\ \E n \in Nat : n <= ReadAble(in) /\ Consume(n)
    BY <2>1, <2>3, ConsumeInv
  <2>4. CASE IsBuffer(in) /\ TakesOneTooMany
    BY <2>1, <2>4, OneTooMany
  <2>. QED  BY <1>1, <2>2, <2>3, <2>4, DecodeTakes
<1>2. CASE DropRest
  <2>1. /\ UNCHANGED <<out, net, written>>
        /\ Consume(ReadAble(in))
    BY <1>2 DEF DropRest
  <2>2. CASE IsBuffer(in)
    <3>1. ReadAble(in) \in Nat
      BY <2>2 DEF IsBuffer, ReadAble
    <3>. QED  BY <2>1, <2>2, <3>1, ConsumeInv
  <2>. QED  BY <2>1, <2>2, DropOverrun DEF ByteInv
<1>3. CASE Received
  <2>1. IsBuffer(in)
    BY <1>3, ReadBuffer DEF Received
  <2>. QED  BY <1>3, <2>1 DEF Received, ByteInv, StreamIntact
<1>4. CASE Close \/ Readable \/ Serve \/ UNCHANGED vars
  <2>1. UNCHANGED <<in, out, net, written, taken, cut>>
    BY <1>4 DEF Close, Readable, Serve, vars, history
  <2>2. pc' \in {"reading", "waiting", "returned"} =>
            pc \in {"reading", "waiting", "returned"}
    BY <1>4 DEF Close, Readable, Serve, vars
  <2>. QED  BY <2>1, <2>2 DEF ByteInv, StreamIntact, Overrun
<1>5. CASE RecvZero \/ RecvAgain
  BY <1>5, GrowInv DEF RecvZero, RecvAgain, history
<1>. QED
  BY <1>1, <1>2, <1>3, <1>4, <1>5, WriteMessageInv, SendInv, RecvInv, ReadInv
  DEF Next, Writer, Reader

\* What recv() delivers.
LEMMA RecvPlaces ==
    ASSUME ByteInv, Roomy(in), Recv
    PROVE  \E n \in Nat \ {0} :
             /\ n = IF Len(net) <= WriteAble(Grown) THEN Len(net)
                                                    ELSE WriteAble(Grown)
             /\ in'.size = Grown.size
             /\ ReadAble(in') = ReadAble(in) + n
             /\ Roomy(in')
             /\ Len(net') = Len(net) - n
             /\ total' = total + n
<1> DEFINE room == WriteAble(Grown)
           n == IF Len(net) <= room THEN Len(net) ELSE room
           p == SubSeq(net, 1, n)
<1>1. IsBuffer(Grown) /\ ReadAble(Grown) = ReadAble(in)
  BY GrownKeeps, GrownPlaces, ReadBuffer DEF Recv
<1>2. room \in Nat /\ Len(net) \in Nat
  BY <1>1 DEF IsBuffer, WriteAble, ByteInv
<1>3. n \in Nat /\ n <= Len(net) /\ n <= room
  <2> HIDE DEF room
  <2>. QED  BY <1>2
<1>4. /\ n > 0 /\ total' = total + n
      /\ in' = Receive(Grown, p) /\ net' = SubSeq(net, n + 1, Len(net))
  BY DEF Recv
<1> HIDE DEF n
<1>5. /\ p \in Seq(Byte) /\ Len(p) = n /\ net' \in Seq(Byte)
      /\ net = p \o net'
  BY <1>3, <1>4, Split DEF ByteInv
<1>6. Len(net) = n + Len(net') /\ Len(net') \in Nat
  BY <1>5, ConcatProperties, LenProperties
<1> HIDE DEF p, room
<1>7. /\ in'.size = Grown.size
      /\ ReadAble(in') = ReadAble(Grown) + n
      /\ Roomy(in')
  BY <1>1, <1>3, <1>4, <1>5, ReceivePlaces DEF room
<1>8. n \in Nat \ {0}
  BY <1>3, <1>4
<1>9. Len(net') = Len(net) - n
  BY <1>3, <1>6
<1>10. n = IF Len(net) <= WriteAble(Grown) THEN Len(net) ELSE WriteAble(Grown)
  BY DEF n, room
<1>. QED  BY <1>1, <1>4, <1>7, <1>8, <1>9, <1>10

LEMMA EndStep ==
    ASSUME ByteInv, StateInv, EndInv, TakesMessage, [Next]_vars
    PROVE  StateInv' /\ EndInv'
<1>0. /\ pc \in {"reading", "waiting", "returned"} =>
           IsBuffer(in) /\ ReadAble(in) \in Nat
      /\ total \in Nat
  <2>1. IsBuffer(in) => ReadAble(in) \in Nat
    BY DEF IsBuffer, ReadAble
  <2>. QED  BY <2>1, ReadBuffer DEF StateInv
<1>1. CASE WriteMessage \/ Close \/ (\E n \in 1 .. ReadAble(out) : Send(n))
           \/ UNCHANGED vars
  <2>1. /\ UNCHANGED <<framed, in, pc, total, cut>>
        /\ closed' = closed \/ closed' = TRUE
    BY <1>1 DEF WriteMessage, Close, Send, vars, history
  <2>. QED  BY <2>1 DEF StateInv, EndInv, EndIsReal, Roomy
<1>2. CASE Recv
  <2>1. PICK n \in Nat \ {0} :
          /\ in'.size = Grown.size
          /\ ReadAble(in') = ReadAble(in) + n
          /\ Roomy(in')
          /\ total' = total + n
    BY <1>2, RecvPlaces DEF EndInv
  <2>2. /\ pc = "reading" /\ pc' = pc
        /\ framed' = framed /\ closed' = closed /\ cut' = cut
    BY <1>2 DEF Recv, history
  <2>3. Grown.size > 0
    BY <1>0, <2>2, GrownPlaces DEF EndInv, IsBuffer
  <2>. QED  BY <1>0, <2>1, <2>2, <2>3 DEF StateInv, EndInv, EndIsReal, Places
<1>3. CASE RecvZero \/ RecvAgain
  <2>0. pc = "reading"
    BY <1>3 DEF RecvZero, RecvAgain
  <2>1. /\ IsBuffer(Grown) /\ Grown.size > 0 /\ Roomy(Grown)
        /\ ReadAble(Grown) = ReadAble(in)
    BY <1>0, <2>0, GrownKeeps, GrownPlaces DEF EndInv, IsBuffer
  <2>2. WriteAble(Grown) = 0 => ReadAble(Grown) > 0
    BY <2>1 DEF IsBuffer, Roomy, WriteAble, ReadAble
  <2>3. /\ in' = Grown /\ UNCHANGED <<framed, closed, total, cut>>
        /\ pc' \in {"returned", "waiting"}
        /\ pc' = "returned" => WriteAble(Grown) = 0 \/ closed \/ total > 0
    BY <1>3 DEF RecvZero, RecvAgain, history
  <2>. QED  BY <2>0, <2>1, <2>2, <2>3 DEF StateInv, EndInv, EndIsReal, Places
<1>4. CASE Readable \/ Received \/ Serve
  <2>1. /\ UNCHANGED <<framed, closed, in, total>>
        /\ cut' \in BOOLEAN /\ pc' \in Places
        /\ pc' \in {"decoding", "serving", "broken"} => framed
    BY <1>4 DEF Readable, Received, Serve, history, StateInv, Places
  <2>2. /\ pc' \in {"reading", "waiting", "returned"} =>
             pc = "waiting" /\ pc' = "reading"
        /\ pc' = "over" => closed \/ (pc = "returned" /\ ReadAble(in) = 0)
    BY <1>4 DEF Readable, Received, Serve
  <2>. QED  BY <2>1, <2>2 DEF StateInv, EndInv, EndIsReal, Roomy
<1>5. ASSUME NEW n \in ReadSizes, Read(n) PROVE StateInv' /\ EndInv'
  <2>0. pc = "returned" /\ IsBuffer(in) /\ ReadAble(in) \in Nat
    BY <1>0, <1>5 DEF Read
  <2>1. Roomy(in') /\ in'.size = in.size
    <3>1. CASE ReadAble(in) = 0
      BY <1>5, <3>1 DEF Read, AfterRead, EndInv
    <3>2. CASE ReadAble(in) # 0
      <4>1. ReadSize(in, n) \in Nat /\ ReadSize(in, n) <= ReadAble(in)
        BY <2>0, SizeAssumption DEF ReadSize
      <4>2. in' = MoveRead(in, ReadSize(in, n))
        BY <1>5, <3>2 DEF Read, AfterRead
      <4>. QED  BY <2>0, <4>1, <4>2, MoveReadPlaces
    <3>. QED  BY <3>1, <3>2
  <2>2. /\ total' = 0 /\ UNCHANGED <<framed, closed, cut>>
        /\ pc' = IF ReadAble(in) = 0 THEN "over" ELSE "reading"
    BY <1>5 DEF Read
  <2>. QED  BY <2>0, <2>1, <2>2 DEF StateInv, EndInv, EndIsReal, Places
<1>6. CASE Decode
  <2>0. /\ pc' \in {"decoding", "serving", "broken"} /\ pc = "decoding"
        /\ UNCHANGED <<framed, out, net, closed, total, written, cut>>
    BY <1>6, DecodeTakes DEF Decode
  <2>1. Roomy(in') /\ in'.size = in.size
    <3>1. CASE UNCHANGED <<in, taken>>
      BY <3>1 DEF EndInv
    <3>2. CASE IsBuffer(in) /\ \E n \in Nat : n <= ReadAble(in) /\ Consume(n)
      BY <3>2, ConsumePlaces
    <3>3. CASE IsBuffer(in) /\ TakesOneTooMany
      BY <2>0, <3>3, OneTooMany
    <3>. QED  BY <1>6, <3>1, <3>2, <3>3, DecodeTakes
  <2>. QED  BY <2>0, <2>1 DEF StateInv, EndInv, EndIsReal, Places
<1>7. CASE DropRest
  <2>1. /\ UNCHANGED <<framed, closed, out, net, written, cut>>
        /\ pc' = "reading" /\ total' = 0 /\ Consume(ReadAble(in))
    BY <1>7 DEF DropRest
  <2>2. Roomy(in') /\ in'.size = in.size
    <3>1. CASE IsBuffer(in)
      <4>1. ReadAble(in) \in Nat
        BY <3>1 DEF IsBuffer, ReadAble
      <4>. QED  BY <2>1, <3>1, <4>1, ConsumePlaces
    <3>. QED  BY <2>1, <3>1, DropOverrun DEF ByteInv
  <2>. QED  BY <2>1, <2>2 DEF StateInv, EndInv, EndIsReal, Places
<1>. QED
  BY <1>1, <1>2, <1>3, <1>4, <1>5, <1>6, <1>7 DEF Next, Writer, Reader

-----------------------------------------------------------------------------
\* The server's reader, until decode() has seen a part of a message.

\* The first n messages are written, and a of them decoded.
Decoded(a, n) ==
    /\ Len(taken) = Pos(a)
    /\ Len(written) = Pos(n)
    /\ a = Len(served) + Len(msgs)

\* What has come ends where a message does.
ComeWhole == \E b \in Nat : Come = Pos(b)

\* Messages are written one behind the other.
WrittenInOrder ==
    \A m \in 0 .. MaxMsgs - 1, k \in 1 .. MsgLen :
        Pos(m) + k <= Len(written) => written[Pos(m) + k] = <<m + 1, k>>

\* What is decoded is served next.
DecodedInOrder ==
    /\ msgs \in Seq(Nat) /\ served \in Seq(Nat)
    /\ \A k \in 1 .. Len(served) : served[k] = k
    /\ \A k \in 1 .. Len(msgs) : msgs[k] = Len(served) + k

MessagesInv ==
    /\ WrittenInOrder
    /\ DecodedInOrder
    /\ \E a, n \in 0 .. MaxMsgs : Decoded(a, n)
    /\ pc = "decoding" => ComeWhole
    /\ pc = "serving" => ReadAble(in) = 0

\* The bytes that wait to be decoded are those behind the decoded ones.
LEMMA ContentsAreWritten ==
    ASSUME ByteInv, IsBuffer(in), NEW k \in 1 .. ReadAble(in)
    PROVE  /\ Contents(in)[k] = written[Len(taken) + k]
           /\ Len(taken) + k <= Len(written)
<1> DEFINE x == Contents(in)
<1>1. /\ taken \in Seq(Byte) /\ x \in Seq(Byte) /\ net \in Seq(Byte)
      /\ Contents(out) \in Seq(Byte)
      /\ Len(x) = ReadAble(in)
      /\ taken \o x \o net \o Contents(out) = written
  BY ContentsType DEF ByteInv, StreamIntact
<1> DEFINE y == Contents(out)
<1>2. ASSUME NEW s \in Seq(Byte), NEW t \in Seq(Byte), NEW j \in 1 .. Len(s)
      PROVE  (s \o t)[j] = s[j] /\ j <= Len(s \o t) /\ s \o t \in Seq(Byte)
  BY ConcatProperties
<1> HIDE DEF x, y
<1>3. /\ taken \o x \in Seq(Byte)
      /\ Len(taken) + k \in 1 .. Len(taken \o x)
      /\ (taken \o x)[Len(taken) + k] = x[k]
  BY <1>1, ConcatProperties
<1>4. /\ taken \o x \o net \in Seq(Byte)
      /\ Len(taken) + k \in 1 .. Len(taken \o x \o net)
      /\ (taken \o x \o net)[Len(taken) + k] = x[k]
  <2> DEFINE s == taken \o x
  <2>1. /\ s \in Seq(Byte) /\ Len(taken) + k \in 1 .. Len(s)
        /\ s[Len(taken) + k] = x[k]
    BY <1>3
  <2> HIDE DEF s
  <2>2. /\ s \o net \in Seq(Byte)
        /\ Len(taken) + k \in 1 .. Len(s \o net)
        /\ (s \o net)[Len(taken) + k] = x[k]
    BY <1>1, <2>1, ConcatProperties
  <2>. QED  BY <2>2 DEF s
<1>5. /\ Len(taken) + k \in 1 .. Len(written)
      /\ written[Len(taken) + k] = x[k]
  <2> DEFINE s == taken \o x \o net
  <2>1. /\ s \in Seq(Byte) /\ Len(taken) + k \in 1 .. Len(s)
        /\ s[Len(taken) + k] = x[k] /\ y \in Seq(Byte)
        /\ s \o y = written
    BY <1>1, <1>4 DEF y
  <2> HIDE DEF s
  <2>. QED  BY <2>1, ConcatProperties
<1>. QED  BY <1>5 DEF x

\* If there is something to decode, a message is at the front.
LEMMA FirstMessage ==
    ASSUME ByteInv, IsBuffer(in), WrittenInOrder, ReadAble(in) > 0,
           NEW a \in 0 .. MaxMsgs, NEW n \in 0 .. MaxMsgs, Decoded(a, n),
           NEW b \in Nat, Come = Pos(b)
    PROVE  /\ a < b /\ a < n /\ ReadAble(in) >= MsgLen
           /\ \A k \in 1 .. MsgLen : in.bytes[in.r + k - 1] = <<a + 1, k>>
<1>0. /\ a \in Nat /\ n \in Nat /\ MaxMsgs \in Nat /\ MsgLen \in Nat
      /\ ReadAble(in) \in Nat
      /\ ReadAble(in) = Pos(b) - Pos(a)
      /\ Pos(a) \in Nat /\ Pos(b) \in Nat /\ Pos(n) \in Nat
  <2>1. /\ a \in Nat /\ n \in Nat /\ MaxMsgs \in Nat /\ MsgLen \in Nat
        /\ Pos(a) \in Nat /\ Pos(b) \in Nat /\ Pos(n) \in Nat
    BY PosNext, MessageAssumption
  <2>2. ReadAble(in) \in Nat
    BY DEF IsBuffer, ReadAble
  <2>3. Pos(a) + ReadAble(in) = Pos(b)
    BY DEF Decoded, Come
  <2>. QED  BY <2>1, <2>2, <2>3
<1>1. a < b /\ a < n
  <2>1. Pos(b) > Pos(a)
    BY <1>0
  <2>2. Pos(n) > Pos(a)
    <3>1. ReadAble(in) \in 1 .. ReadAble(in)
      BY <1>0
    <3>2. Pos(a) + ReadAble(in) <= Pos(n)
      BY <3>1, ContentsAreWritten DEF Decoded
    <3>. QED  BY <1>0, <3>2
  <2>3. ~(b <= a)
    BY <1>0, <2>1, PosOrder
  <2>4. ~(n <= a)
    BY <1>0, <2>2, PosOrder
  <2>. QED  BY <1>0, <2>3, <2>4
<1>2. ReadAble(in) >= MsgLen /\ ReadAble(in) \in Nat /\ MsgLen \in Nat
  <2>1. Pos(a) + MsgLen <= Pos(b)
    BY <1>0, <1>1, PosOrder
  <2>. QED  BY <1>0, <2>1
<1>3. ASSUME NEW k \in 1 .. MsgLen
      PROVE  in.bytes[in.r + k - 1] = <<a + 1, k>>
  <2>1. k \in 1 .. ReadAble(in)
    BY <1>2
  <2>2. Contents(in)[k] = written[Pos(a) + k] /\ Pos(a) + k <= Len(written)
    BY <2>1, ContentsAreWritten DEF Decoded
  <2>3. written[Pos(a) + k] = <<a + 1, k>>
    <3>1. a \in 0 .. MaxMsgs - 1
      BY <1>0, <1>1
    <3>. QED  BY <2>2, <3>1 DEF WrittenInOrder
  <2>. QED  BY <2>1, <2>2, <2>3 DEF Contents
<1>. QED  BY <1>1, <1>2, <1>3

\* decode() finds that one, and takes it.
LEMMA DecodeTakesFirst ==
    ASSUME ByteInv, IsBuffer(in), WrittenInOrder, ReadAble(in) > 0,
           NEW a \in 0 .. MaxMsgs, NEW n \in 0 .. MaxMsgs, Decoded(a, n),
           NEW b \in Nat, Come = Pos(b)
    PROVE  /\ Starts # {}
           /\ DecodeOne => /\ Consume(MsgLen) /\ pc' = pc
                           /\ msgs' = Append(msgs, a + 1)
<1>0. PICK i \in Nat : i = in.r
  BY DEF ByteInv, IsBuffer
<1>1. /\ a < n /\ ReadAble(in) >= MsgLen
      /\ \A k \in 1 .. MsgLen : in.bytes[i + k - 1] = <<a + 1, k>>
  BY <1>0, FirstMessage
<1>2. /\ in.w \in Nat /\ in.size \in Nat /\ in.w <= in.size
      /\ i + MsgLen <= in.w
      /\ DOMAIN in.bytes = 0 .. in.size - 1
      /\ MsgLen \in Nat /\ MsgLen > 4
  <2>1. MsgLen \in Nat /\ MsgLen > 4
    BY MessageAssumption, FrameAssumption
  <2>2. /\ in.w \in Nat /\ in.size \in Nat /\ in.w <= in.size
        /\ DOMAIN in.bytes = 0 .. in.size - 1
    BY DEF ByteInv, IsBuffer
  <2>3. in.w - i >= MsgLen
    BY <1>0, <1>1 DEF ReadAble
  <2>4. i + MsgLen <= in.w
    BY <2>1, <2>2, <2>3
  <2>. QED  BY <2>1, <2>2, <2>4
<1>3. /\ in.bytes[i] = <<a + 1, 1>>
      /\ in.bytes[i + 1] = <<a + 1, 2>>
      /\ in.bytes[i + 2] = <<a + 1, 3>>
      /\ in.bytes[i + MsgLen - 1] = <<a + 1, MsgLen>>
  <2>1. /\ 1 \in 1 .. MsgLen /\ 2 \in 1 .. MsgLen /\ 3 \in 1 .. MsgLen
        /\ MsgLen \in 1 .. MsgLen
        /\ i + 1 - 1 = i /\ i + 2 - 1 = i + 1 /\ i + 3 - 1 = i + 2
    BY <1>2
  <2>. QED  BY <1>1, <2>1
<1>4. /\ <<a + 1, 1>> # Blank /\ <<a + 1, MsgLen>> # Blank
  <2>1. a + 1 \in 1 .. MaxMsgs
    BY <1>1, MessageAssumption
  <2>. QED  BY <1>2, <2>1, FrameAssumption
<1>5. LengthAt(i) = MsgLen /\ LastOf(i) = i + MsgLen - 1
  <2>1. i + 2 < in.size
    BY <1>2
  <2>2. LengthAt(i) = MsgLen
    <3>1. in.bytes[i][1] = a + 1
      BY <1>3
    <3>. QED  BY <1>3, <2>1, <3>1 DEF LengthAt
  <2>. QED  BY <2>2 DEF LastOf
<1>6. IsKind(i, 1) /\ IsKind(LastOf(i), MsgLen)
  <2>1. in.bytes[LastOf(i)] = <<a + 1, MsgLen>>
    BY <1>3, <1>5
  <2>. QED  BY <1>3, <1>4, <2>1 DEF IsKind
<1>7. i \in Starts
  <2>1. i \in in.r .. in.w - 1 /\ i + 1 < in.w
    BY <1>0, <1>2
  <2>2. i + MsgLen - 1 <= in.w /\ i + MsgLen - 1 \in 0 .. in.size - 1
    BY <1>2
  <2>3. LastOf(i) <= in.w /\ LastOf(i) \in DOMAIN in.bytes
    BY <1>2, <1>5, <2>2
  <2>. QED  BY <1>6, <2>1, <2>3 DEF Starts
<1>8. \A k \in Starts : i <= k /\ k \in Nat
  BY <1>0, <1>2 DEF Starts
<1>9. ASSUME NEW j \in Starts, \A k \in Starts : j <= k
      PROVE  j = i
  BY <1>2, <1>7, <1>8, <1>9
<1>10. ~Breaks(MsgLen)
  BY <1>0, <1>2 DEF Breaks
<1>11. ASSUME DecodeOne
       PROVE  Consume(MsgLen) /\ msgs' = Append(msgs, a + 1) /\ pc' = pc
  <2>1. PICK j \in Starts :
          /\ \A k \in Starts : j <= k
          /\ ~Breaks(LastOf(j) - j + 1) =>
               /\ Consume(LastOf(j) - j + 1)
               /\ msgs' = IF j + 3 >= LastOf(j) THEN msgs
                          ELSE Append(msgs, in.bytes[j][1])
               /\ pc' = pc
    BY <1>11, Zenon DEF DecodeOne
  <2>2. j = i
    BY <1>9, <2>1
  <2>3. LastOf(i) - i + 1 = MsgLen /\ ~(i + 3 >= LastOf(i))
    BY <1>2, <1>5
  <2>4. in.bytes[i][1] = a + 1
    BY <1>3
  <2>. QED  BY <1>10, <2>1, <2>2, <2>3, <2>4
<1>. QED  BY <1>7, <1>11

LEMMA TakesFirst ==
    ASSUME ByteInv, StateInv, framed /\ ~cut => MessagesInv
    PROVE  TakesMessage
<1> SUFFICES ASSUME ~cut, Decode, DecodeOne
             PROVE  ReadAble(in) >= MsgLen /\ Consume(MsgLen)
  BY DEF TakesMessage
<1>1. MessagesInv /\ pc = "decoding"
  BY DEF Decode, StateInv
<1>2. PICK a, n \in 0 .. MaxMsgs : Decoded(a, n)
  BY <1>1 DEF MessagesInv
<1>3. PICK b \in Nat : Come = Pos(b)
  BY <1>1 DEF MessagesInv, ComeWhole
<1>4. IsBuffer(in)
  BY ReadBuffer
<1>5. ReadAble(in) > 0
  <2> SUFFICES ASSUME ~(ReadAble(in) > 0) PROVE FALSE
    OBVIOUS
  <2>1. in.r = in.w /\ in.r \in Nat
    BY <1>4 DEF IsBuffer, ReadAble
  <2>2. Starts = {}
    BY <2>1 DEF Starts
  <2>. QED  BY <2>2 DEF DecodeOne
<1>. QED
  BY <1>1, <1>2, <1>3, <1>4, <1>5, FirstMessage, DecodeTakesFirst
  DEF MessagesInv

\* Steps that leave the written and the decoded alone.
LEMMA StreamUntouched ==
    ASSUME MessagesInv, UNCHANGED <<msgs, written, taken, served>>,
           pc' = "decoding" => ComeWhole',
           pc' = "serving" => ReadAble(in') = 0
    PROVE  MessagesInv'
<1>1. WrittenInOrder' /\ DecodedInOrder'
  BY DEF MessagesInv, WrittenInOrder, DecodedInOrder
<1>2. \A a, n \in 0 .. MaxMsgs : Decoded(a, n) => Decoded(a, n)'
  BY DEF Decoded
<1>. QED  BY <1>1, <1>2 DEF MessagesInv

LEMMA WriteKeepsMessages ==
    ASSUME ByteInv, MessagesInv, WriteMessage
    PROVE  MessagesInv'
<1>1. PICK a, n \in 0 .. MaxMsgs : Decoded(a, n)
  BY DEF MessagesInv
<1> DEFINE e == Encode(n + 1)
<1>0. /\ n \in Nat /\ MsgLen \in Nat \ {0} /\ MaxMsgs \in Nat
      /\ Pos(n) \in Nat
      /\ Pos(n + 1) = Pos(n) + MsgLen
  BY PosNext, MessageAssumption
<1>2. Sent = n
  BY <1>0, <1>1, PosCounts DEF Sent, Decoded
<1>3. n < MaxMsgs /\ n + 1 \in 1 .. MaxMsgs /\ n + 1 \in 0 .. MaxMsgs
  BY <1>0, <1>2 DEF WriteMessage
<1>4. e \in Seq(Byte) /\ Len(e) = MsgLen
      /\ \A k \in 1 .. MsgLen : e[k] = <<n + 1, k>>
  <2>1. \A k \in 1 .. MsgLen : <<n + 1, k>> \in Byte
    BY <1>3, MessageAssumption
  <2>. QED  BY <1>0, <2>1 DEF Encode
<1>5. /\ written' = written \o e
      /\ UNCHANGED <<in, pc, msgs, taken, served>>
  BY <1>2 DEF WriteMessage
<1> HIDE DEF e
<1>6. /\ Len(written') = Len(written) + MsgLen
      /\ \A k \in 1 .. Len(written) : written'[k] = written[k]
      /\ \A k \in 1 .. MsgLen : written'[Len(written) + k] = e[k]
      /\ Len(written) = Pos(n)
  <2>1. Len(written) = Pos(n)
    BY <1>1 DEF Decoded
  <2>2. written \in Seq(Byte) /\ Len(written) \in Nat
    BY DEF ByteInv
  <2>3. /\ Len(written \o e) = Len(written) + MsgLen
        /\ \A k \in 1 .. Len(written \o e) :
             (written \o e)[k] = IF k <= Len(written) THEN written[k]
                                  ELSE e[k - Len(written)]
    BY <1>4, <2>2, ConcatProperties
  <2>4. \A k \in 1 .. Len(written) : (written \o e)[k] = written[k]
    BY <1>0, <2>2, <2>3
  <2>5. \A k \in 1 .. MsgLen : (written \o e)[Len(written) + k] = e[k]
    BY <1>0, <2>2, <2>3
  <2>. QED  BY <1>5, <2>1, <2>3, <2>4, <2>5
<1>8. WrittenInOrder'
  <2> SUFFICES ASSUME NEW m \in 0 .. MaxMsgs - 1, NEW k \in 1 .. MsgLen,
                      Pos(m) + k <= Len(written')
               PROVE  written'[Pos(m) + k] = <<m + 1, k>>
    BY DEF WrittenInOrder
  <2>0. m \in Nat /\ Pos(m) \in Nat /\ Pos(m + 1) = Pos(m) + MsgLen
    BY <1>0, PosNext
  <2>1. CASE m < n
    <3>1. Pos(m) + MsgLen <= Pos(n)
      BY <1>0, <2>0, <2>1, PosOrder
    <3>2. Pos(m) + k <= Len(written) /\ Pos(m) + k \in 1 .. Len(written)
      BY <1>0, <1>6, <2>0, <3>1
    <3>3. written[Pos(m) + k] = <<m + 1, k>>
      BY <3>2 DEF MessagesInv, WrittenInOrder
    <3>. QED  BY <1>6, <3>2, <3>3
  <2>2. CASE m = n
    BY <1>4, <1>6, <2>2
  <2>3. CASE n < m
    <3>1. Pos(n) + MsgLen <= Pos(m)
      BY <1>0, <2>0, <2>3, PosOrder
    <3>. QED  BY <1>0, <1>6, <2>0, <3>1
  <2>. QED  BY <1>0, <2>0, <2>1, <2>2, <2>3
<1>9. DecodedInOrder'
  BY <1>5 DEF MessagesInv, DecodedInOrder
<1>10. Decoded(a, n + 1)'
  BY <1>0, <1>1, <1>5, <1>6 DEF Decoded
<1>11. /\ pc' = "decoding" => ComeWhole'
       /\ pc' = "serving" => ReadAble(in') = 0
  BY <1>5 DEF MessagesInv, ComeWhole, Come
<1>. QED  BY <1>3, <1>8, <1>9, <1>10, <1>11 DEF MessagesInv

\* What is decoded without a cut ends where a message does.
LEMMA ReceivedWhole ==
    ASSUME ByteInv, MessagesInv, Received, ~cut'
    PROVE  MessagesInv'
<1>1. /\ pc = "returned" /\ pc' \in {"over", "decoding"}
      /\ Come % MsgLen = 0
      /\ UNCHANGED <<in, msgs, written, taken, served>>
  BY DEF Received
<1>2. Come \in Nat
  <2>1. ReadAble(in) \in Nat
    BY <1>1, ReadBuffer DEF IsBuffer, ReadAble
  <2>. QED  BY <2>1 DEF Come, ByteInv
<1>3. Come = Pos(Come \div MsgLen) /\ Come \div MsgLen \in Nat
  <2> DEFINE x == Come
  <2>1. x \in Nat /\ x % MsgLen = 0 /\ MsgLen \in Nat \ {0}
    BY <1>1, <1>2, MessageAssumption
  <2> HIDE DEF x
  <2>2. x = (x \div MsgLen) * MsgLen /\ x \div MsgLen \in Nat
    BY <2>1
  <2>. QED  BY <2>2 DEF x, Pos
<1>4. ComeWhole'
  BY <1>1, <1>3 DEF ComeWhole, Come
<1>. QED  BY <1>1, <1>4, StreamUntouched

LEMMA DecodeKeepsMessages ==
    ASSUME ByteInv, StateInv, MessagesInv, ~cut, Decode
    PROVE  MessagesInv'
<1>1. PICK a, n \in 0 .. MaxMsgs : Decoded(a, n)
  BY DEF MessagesInv
<1>2. /\ pc = "decoding" /\ UNCHANGED <<out, net, written, served>>
      /\ \/ DecodeOne
         \/ Starts = {} /\ pc' = "serving" /\ UNCHANGED <<in, msgs, taken>>
  BY DEF Decode
<1>3. PICK b \in Nat : Come = Pos(b)
  BY <1>2 DEF MessagesInv, ComeWhole
<1>4. IsBuffer(in) /\ ReadAble(in) \in Nat
  BY ReadBuffer DEF IsBuffer, ReadAble
<1>5. CASE Starts = {} /\ pc' = "serving" /\ UNCHANGED <<in, msgs, taken>>
  <2>1. ~ (ReadAble(in) > 0)
    BY <1>1, <1>3, <1>4, <1>5, DecodeTakesFirst DEF MessagesInv
  <2>2. ReadAble(in') = 0
    BY <1>4, <1>5, <2>1
  <2>. QED  BY <1>2, <1>5, <2>2, StreamUntouched
<1>6. CASE DecodeOne
  <2>0. ReadAble(in) > 0
    <3> SUFFICES ASSUME ReadAble(in) = 0 PROVE FALSE
      BY <1>4
    <3>1. in.r = in.w /\ in.r \in Nat
      BY <1>4 DEF IsBuffer, ReadAble
    <3>2. Starts = {}
      BY <3>1 DEF Starts
    <3>. QED  BY <1>6, <3>2 DEF DecodeOne
  <2>1. /\ a < n /\ ReadAble(in) >= MsgLen
        /\ Consume(MsgLen) /\ msgs' = Append(msgs, a + 1) /\ pc' = pc
    BY <1>1, <1>3, <1>4, <1>6, <2>0, FirstMessage, DecodeTakesFirst
    DEF MessagesInv
  <2>2. /\ ReadAble(in') = ReadAble(in) - MsgLen
        /\ Len(taken') = Len(taken) + MsgLen
    BY <1>4, <2>1, ConsumePlaces, MessageAssumption
  <2>3. /\ a \in Nat /\ n \in Nat /\ MsgLen \in Nat /\ MaxMsgs \in Nat
        /\ Pos(a) \in Nat /\ Pos(a + 1) = Pos(a) + MsgLen
    BY PosNext, MessageAssumption
  <2>4. /\ msgs \in Seq(Nat) /\ served \in Seq(Nat)
        /\ Len(msgs) \in Nat /\ Len(served) \in Nat
        /\ \A k \in 1 .. Len(msgs) : msgs[k] = Len(served) + k
        /\ a = Len(served) + Len(msgs) /\ Len(taken) = Pos(a)
    <3>1. /\ msgs \in Seq(Nat) /\ served \in Seq(Nat)
          /\ \A k \in 1 .. Len(msgs) : msgs[k] = Len(served) + k
      BY DEF MessagesInv, DecodedInOrder
    <3>2. a = Len(served) + Len(msgs) /\ Len(taken) = Pos(a)
      BY <1>1 DEF Decoded
    <3>. QED  BY <3>1, <3>2, LenProperties
  <2>5. /\ msgs' \in Seq(Nat) /\ Len(msgs') = Len(msgs) + 1
        /\ \A k \in 1 .. Len(msgs') : msgs'[k] = Len(served) + k
    <3>1. /\ Append(msgs, a + 1) \in Seq(Nat)
          /\ Len(Append(msgs, a + 1)) = Len(msgs) + 1
          /\ \A k \in 1 .. Len(msgs) + 1 :
               Append(msgs, a + 1)[k] = IF k <= Len(msgs) THEN msgs[k] ELSE a + 1
      BY <2>3, <2>4
    <3>2. ASSUME NEW k \in 1 .. Len(msgs) + 1
          PROVE  Append(msgs, a + 1)[k] = Len(served) + k
      <4>1. CASE k <= Len(msgs)
        <5>1. k \in 1 .. Len(msgs)
          BY <2>4, <4>1
        <5>. QED  BY <2>4, <3>1, <4>1, <5>1
      <4>2. CASE ~ (k <= Len(msgs))
        <5>1. k = Len(msgs) + 1
          BY <2>4, <4>2
        <5>. QED  BY <2>4, <3>1, <4>2, <5>1
      <4>. QED  BY <4>1, <4>2
    <3>. QED  BY <2>1, <3>1, <3>2
  <2>6. Decoded(a + 1, n)'
    <3>1. Len(taken') = Pos(a + 1)
      BY <2>2, <2>3, <2>4
    <3>2. a + 1 = Len(served) + Len(msgs')
      BY <2>3, <2>4, <2>5
    <3>. QED  BY <1>1, <1>2, <3>1, <3>2 DEF Decoded
  <2>7. a + 1 \in 0 .. MaxMsgs
    BY <2>1, <2>3
  <2>8. WrittenInOrder' /\ DecodedInOrder'
    BY <1>2, <2>4, <2>5 DEF MessagesInv, WrittenInOrder, DecodedInOrder
  <2>9. ComeWhole'
    <3>1. Len(taken') + ReadAble(in') = Len(taken) + ReadAble(in)
      BY <1>4, <2>2, <2>3, <2>4
    <3>. QED  BY <1>3, <3>1 DEF ComeWhole, Come
  <2>. QED  BY <1>2, <2>1, <2>6, <2>7, <2>8, <2>9 DEF MessagesInv
<1>. QED  BY <1>2, <1>5, <1>6

LEMMA ServeKeepsMessages ==
    ASSUME ByteInv, MessagesInv, Serve
    PROVE  MessagesInv'
<1>1. PICK a, n \in 0 .. MaxMsgs : Decoded(a, n)
  BY DEF MessagesInv
<1>2. /\ msgs # <<>> /\ pc = "serving" /\ pc' \in {"serving", "over"}
      /\ served' = Append(served, Head(msgs)) /\ msgs' = Tail(msgs)
      /\ UNCHANGED <<out, net, in, written, taken>>
  BY DEF Serve
<1>3. /\ msgs \in Seq(Nat) /\ served \in Seq(Nat)
      /\ Len(msgs) \in Nat /\ Len(served) \in Nat
      /\ \A k \in 1 .. Len(served) : served[k] = k
      /\ \A k \in 1 .. Len(msgs) : msgs[k] = Len(served) + k
      /\ ReadAble(in) = 0
  BY <1>2, LenProperties DEF MessagesInv, DecodedInOrder
<1>4. /\ msgs' \in Seq(Nat) /\ Len(msgs') = Len(msgs) - 1
      /\ \A k \in 1 .. Len(msgs') : msgs'[k] = msgs[k + 1]
      /\ Len(msgs) > 0 /\ Head(msgs) = msgs[1]
  BY <1>2, <1>3, HeadTailProperties, EmptySeq
<1>5. Head(msgs) = Len(served) + 1
  BY <1>3, <1>4
<1>6. /\ served' \in Seq(Nat) /\ Len(served') = Len(served) + 1
      /\ \A k \in 1 .. Len(served') :
           served'[k] = IF k <= Len(served) THEN served[k] ELSE Len(served) + 1
  BY <1>2, <1>3, <1>5
<1>7. ASSUME NEW k \in 1 .. Len(served') PROVE served'[k] = k
  <2>1. k \in 1 .. Len(served) \/ k = Len(served) + 1
    BY <1>3, <1>6
  <2>2. served'[k] = IF k <= Len(served) THEN served[k] ELSE Len(served) + 1
    BY <1>6
  <2>3. CASE k \in 1 .. Len(served)
    <3>1. served[k] = k /\ k <= Len(served)
      BY <1>3, <2>3
    <3>. QED  BY <2>2, <3>1
  <2>4. CASE k = Len(served) + 1
    BY <1>3, <2>2, <2>4
  <2>. QED  BY <2>1, <2>3, <2>4
<1>8. ASSUME NEW k \in 1 .. Len(msgs') PROVE msgs'[k] = Len(served') + k
  <2>1. k + 1 \in 1 .. Len(msgs) /\ msgs'[k] = msgs[k + 1]
    BY <1>3, <1>4
  <2>2. msgs[k + 1] = Len(served) + (k + 1)
    BY <1>3, <2>1
  <2>. QED  BY <1>3, <1>6, <2>1, <2>2
<1>9. DecodedInOrder' /\ WrittenInOrder'
  BY <1>2, <1>3, <1>4, <1>6, <1>7, <1>8
  DEF MessagesInv, DecodedInOrder, WrittenInOrder
<1>10. Decoded(a, n)'
  <2>1. a = Len(served') + Len(msgs')
    <3>1. a = Len(served) + Len(msgs)
      BY <1>1 DEF Decoded
    <3>. QED  BY <1>3, <1>4, <1>6, <3>1
  <2>. QED  BY <1>1, <1>2, <2>1 DEF Decoded
<1>. QED  BY <1>2, <1>3, <1>9, <1>10 DEF MessagesInv

\* Without a cut there is nothing to drop.
LEMMA DropsNothing ==
    ASSUME ByteInv, MessagesInv, ~cut, DropRest
    PROVE  MessagesInv'
<1>1. /\ ReadAble(in) = 0 /\ Consume(0) /\ pc' = "reading"
      /\ UNCHANGED <<msgs, written, served>>
  BY DEF DropRest, MessagesInv
<1>2. taken' = taken
  <2>1. IsBuffer(in)
    BY ReadBuffer
  <2>2. taken' = taken \o SubSeq(Contents(in), 1, 0)
    BY <1>1, <2>1, ConsumeTakes
  <2>3. SubSeq(Contents(in), 1, 0) = <<>>
    BY SubSeqEmpty
  <2>. QED  BY <2>2, <2>3, ConcatEmptySeq DEF ByteInv
<1>. QED  BY <1>1, <1>2, StreamUntouched

LEMMA MessagesStep ==
    ASSUME framed = TRUE, ~cut, ~cut', ByteInv, StateInv, MessagesInv,
           [Next]_vars
    PROVE  MessagesInv'
<1>1. CASE Recv \/ RecvZero \/ RecvAgain \/ Readable
  <2>1. /\ UNCHANGED <<msgs, written, taken, served>>
        /\ pc' \in {"reading", "returned", "waiting"}
    BY <1>1 DEF Recv, RecvZero, RecvAgain, Readable, history
  <2>. QED  BY <2>1, StreamUntouched
<1>2. CASE Close \/ (\E n \in 1 .. ReadAble(out) : Send(n)) \/ UNCHANGED vars
  <2>1. UNCHANGED <<in, pc, msgs, written, taken, served>>
    BY <1>2 DEF Close, Send, vars, history
  <2>2. pc' = "decoding" => ComeWhole'
    BY <2>1 DEF MessagesInv, ComeWhole, Come
  <2>3. pc' = "serving" => ReadAble(in') = 0
    BY <2>1 DEF MessagesInv
  <2>. QED  BY <2>1, <2>2, <2>3, StreamUntouched
<1>3. ASSUME NEW k \in ReadSizes PROVE ~ Read(k)
  BY DEF Read
<1>. QED
  BY <1>1, <1>2, <1>3, WriteKeepsMessages, ReceivedWhole, DecodeKeepsMessages,
     ServeKeepsMessages, DropsNothing
  DEF Next, Writer, Reader

\* What is inductive for both readers.
StreamInv ==
    /\ ByteInv /\ StateInv /\ EndInv
    /\ framed /\ ~cut => MessagesInv

LEMMA InitStream == Init => StreamInv
<1> SUFFICES ASSUME Init PROVE StreamInv
  OBVIOUS
<1>1. PICK size \in BufferSize : out = NewBuffer(size) /\ in = NewBuffer(size)
  BY DEF Init
<1>2. size \in Nat \ {0}
  BY SizeAssumption
<1>3. /\ in.size = size /\ in.r = 0 /\ ReadAble(in) = 0
  BY <1>1, <1>2 DEF NewBuffer, ReadAble
<1>4. StateInv /\ EndInv
  <2>1. /\ framed \in BOOLEAN /\ closed = FALSE /\ cut = FALSE
        /\ pc = "reading" /\ total = 0
    BY DEF Init
  <2>2. Roomy(in) /\ in.size > 0
    BY <1>2, <1>3 DEF Roomy
  <2>3. StateInv
    BY <2>1 DEF StateInv, Places
  <2>4. ~ (total > 0) /\ pc # "returned" /\ pc # "over"
    BY <2>1
  <2>. QED  BY <2>2, <2>3, <2>4 DEF EndInv, EndIsReal
<1>5. MessagesInv
  <2>1. /\ written = <<>> /\ taken = <<>> /\ served = <<>> /\ msgs = <<>>
        /\ pc = "reading" /\ Len(<<>>) = 0
    BY DEF Init
  <2>2. WrittenInOrder
    <3>1. \A m \in 0 .. MaxMsgs - 1, k \in 1 .. MsgLen : ~ (Pos(m) + k <= 0)
      BY PosNext, MessageAssumption
    <3>. QED  BY <2>1, <3>1 DEF WrittenInOrder
  <2>3. DecodedInOrder
    BY <2>1 DEF DecodedInOrder
  <2>4. Decoded(0, 0)
    BY <2>1, PosNext DEF Decoded
  <2>5. 0 \in 0 .. MaxMsgs
    BY MessageAssumption
  <2>. QED  BY <2>1, <2>2, <2>3, <2>4, <2>5 DEF MessagesInv
<1>. QED  BY <1>4, <1>5, ByteInit DEF StreamInv

LEMMA StreamStep == StreamInv /\ [Next]_vars => StreamInv'
<1> SUFFICES ASSUME StreamInv, [Next]_vars PROVE StreamInv'
  OBVIOUS
<1>1. framed' = framed /\ (cut => cut')
  <2>1. framed' = framed
    BY DEF vars, Next, Writer, Reader, WriteMessage, Send, Close, Recv, RecvZero,
           RecvAgain, Readable, Read, Received, Decode, Serve, DropRest
  <2>2. cut' = cut \/ Received
    BY DEF vars, history, Next, Writer, Reader, WriteMessage, Send, Close, Recv,
           RecvZero, RecvAgain, Readable, Read, Decode, Serve, DropRest
  <2>3. CASE cut' = cut
    BY <2>1, <2>3
  <2>4. CASE Received
    BY <2>1, <2>4 DEF Received
  <2>. QED  BY <2>2, <2>3, <2>4
<1>2. TakesMessage
  BY TakesFirst DEF StreamInv
<1>3. ByteInv' /\ StateInv' /\ EndInv'
  BY <1>2, ByteStep, EndStep DEF StreamInv
<1>4. framed' /\ ~cut' => MessagesInv'
  BY <1>1, MessagesStep DEF StreamInv, StateInv
<1>. QED  BY <1>3, <1>4 DEF StreamInv

LEMMA StreamSafety == Spec => []StreamInv
  BY InitStream, StreamStep, PTL DEF Spec

\* Buffers stay buffers - their indices in order and within the vector, but for
\* the one byte by which decode() overruns a cut message - and everything else
\* is of its type.
THEOREM TypeCorrect == Spec => []TypeOK
<1>1. StreamInv => TypeOK
  BY DEF StreamInv, ByteInv, StateInv, TypeOK
<1>. QED  BY <1>1, StreamSafety, PTL

\* Growing, moving and rewinding the buffers loses, repeats and reorders no
\* byte: what read() has returned, or decode() and handleClient() have moved
\* over, is what was written, up to where it is.
THEOREM BytesIntact == Spec => []StreamIntact
<1>1. StreamInv => StreamIntact
  BY DEF StreamInv, ByteInv
<1>. QED  BY <1>1, StreamSafety, PTL

\* handleClient() drops nothing, and decode() skips nothing, until decode() has
\* seen a part of a message: what is consumed is the requests that are served, in
\* the order in which they were written, and those that are served next.
THEOREM NoneDropped == Spec => []NoRequestDropped
<1>1. StreamInv => NoRequestDropped
  <2> SUFFICES ASSUME MessagesInv
               PROVE  /\ Len(taken) = MsgLen * (Len(served) + Len(msgs))
                      /\ \A k \in DOMAIN served : served[k] = k
                      /\ \A k \in DOMAIN msgs : msgs[k] = Len(served) + k
    BY DEF StreamInv, NoRequestDropped
  <2>1. PICK a, n \in 0 .. MaxMsgs : Decoded(a, n)
    BY DEF MessagesInv
  <2>2. a \in Nat /\ MsgLen \in Nat
    BY MessageAssumption
  <2>3. Len(taken) = MsgLen * (Len(served) + Len(msgs))
    BY <2>1, <2>2 DEF Decoded, Pos
  <2>4. DOMAIN served = 1 .. Len(served) /\ DOMAIN msgs = 1 .. Len(msgs)
    BY DEF MessagesInv, DecodedInOrder
  <2>. QED  BY <2>3, <2>4 DEF MessagesInv, DecodedInOrder
<1>. QED  BY <1>1, StreamSafety, PTL

\* Neither reader gives up while the peer is there: readToBuffer() comes back
\* with nothing to show at the end of the stream only.  That recv() returns 0
\* for a full buffer as well does no harm, whatever the sizes of the buffers
\* and however much is in flight.
THEOREM OnlyRealEnds == Spec => []EndIsReal
<1>1. StreamInv => EndIsReal
  BY DEF StreamInv, EndInv
<1>. QED  BY <1>1, StreamSafety, PTL
=============================================================================
