-------------------------- MODULE TcpBufferProofs --------------------------
(***************************************************************************)
(* The operations of TcpBuffer keep the order of the two indices and       *)
(* neither lose, repeat nor reorder an unread byte, whatever the size.     *)
(***************************************************************************)
EXTENDS TcpBuffer, SequenceTheorems, TLAPS

\* The unread bytes are a sequence, one for each place between the indices.
LEMMA ContentsType ==
    ASSUME NEW b, IsBuffer(b)
    PROVE  Contents(b) \in Seq(Byte) /\ Len(Contents(b)) = ReadAble(b)
<1>1. /\ b.r \in Nat /\ b.w \in Nat /\ b.r <= b.w
      /\ \A k \in 1 .. ReadAble(b) : b.bytes[b.r + k - 1] \in Byte
  BY DEF IsBuffer, ReadAble
<1>2. ReadAble(b) \in Nat
  BY <1>1 DEF ReadAble
<1> QED BY <1>1, <1>2 DEF Contents

\* Bytes put behind the unread ones follow them.
LEMMA PutFollows ==
    ASSUME NEW b, IsBuffer(b), NEW s \in Seq(Byte), Len(s) <= WriteAble(b),
           NEW c, c = [size |-> b.size, r |-> b.r, w |-> b.w + Len(s),
                       bytes |-> Put(b, s).bytes]
    PROVE  IsBuffer(c) /\ Contents(c) = Contents(b) \o s
<1>1. Put(b, s).bytes = [k \in 0 .. b.size - 1 |->
                           IF b.w <= k /\ k < b.w + Len(s) THEN s[k - b.w + 1]
                           ELSE b.bytes[k]]
  BY DEF Put
<1>2. /\ b.size \in Nat /\ b.r \in Nat /\ b.w \in Nat
      /\ b.r <= b.w /\ b.w + Len(s) <= b.size
      /\ b.bytes \in [0 .. b.size - 1 -> Byte]
      /\ Len(s) \in Nat
      /\ \A k \in 1 .. Len(s) : s[k] \in Byte
  BY DEF IsBuffer, WriteAble
<1>3. /\ c.size = b.size /\ c.r = b.r /\ c.w = b.w + Len(s)
      /\ c.bytes = Put(b, s).bytes
      /\ c = [size |-> c.size, r |-> c.r, w |-> c.w, bytes |-> c.bytes]
  OBVIOUS
<1>4. c.bytes \in [0 .. c.size - 1 -> Byte]
  BY <1>1, <1>2, <1>3
<1>5. IsBuffer(c)
  BY <1>2, <1>3, <1>4 DEF IsBuffer
<1>6. /\ Contents(b) \in Seq(Byte) /\ Len(Contents(b)) = ReadAble(b)
      /\ Contents(c) \in Seq(Byte) /\ Len(Contents(c)) = ReadAble(b) + Len(s)
  BY <1>2, <1>3, <1>5, ContentsType DEF ReadAble
<1>7. ASSUME NEW k \in 1 .. Len(Contents(c))
      PROVE  Contents(c)[k] = (Contents(b) \o s)[k]
  <2>1. Contents(c)[k] = c.bytes[b.r + k - 1]
    BY <1>2, <1>3, <1>6 DEF Contents, ReadAble
  <2>2. CASE k <= ReadAble(b)
    <3>1. c.bytes[b.r + k - 1] = b.bytes[b.r + k - 1]
      BY <2>2, <1>1, <1>2, <1>3 DEF ReadAble
    <3>2. Contents(b)[k] = b.bytes[b.r + k - 1]
      BY <2>2, <1>2 DEF Contents, ReadAble
    <3> QED BY <2>1, <2>2, <3>1, <3>2, <1>6
  <2>3. CASE k > ReadAble(b)
    <3>1. c.bytes[b.r + k - 1] = s[k - ReadAble(b)]
      <4> DEFINE i == b.r + k - 1
      <4>1. /\ i \in 0 .. b.size - 1 /\ b.w <= i /\ i < b.w + Len(s)
            /\ i - b.w + 1 = k - ReadAble(b)
        <5>1. k \in Nat /\ 1 <= k /\ k <= ReadAble(b) + Len(s)
          BY <1>2, <1>6 DEF ReadAble
        <5>2. ReadAble(b) = b.w - b.r
          BY DEF ReadAble
        <5>3. /\ b.size \in Int /\ b.r \in Nat /\ b.w \in Nat /\ Len(s) \in Nat
              /\ b.r <= b.w /\ b.w + Len(s) <= b.size
          BY <1>2
        <5> HIDE DEF i
        <5>4. i = b.r + k - 1 /\ k > b.w - b.r
          BY <2>3, <5>2 DEF i
        <5>5. k \in Nat /\ k <= b.w - b.r + Len(s)
          BY <5>1, <5>2
        <5>6. i - b.w + 1 = k - (b.w - b.r)
          BY <5>3, <5>4, <5>5
        <5>7. i \in Int /\ b.w <= i /\ i < b.w + Len(s)
          BY <5>3, <5>4, <5>5
        <5>8. i \in 0 .. b.size - 1
          BY <5>3, <5>7
        <5> QED BY <5>2, <5>6, <5>7, <5>8
      <4> HIDE DEF i
      <4>2. c.bytes[i] = s[i - b.w + 1]
        BY <4>1, <1>1, <1>3
      <4> QED BY <4>1, <4>2 DEF i
    <3> QED BY <2>1, <2>3, <3>1, <1>2, <1>6 DEF ReadAble
  <2> QED BY <2>2, <2>3, <1>2, <1>6 DEF ReadAble
<1>8. Contents(b) \o s \in Seq(Byte) /\ Len(Contents(b) \o s) = Len(Contents(c))
  BY <1>6
<1>9. Contents(c) = Contents(b) \o s
  BY <1>6, <1>7, <1>8, SeqEqual
<1> QED BY <1>5, <1>9

\* resizeBuffer() keeps the unread bytes.
LEMMA ResizeKeeps ==
    ASSUME NEW b, IsBuffer(b), NEW n \in Nat
    PROVE  /\ IsBuffer(Resize(b, n))
           /\ Contents(Resize(b, n)) = Contents(b)
           /\ n <= Resize(b, n).size
<1> USE BlankAssumption
<1>1. CASE n <= b.size
  BY <1>1 DEF Resize, IsBuffer, Contents, ReadAble
<1>2. CASE ~(n <= b.size)
  <2> DEFINE c == Resize(b, n)
  <2>1. /\ c = [size |-> n, r |-> 0, w |-> ReadAble(b), bytes |-> c.bytes]
        /\ c.bytes = [k \in 0 .. n - 1 |->
                        IF k < ReadAble(b) THEN b.bytes[b.r + k] ELSE Blank]
        /\ c.size = n /\ c.r = 0 /\ c.w = ReadAble(b)
    BY <1>2 DEF Resize
  <2>2. IsBuffer(c)
    <3> HIDE DEF c
    <3>1. /\ b.size \in Nat /\ b.r \in Nat /\ b.w \in Nat
          /\ b.r <= b.w /\ b.w <= b.size
          /\ b.bytes \in [0 .. b.size - 1 -> Byte]
      BY DEF IsBuffer
    <3>2. c.bytes \in [0 .. c.size - 1 -> Byte]
      <4>1. \A k \in 0 .. n - 1 : k < ReadAble(b) => b.bytes[b.r + k] \in Byte
        BY <3>1 DEF ReadAble
      <4> QED BY <2>1, <4>1
    <3> QED BY <2>1, <3>1, <3>2, <1>2 DEF IsBuffer, ReadAble
  <2>3. Contents(c) = Contents(b)
    BY <2>1, <1>2 DEF IsBuffer, Contents, ReadAble
  <2> QED BY <2>1, <2>2, <2>3, <1>2
<1> QED BY <1>1, <1>2

\* adjustBuffer() keeps the unread bytes and the size.
LEMMA AdjustKeeps ==
    ASSUME NEW b, IsBuffer(b)
    PROVE  /\ IsBuffer(Adjust(b))
           /\ Contents(Adjust(b)) = Contents(b)
<1>1. CASE b.r < b.size \div 3
  BY <1>1 DEF Adjust
<1>2. CASE ~(b.r < b.size \div 3)
  <2> DEFINE c == Adjust(b)
  <2>1. /\ c = [size |-> b.size, r |-> 0, w |-> ReadAble(b), bytes |-> c.bytes]
        /\ c.bytes = [k \in 0 .. b.size - 1 |->
                        IF k < ReadAble(b) THEN b.bytes[b.r + k]
                        ELSE b.bytes[k]]
        /\ c.size = b.size /\ c.r = 0 /\ c.w = ReadAble(b)
    BY <1>2 DEF Adjust
  <2>2. IsBuffer(c)
    <3> HIDE DEF c
    <3>1. /\ b.size \in Nat /\ b.r \in Nat /\ b.w \in Nat
          /\ b.r <= b.w /\ b.w <= b.size
          /\ b.bytes \in [0 .. b.size - 1 -> Byte]
      BY DEF IsBuffer
    <3>2. c.bytes \in [0 .. c.size - 1 -> Byte]
      <4>1. \A k \in 0 .. b.size - 1 :
               /\ b.bytes[k] \in Byte
               /\ k < ReadAble(b) => b.bytes[b.r + k] \in Byte
        BY <3>1 DEF ReadAble
      <4> QED BY <2>1, <4>1
    <3> QED BY <2>1, <3>1, <3>2 DEF IsBuffer, ReadAble
  <2>3. Contents(c) = Contents(b)
    BY <2>1 DEF IsBuffer, Contents, ReadAble
  <2> QED BY <2>2, <2>3
<1> QED BY <1>1, <1>2

\* A sequence is its first n elements and the others.
LEMMA Split ==
    ASSUME NEW S, NEW s \in Seq(S), NEW n \in Nat, n <= Len(s)
    PROVE  /\ SubSeq(s, 1, n) \in Seq(S)
           /\ Len(SubSeq(s, 1, n)) = n
           /\ SubSeq(s, n + 1, Len(s)) \in Seq(S)
           /\ s = SubSeq(s, 1, n) \o SubSeq(s, n + 1, Len(s))
<1> DEFINE f == SubSeq(s, 1, n)
           g == SubSeq(s, n + 1, Len(s))
<1>1. /\ f \in Seq(S) /\ Len(f) = n
      /\ \A k \in 1 .. n : f[k] = s[k]
  BY SubSeqProperties
<1>2. /\ g \in Seq(S) /\ Len(g) = Len(s) - n
      /\ \A k \in 1 .. Len(s) - n : g[k] = s[n + k]
  BY SubSeqProperties
<1> HIDE DEF f, g
<1>3. f \o g \in Seq(S) /\ Len(f \o g) = Len(s)
  <2>1. f \o g \in Seq(S) /\ Len(f \o g) = Len(f) + Len(g)
    BY <1>1, <1>2, ConcatProperties
  <2>2. Len(s) \in Nat
    BY LenProperties
  <2> QED BY <1>1, <1>2, <2>1, <2>2
<1>4. ASSUME NEW k \in 1 .. Len(s)  PROVE (f \o g)[k] = s[k]
  <2>1. (f \o g)[k] = IF k <= n THEN f[k] ELSE g[k - n]
    BY <1>1, <1>2, ConcatProperties
  <2>2. CASE k <= n
    BY <2>1, <2>2, <1>1
  <2>3. CASE k > n
    <3>1. k - n \in 1 .. Len(s) - n
      BY <2>3
    <3>2. g[k - n] = s[n + (k - n)]
      BY <3>1, <1>2
    <3>3. n + (k - n) = k
      BY <2>3
    <3> QED BY <2>1, <2>3, <3>2, <3>3
  <2>4. k \in Int /\ n \in Int
    OBVIOUS
  <2>5. k <= n \/ k > n
    BY <2>4
  <2> QED BY <2>2, <2>3, <2>5, Zenon
<1>5. f \o g = s
  BY <1>3, <1>4, SeqEqual
<1> QED BY <1>1, <1>2, <1>5 DEF f, g

\* moveReadIndex() by no more than is unread drops the first bytes.
LEMMA MoveReadDrops ==
    ASSUME NEW b, IsBuffer(b), NEW n \in Nat, n <= ReadAble(b)
    PROVE  /\ IsBuffer(MoveRead(b, n))
           /\ Contents(b) = SubSeq(Contents(b), 1, n) \o Contents(MoveRead(b, n))
<1> DEFINE c == [size |-> b.size, r |-> b.r + n, w |-> b.w, bytes |-> b.bytes]
           rest == SubSeq(Contents(b), n + 1, Len(Contents(b)))
<1>1. MoveRead(b, n) = Adjust(c)
  BY DEF MoveRead, IsBuffer, ReadAble
<1>2. IsBuffer(c)
  BY DEF IsBuffer, ReadAble
<1>3. /\ Contents(b) \in Seq(Byte) /\ Len(Contents(b)) = ReadAble(b)
      /\ Contents(c) \in Seq(Byte) /\ Len(Contents(c)) = ReadAble(c)
  BY <1>2, ContentsType
<1>4. Contents(c) = rest
  <2>1. ReadAble(c) = ReadAble(b) - n /\ ReadAble(b) \in Nat
    BY DEF ReadAble, IsBuffer
  <2>2. /\ rest \in Seq(Byte) /\ Len(rest) = ReadAble(b) - n
        /\ \A k \in 1 .. ReadAble(b) - n : rest[k] = Contents(b)[n + k]
    BY <2>1, <1>3, SubSeqProperties
  <2>3. ASSUME NEW k \in 1 .. ReadAble(b) - n
        PROVE  Contents(c)[k] = rest[k]
    <3>1. /\ b.r \in Nat /\ b.w \in Nat /\ b.r <= b.w /\ c.r = b.r + n
          /\ c.bytes = b.bytes
      BY DEF IsBuffer
    <3>2. /\ k \in 1 .. ReadAble(c) /\ n + k \in 1 .. ReadAble(b)
          /\ b.r + n + k - 1 = b.r + (n + k) - 1
      BY <2>1, <3>1
    <3> HIDE DEF c
    <3>3. Contents(c)[k] = b.bytes[b.r + n + k - 1]
      BY <3>1, <3>2 DEF Contents
    <3>4. Contents(b)[n + k] = b.bytes[b.r + (n + k) - 1]
      BY <3>2 DEF Contents
    <3> QED BY <2>2, <3>2, <3>3, <3>4
  <2> HIDE DEF c, rest
  <2> QED BY <2>1, <2>2, <2>3, <1>3, SeqEqual
<1>5. Contents(b) = SubSeq(Contents(b), 1, n) \o rest
  BY <1>3, Split
<1> QED BY <1>1, <1>2, <1>4, <1>5, AdjustKeeps

\* recv() of no more than there is room for appends what came.
LEMMA ReceiveAppends ==
    ASSUME NEW b, IsBuffer(b), NEW s \in Seq(Byte), Len(s) <= WriteAble(b)
    PROVE  /\ IsBuffer(Receive(b, s))
           /\ Contents(Receive(b, s)) = Contents(b) \o s
<1> DEFINE p == Put(b, s)
           c == [size |-> b.size, r |-> b.r, w |-> b.w + Len(s),
                 bytes |-> p.bytes]
<1>2. Receive(b, s) = Adjust(c)
  BY DEF Receive, MoveWrite, Put, IsBuffer, WriteAble
<1> QED BY <1>2, PutFollows, AdjustKeeps

\* writeToBuffer() appends, growing if it must.
LEMMA WriteAppends ==
    ASSUME NEW b, IsBuffer(b), NEW s \in Seq(Byte)
    PROVE  /\ IsBuffer(Write(b, s))
           /\ Contents(Write(b, s)) = Contents(b) \o s
<1> DEFINE m == MakeRoom(b, Len(s))
           p == Put(m, s)
           c == [size |-> m.size, r |-> m.r, w |-> m.w + Len(s),
                 bytes |-> p.bytes]
<1>1. IsBuffer(m) /\ Contents(m) = Contents(b) /\ Len(s) <= WriteAble(m)
  <2>1. CASE Len(s) > WriteAble(b)
    <3> DEFINE n == ((b.w + Len(s)) * 3) \div 2
    <3>1. n \in Nat /\ n >= b.w + Len(s)
      BY DEF IsBuffer
    <3>2. m = Resize(b, n)
      BY <2>1 DEF MakeRoom
    <3>3. m.w = ReadAble(b) /\ m.size = n
      BY <3>1, <3>2, <2>1 DEF Resize, IsBuffer, WriteAble
    <3>4. IsBuffer(m) /\ Contents(m) = Contents(b)
      BY <3>1, <3>2, ResizeKeeps
    <3>5. Len(s) <= WriteAble(m)
      <4> HIDE DEF m
      <4> QED BY <3>1, <3>3 DEF IsBuffer, ReadAble, WriteAble
    <3> QED BY <3>4, <3>5
  <2>2. CASE ~(Len(s) > WriteAble(b))
    BY <2>2 DEF MakeRoom, IsBuffer, WriteAble
  <2> QED BY <2>1, <2>2
<1>2. Write(b, s) = c
  BY DEF Write, Put
<1> QED
  <2> HIDE DEF m
  <2> QED BY <1>1, <1>2, PutFollows
=============================================================================
