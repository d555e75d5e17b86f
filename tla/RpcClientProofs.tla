-------------------------- MODULE RpcClientProofs --------------------------
(***************************************************************************)
(* A call of an RPC client dereferences the null stream of its channel     *)
(* only if another closed that channel under it, and a call that ends with *)
(* an answer has its own and was executed once, in a channel that is in    *)
(* step - for any calls, channels, addresses, retries and disturbances.    *)
(***************************************************************************)
EXTENDS RpcClient, TLAPS

\* What is in a channel.
Channels ==
    [connected : BOOLEAN, stream : BOOLEAN, peer : BOOLEAN,
     requests : Seq(Call), answers : Seq(Call \X BOOLEAN),
     buffer : Seq(Call \X BOOLEAN), reader : Call \cup {NoCall},
     shared : BOOLEAN, missed : BOOLEAN]

\* The places in which a call is going to use its stream.
Using == {"write", "read", "reading", "done", "error"}

Types ==
    /\ chan \in [Chan -> Channels]
    /\ on \in [Call -> Chan \cup {NoChan}]
    /\ io \in [Call -> Using \cup {"none", "ended", "crashed"}]
    /\ pool \in [Addr -> Chan \cup {NoChan}]
    /\ making \in [Call -> Chan \cup {NoChan}]
    /\ target \in [Call -> Addr]
    /\ pc \in [Call -> {"idle", "get", "connecting", "call", "calling",
                        "crashed", "true", "false"}]
    /\ robbed \in [Call -> BOOLEAN]

\* A call that uses its stream has one, unless it was robbed of it.
Streams ==
    \A c \in Call :
        /\ io[c] \in Using =>
              on[c] \in Chan /\ (robbed[c] \/ chan[on[c]].stream)
        /\ io[c] = "crashed" => robbed[c]

\* It gets and makes channels only when it uses none.
Placed ==
    \A c \in Call :
        /\ io[c] \in Using \cup {"crashed"} => pc[c] = "calling"
        /\ pc[c] = "connecting" <=> making[c] \in Chan

\* A channel that is being made is nobody else's.
MadeAlone ==
    \A c \in Call : making[c] \in Chan =>
        /\ \A d \in Call : on[d] # making[c] /\ (d # c => making[d] # making[c])
        /\ \A a \in Addr : pool[a] # making[c]

Inv == Types /\ Streams /\ Placed /\ MadeAlone

Listed == instances \in SUBSET Addr

-----------------------------------------------------------------------------
\* A channel without a stream is a channel, and so is one with a stream.
LEMMA NewChannels == Closed \in Channels /\ Opened \in Channels
<1>1. <<>> \in Seq(Call) /\ <<>> \in Seq(Call \X BOOLEAN)
  OBVIOUS
<1>2. Closed \in Channels
  BY <1>1 DEF Closed, Channels
<1>3. Opened = [Closed EXCEPT !.connected = TRUE, !.stream = TRUE, !.peer = TRUE]
  BY DEF Opened
<1> QED
  BY <1>2, <1>3 DEF Channels

\* Whatever has no owner, the channels of calls and those that are pooled keep
\* their streams when the unused ones are dropped.
LEMMA DropKeeps ==
    ASSUME NEW next \in [Chan -> Channels], DropUnused(next)
    PROVE  /\ chan' \in [Chan -> Channels]
           /\ \A c \in Call : on'[c] \in Chan => chan'[on'[c]] = next[on'[c]]
BY NewChannels DEF DropUnused, Unused

\* The steps of the I/O of a call keep the streams of all channels.
LEMMA IoKeepsStreams ==
    ASSUME Inv, NEW c \in Call, io[c] \in Using,
           Write(c) \/ ReadAll(c) \/ ReadWaits(c) \/ FinishUnanswered(c) \/ Finish(c)
    PROVE  /\ chan' \in [Chan -> Channels]
           /\ \A ch \in Chan : chan'[ch].stream = chan[ch].stream
<1> on[c] \in Chan
  BY DEF Inv, Streams
<1> chan[on[c]] \in Channels
  BY DEF Inv, Types
<1> DEFINE r == chan[on[c]]
<1> chan \in [Chan -> Channels] /\ on[c] \in Chan /\ r \in Channels
  BY DEF Inv, Types
<1>0. <<>> \in Seq(Call \X BOOLEAN)
  OBVIOUS
<1>1. CASE Write(c)
  <2> DEFINE n == [r EXCEPT !.requests = Append(@, c)]
  <2>1. Append(r.requests, c) \in Seq(Call)
    BY DEF Channels
  <2>2. n \in Channels /\ n.stream = r.stream
    BY <2>1 DEF Channels
  <2>3. chan' = [chan EXCEPT ![on[c]] = n] \/ chan' = chan
    BY <1>1 DEF Write
  <2> QED
    BY <2>2, <2>3
<1>2. CASE ReadAll(c)
  <2> DEFINE n == [r EXCEPT !.buffer = @ \o r.answers, !.answers = <<>>,
                            !.reader = IF @ = c THEN NoCall ELSE @]
  <2>1. r.buffer \o r.answers \in Seq(Call \X BOOLEAN)
    BY DEF Channels
  <2>2. n \in Channels /\ n.stream = r.stream
    BY <1>0, <2>1 DEF Channels
  <2>3. chan' = [chan EXCEPT ![on[c]] = n]
    BY <1>2 DEF ReadAll
  <2> QED
    BY <2>2, <2>3
<1>3. CASE ReadWaits(c)
  BY <1>3 DEF ReadWaits, Channels
<1>4. CASE FinishUnanswered(c)
  BY <1>4 DEF FinishUnanswered, Channels
<1>5. CASE Finish(c)
  <2> DEFINE n == [r EXCEPT !.buffer = <<>>]
  <2>1. n \in Channels /\ n.stream = r.stream
    BY <1>0 DEF Channels
  <2>2. chan' = [chan EXCEPT ![on[c]] = n]
    BY <1>5 DEF Finish, Decoded
  <2> QED
    BY <2>1, <2>2
<1> QED
  BY <1>1, <1>2, <1>3, <1>4, <1>5

\* So does the start of a call, and what the server does.
LEMMA CallKeepsStreams ==
    ASSUME Inv, NEW ch \in Chan,
           \/ \E c \in Call : on[c] = ch /\ CallMethodAsync(c)
           \/ \E good \in BOOLEAN : Serve(ch, good)
           \/ PeerCloses(ch)
    PROVE  /\ chan' \in [Chan -> Channels]
           /\ \A x \in Chan : chan'[x].stream = chan[x].stream
<1> DEFINE r == chan[ch]
<1> chan \in [Chan -> Channels] /\ r \in Channels
  BY DEF Inv, Types
<1>1. ASSUME NEW c \in Call, on[c] = ch, CallMethodAsync(c)
      PROVE  /\ chan' \in [Chan -> Channels]
             /\ \A x \in Chan : chan'[x].stream = chan[x].stream
  <2> DEFINE n == [r EXCEPT !.shared = @ \/ ~Alone(c)]
  <2>1. n \in Channels /\ n.stream = r.stream
    BY DEF Channels, Alone
  <2>2. chan' = [chan EXCEPT ![ch] = n] \/ chan' = chan
    BY <1>1 DEF CallMethodAsync
  <2> QED
    BY <2>1, <2>2
<1>2. ASSUME NEW good \in BOOLEAN, Serve(ch, good)
      PROVE  /\ chan' \in [Chan -> Channels]
             /\ \A x \in Chan : chan'[x].stream = chan[x].stream
  <2> DEFINE c == Head(r.requests)
             n == [r EXCEPT !.answers = Append(@, <<c, good>>), !.requests = Tail(@)]
  <2>1. r.requests \in Seq(Call) /\ r.requests # <<>>
    BY <1>2 DEF Serve, Channels
  <2>2. c \in Call /\ Tail(r.requests) \in Seq(Call)
    BY <2>1
  <2>3. Append(r.answers, <<c, good>>) \in Seq(Call \X BOOLEAN)
    BY <2>2 DEF Channels
  <2>4. n \in Channels /\ n.stream = r.stream
    BY <2>2, <2>3 DEF Channels
  <2>5. chan' = [chan EXCEPT ![ch] = n]
    BY <1>2 DEF Serve
  <2> QED
    BY <2>4, <2>5
<1>3. CASE PeerCloses(ch)
  <2> DEFINE n == [r EXCEPT !.peer = FALSE, !.requests = <<>>]
  <2>1. <<>> \in Seq(Call)
    OBVIOUS
  <2>2. n \in Channels /\ n.stream = r.stream
    BY <2>1 DEF Channels
  <2>3. chan' = [chan EXCEPT ![ch] = n]
    BY <1>3 DEF PeerCloses
  <2> QED
    BY <2>2, <2>3
<1> QED
  BY <1>1, <1>2, <1>3

-----------------------------------------------------------------------------
\* What changes of a call c alone, when it returns or has got a channel ch.
OnlyOf(c, ch) ==
    /\ on' \in [Call -> Chan \cup {NoChan}]
    /\ io' \in [Call -> Using \cup {"none", "ended", "crashed"}]
    /\ robbed' \in [Call -> BOOLEAN]
    /\ pc' \in [Call -> {"idle", "get", "connecting", "call", "calling",
                         "crashed", "true", "false"}]
    /\ \A d \in Call \ {c} :
          /\ on'[d] = on[d] /\ io'[d] = io[d]
          /\ robbed'[d] = robbed[d] /\ pc'[d] = pc[d]
    /\ on'[c] \in {on[c], ch, NoChan}
    /\ io'[c] \notin Using \cup {"crashed"}
    /\ pc'[c] # "connecting"

LEMMA ReturnKeeps ==
    ASSUME Inv, NEW c \in Call, NEW result \in {"true", "false"}, Return(c, result)
    PROVE  OnlyOf(c, NoChan)
BY DEF Return, OnlyOf, Inv, Types, Using

LEMMA GotKeeps ==
    ASSUME Inv, NEW c \in Call, NEW ch \in Chan \cup {NoChan},
           pc[c] \in {"get", "connecting"}, Got(c, ch)
    PROVE  OnlyOf(c, ch)
<1>1. io[c] \notin Using \cup {"crashed"}
  BY DEF Inv, Placed
<1>2. CASE GiveUp(c)
  <2>1. OnlyOf(c, NoChan)
    BY <1>2, ReturnKeeps DEF GiveUp
  <2> QED
    BY <2>1 DEF OnlyOf
<1>3. CASE Reconnect(c)
  BY <1>1, <1>3 DEF Reconnect, OnlyOf, Inv, Types
<1>4. CASE /\ pc' = [pc EXCEPT ![c] = "call"]
           /\ on' = [on EXCEPT ![c] = ch]
           /\ UNCHANGED <<io, failed, history, unavailable, why, tries, robbed>>
  BY <1>1, <1>4 DEF OnlyOf, Inv, Types
<1> QED
  BY <1>2, <1>3, <1>4 DEF Got

\* A call that returns or gets a channel ch, while the unused are dropped and the
\* channel that it made, if any, enters the pool or goes.
LEMMA OnlyOfInv ==
    ASSUME Inv, NEW c \in Call, NEW ch \in Chan \cup {NoChan},
           NEW next \in [Chan -> Channels],
           OnlyOf(c, ch), DropUnused(next), target' = target,
           \A x \in Chan : next[x] = chan[x] \/ x = making[c],
           \A d \in Call \ {c} : ch \in Chan => making[d] # ch,
           \/ making' = making /\ making[c] = NoChan
           \/ making' = [making EXCEPT ![c] = NoChan],
           \/ pool' = pool
           \/ \E a \in Addr : pool' = [pool EXCEPT ![a] = making[c]]
    PROVE  Inv'
<1>1. Types'
  BY DropKeeps DEF Inv, Types, OnlyOf
<1>2. Placed'
  <2> SUFFICES ASSUME NEW d \in Call
               PROVE  /\ io'[d] \in Using \cup {"crashed"} => pc'[d] = "calling"
                      /\ pc'[d] = "connecting" <=> making'[d] \in Chan
    BY DEF Placed
  <2>1. CASE d = c
    <3>1. making'[c] = NoChan
      BY DEF Inv, Types
    <3> QED
      BY <2>1, <3>1, NullAssumption DEF OnlyOf
  <2>2. CASE d # c
    <3>1. io'[d] = io[d] /\ pc'[d] = pc[d]
      BY <2>2 DEF OnlyOf
    <3>2. making'[d] = making[d]
      BY <2>2 DEF Inv, Types
    <3> QED
      BY <3>1, <3>2 DEF Inv, Placed
  <2> QED
    BY <2>1, <2>2
<1>3. Streams'
  <2> SUFFICES ASSUME NEW d \in Call
               PROVE  /\ io'[d] \in Using =>
                            on'[d] \in Chan /\ (robbed'[d] \/ chan'[on'[d]].stream)
                      /\ io'[d] = "crashed" => robbed'[d]
    BY DEF Streams
  <2>1. CASE d = c
    BY <2>1 DEF OnlyOf
  <2>2. CASE d # c
    <3>1. on'[d] = on[d] /\ io'[d] = io[d] /\ robbed'[d] = robbed[d]
      BY <2>2 DEF OnlyOf
    <3>2. on[d] \in Chan => chan'[on[d]] = chan[on[d]]
      BY <3>1, DropKeeps DEF Inv, MadeAlone, Types
    <3> QED
      BY <3>1, <3>2 DEF Inv, Streams
  <2> QED
    BY <2>1, <2>2
<1>4. MadeAlone'
  <2> SUFFICES ASSUME NEW d \in Call, making'[d] \in Chan
               PROVE  /\ \A e \in Call :
                            on'[e] # making'[d] /\ (e # d => making'[e] # making'[d])
                      /\ \A a \in Addr : pool'[a] # making'[d]
    BY DEF MadeAlone
  <2>1. d # c /\ making'[d] = making[d] /\ making[d] \in Chan
    BY NullAssumption DEF Inv, Types
  <2>2. /\ \A e \in Call : on[e] # making[d] /\ (e # d => making[e] # making[d])
        /\ \A a \in Addr : pool[a] # making[d]
    BY <2>1 DEF Inv, MadeAlone
  <2>3. \A e \in Call : on'[e] # making'[d]
    BY <2>1, <2>2, NullAssumption DEF OnlyOf
  <2>4. \A e \in Call : e # d => making'[e] # making'[d]
    BY <2>1, <2>2, NullAssumption DEF Inv, Types
  <2>5. \A a \in Addr : pool'[a] # making'[d]
    BY <2>1, <2>2 DEF Inv, Types
  <2> QED
    BY <2>3, <2>4, <2>5
<1> QED
  BY <1>1, <1>2, <1>3, <1>4 DEF Inv

-----------------------------------------------------------------------------
\* The streams stay as they are, and who starts to use one has it.
LEMMA StreamsKept ==
    ASSUME Inv, chan' \in [Chan -> Channels],
           \A x \in Chan : chan'[x].stream = chan[x].stream,
           UNCHANGED <<on, robbed>>,
           \A d \in Call :
              /\ io'[d] \in Using =>
                    \/ io[d] \in Using
                    \/ on[d] \in Chan /\ chan[on[d]].stream
              /\ io'[d] = "crashed" => io[d] = "crashed" \/ robbed[d]
    PROVE  Streams'
BY DEF Inv, Streams

LEMMA IoInv ==
    ASSUME Inv, NEW c \in Call, Io(c)
    PROVE  Inv'
<1> USE DEF Inv, Types
<1>1. io[c] \in Using /\ pc[c] = "calling" /\ UNCHANGED clientVars
  BY DEF Io, IoStep, Using, Write, ReadAll, ReadWaits, FinishUnanswered, Finish
<1>2. on[c] \in Chan /\ (robbed[c] \/ chan[on[c]].stream)
  BY <1>1 DEF Streams
<1>3. CASE Write(c) \/ ReadAll(c) \/ ReadWaits(c) \/ FinishUnanswered(c) \/ Finish(c)
  <2>1. UNCHANGED on /\ \E p \in {"read", "error", "done", "reading", "ended"} :
                          io' = [io EXCEPT ![c] = p]
    BY <1>3 DEF Write, ReadAll, ReadWaits, FinishUnanswered, Finish
  <2>2. PICK p \in {"read", "error", "done", "reading", "ended"} :
                          io' = [io EXCEPT ![c] = p]
    BY <2>1
  <2>3. \A d \in Call : (io'[d] \in Using => io[d] \in Using)
                       /\ (io'[d] = "crashed" => io[d] = "crashed")
    BY <1>1, <2>2
  <2>4. chan' \in [Chan -> Channels] /\ \A x \in Chan : chan'[x].stream = chan[x].stream
    BY <1>1, <1>3, IoKeepsStreams
  <2>5. Streams'
    BY <1>1, <2>1, <2>3, <2>4, StreamsKept DEF clientVars
  <2>6. Types'
    BY <1>1, <2>1, <2>2, <2>4 DEF clientVars, Using
  <2>7. Placed' /\ MadeAlone'
    BY <1>1, <2>1, <2>2, <2>3 DEF clientVars, Placed, MadeAlone
  <2> QED
    BY <2>5, <2>6, <2>7
<1>4. CASE NullStream(c)
  <2>1. robbed[c] /\ chan' = chan /\ on' = on /\ io' = [io EXCEPT ![c] = "crashed"]
    BY <1>2, <1>4 DEF NullStream
  <2>2. Streams'
    BY <1>1, <2>1 DEF Streams, clientVars, Using
  <2>3. Types' /\ Placed' /\ MadeAlone'
    BY <1>1, <2>1 DEF clientVars, Placed, MadeAlone, Using
  <2> QED
    BY <2>2, <2>3
<1> QED
  BY <1>3, <1>4 DEF Io, IoStep

LEMMA BeginInv ==
    ASSUME Inv, NEW c \in Call, Begin(c)
    PROVE  Inv'
<1> USE DEF Inv, Types
<1>1. /\ on[c] \in Chan /\ CallMethodAsync(c)
      /\ pc[c] = "call" /\ pc' = [pc EXCEPT ![c] = "calling"]
      /\ UNCHANGED <<on, pool, target, making, robbed>>
  BY DEF Begin, CallMethodAsync
<1>2. chan' \in [Chan -> Channels] /\ \A x \in Chan : chan'[x].stream = chan[x].stream
  BY <1>1, CallKeepsStreams
<1>3. \/ io' = [io EXCEPT ![c] = "write"] /\ chan[on[c]].stream
      \/ io' = [io EXCEPT ![c] = "ended"]
  BY <1>1 DEF CallMethodAsync
<1>4. Streams'
  <2> \A d \in Call :
         /\ io'[d] \in Using =>
               \/ io[d] \in Using
               \/ on[d] \in Chan /\ chan[on[d]].stream
         /\ io'[d] = "crashed" => io[d] = "crashed" \/ robbed[d]
    BY <1>1, <1>3 DEF Using
  <2> QED
    BY <1>1, <1>2, StreamsKept
<1>5. Types' /\ Placed' /\ MadeAlone'
  BY <1>1, <1>2, <1>3 DEF Placed, MadeAlone, Using
<1> QED
  BY <1>4, <1>5

\* Steps of a call that lead it elsewhere.
LEMMA PlaceInv ==
    ASSUME Inv, Listed, NEW c \in Call, Select(c) \/ BeginNull(c) \/ Retry(c)
    PROVE  Inv'
<1> USE DEF Inv, Types
<1>1. /\ UNCHANGED <<chan, on, io, pool, making, robbed>>
      /\ io[c] \notin Using \cup {"crashed"} /\ pc[c] # "connecting"
      /\ \E p \in {"false", "get", "crashed", "call"} : pc' = [pc EXCEPT ![c] = p]
  BY DEF Select, BeginNull, Retry, callVars, Placed, Using
<1>2. target' \in [Call -> Addr]
  <2>1. CASE Select(c)
    BY <2>1 DEF Select, Available, Listed
  <2>2. CASE BeginNull(c) \/ Retry(c)
    BY <2>2 DEF BeginNull, Retry
  <2> QED
    BY <2>1, <2>2
<1>3. Streams' /\ MadeAlone'
  BY <1>1 DEF Streams, MadeAlone
<1>4. PICK p \in {"false", "get", "crashed", "call"} : pc' = [pc EXCEPT ![c] = p]
  BY <1>1
<1>5. Types'
  BY <1>1, <1>2, <1>4
<1>6. Placed'
  <2> SUFFICES ASSUME NEW d \in Call
               PROVE  /\ io'[d] \in Using \cup {"crashed"} => pc'[d] = "calling"
                      /\ pc'[d] = "connecting" <=> making'[d] \in Chan
    BY DEF Placed
  <2>1. CASE d = c
    <3>1. pc'[c] = p
      BY <1>4
    <3> QED
      BY <1>1, <2>1, <3>1 DEF Placed
  <2>2. CASE d # c
    BY <1>1, <1>4, <2>2 DEF Placed
  <2> QED
    BY <2>1, <2>2
<1> QED
  BY <1>3, <1>5, <1>6

LEMMA CreateInv ==
    ASSUME Inv, NEW c \in Call, Create(c)
    PROVE  Inv'
<1> USE DEF Inv, Types
<1> DEFINE ch == CHOOSE x \in Unused(on, making, pool) : TRUE
<1>1. ch \in Unused(on, making, pool)
  BY DEF Create
<1>2. /\ ch \in Chan
      /\ \A d \in Call : on[d] # ch /\ making[d] # ch
      /\ \A a \in Addr : pool[a] # ch
  BY <1>1 DEF Unused
<1>3. /\ making' = [making EXCEPT ![c] = ch]
      /\ pc[c] = "get" /\ pc' = [pc EXCEPT ![c] = "connecting"]
      /\ UNCHANGED <<chan, on, io, pool, target, robbed>>
  BY DEF Create, callVars
<1>4. Types' /\ Placed' /\ Streams'
  BY <1>2, <1>3 DEF Placed, Streams, Using
<1>5. MadeAlone'
  BY <1>2, <1>3 DEF MadeAlone
<1> QED
  BY <1>4, <1>5

-----------------------------------------------------------------------------
\* A pooled channel is taken, a new one is connected or not in time, and a call
\* returns.
LEMMA ReuseInv ==
    ASSUME Inv, NEW c \in Call, Reuse(c)
    PROVE  Inv'
<1> DEFINE ch == pool[target[c]]
<1>1. /\ ch \in Chan \cup {NoChan} /\ chan \in [Chan -> Channels]
      /\ pc[c] = "get" /\ making[c] = NoChan
  BY DEF Inv, Types, Placed, Reuse
<1>2. OnlyOf(c, ch) /\ DropUnused(chan) /\ UNCHANGED <<target, making, pool>>
  BY <1>1, GotKeeps DEF Reuse
<1>3. \A d \in Call \ {c} : ch \in Chan => making[d] # ch
  BY DEF Inv, MadeAlone, Types
<1> QED
  BY <1>1, <1>2, <1>3, OnlyOfInv

LEMMA MadeInv ==
    ASSUME Inv, NEW c \in Call, NEW outcome \in {Opened, Closed}, Made(c, outcome)
    PROVE  Inv'
<1> DEFINE ch == making[c]
           next == [chan EXCEPT ![ch] = outcome]
<1>1. /\ chan \in [Chan -> Channels] /\ pc[c] = "connecting" /\ ch \in Chan
      /\ target[c] \in Addr
  BY DEF Inv, Types, Placed, Made
<1>2. /\ OnlyOf(c, ch) /\ DropUnused(next) /\ UNCHANGED target
      /\ making' = [making EXCEPT ![c] = NoChan]
      /\ pool' = [pool EXCEPT ![target[c]] = making[c]]
  BY <1>1, GotKeeps DEF Made
<1>3. next \in [Chan -> Channels] /\ \A x \in Chan : next[x] = chan[x] \/ x = making[c]
  BY <1>1, NewChannels
<1>4. \A d \in Call \ {c} : ch \in Chan => making[d] # ch
  BY DEF Inv, MadeAlone
<1> HIDE DEF next
<1> QED
  BY <1>1, <1>2, <1>3, <1>4, OnlyOfInv

LEMMA ConnectLateInv ==
    ASSUME Inv, NEW c \in Call, ConnectLate(c)
    PROVE  Inv'
<1>1. chan \in [Chan -> Channels] /\ pc[c] = "connecting" /\ NoChan \notin Chan
  BY NullAssumption DEF Inv, Types, ConnectLate
<1>2. /\ OnlyOf(c, NoChan) /\ DropUnused(chan) /\ UNCHANGED <<target, pool>>
      /\ making' = [making EXCEPT ![c] = NoChan]
  BY <1>1, GotKeeps DEF ConnectLate
<1> QED
  BY <1>1, <1>2, OnlyOfInv

LEMMA OverInv ==
    ASSUME Inv, NEW c \in Call, Succeed(c) \/ Fail(c)
    PROVE  Inv'
<1>1. /\ chan \in [Chan -> Channels] /\ NoChan \notin Chan /\ making[c] = NoChan
  BY NullAssumption DEF Inv, Types, Placed, Succeed, Fail
<1>2. OnlyOf(c, NoChan) /\ DropUnused(chan) /\ UNCHANGED <<target, making, pool>>
  BY ReturnKeeps DEF Succeed, Fail, GiveUp
<1> QED
  BY <1>1, <1>2, OnlyOfInv

-----------------------------------------------------------------------------
\* Those who use a channel that is closed are robbed of it.
LEMMA CloseInv ==
    ASSUME Inv, NEW gone \in SUBSET Chan,
           chan' = Close(gone),
           robbed' = [c \in Call |-> robbed[c] \/ on[c] \in gone],
           pool' \in [Addr -> Chan \cup {NoChan}],
           \A a \in Addr : pool'[a] \in {pool[a], NoChan},
           UNCHANGED <<callVars, pc, target, making>>
    PROVE  Inv'
<1> USE DEF Inv, Types
<1>1. \A ch \in gone :
         [Closed EXCEPT !.shared = chan[ch].shared, !.missed = chan[ch].missed]
            \in Channels
  BY NewChannels DEF Channels
<1>2. chan' \in [Chan -> Channels] /\ \A ch \in Chan \ gone : chan'[ch] = chan[ch]
  BY <1>1 DEF Close
<1>3. UNCHANGED <<on, io, pc, target, making>>
  BY DEF callVars
<1>4. Types' /\ Placed'
  BY <1>2, <1>3 DEF Placed
<1>5. Streams'
  BY <1>2, <1>3 DEF Streams, Using
<1>6. MadeAlone'
  BY <1>3, NullAssumption DEF MadeAlone
<1> QED
  BY <1>4, <1>5, <1>6

\* The server's steps.
LEMMA ServerInv ==
    ASSUME Inv, NEW ch \in Chan, Answer(ch) \/ Disturb(ch)
    PROVE  Inv'
<1> USE DEF Inv, Types
<1>1. chan' \in [Chan -> Channels] /\ \A x \in Chan : chan'[x].stream = chan[x].stream
  BY CallKeepsStreams DEF Answer, Disturb
<1>2. UNCHANGED <<on, io, pool, making, target, pc, robbed>>
  BY DEF Answer, Disturb, Serve, PeerCloses, callVars, clientVars
<1>3. Streams'
  BY <1>1, <1>2, StreamsKept
<1>4. Types' /\ Placed' /\ MadeAlone'
  BY <1>1, <1>2 DEF Placed, MadeAlone
<1> QED
  BY <1>3, <1>4

-----------------------------------------------------------------------------
LEMMA InitInv == Init => Inv
<1> SUFFICES ASSUME Init PROVE Inv
  OBVIOUS
<1>1. (CHOOSE a \in Addr : TRUE) \in Addr
  BY ClientAssumption
<1>2. Types
  BY <1>1, NewChannels DEF Init, ChannelInit, Types
<1>3. Streams /\ Placed /\ MadeAlone
  BY NullAssumption DEF Init, ChannelInit, Streams, Placed, MadeAlone, Using
<1> QED
  BY <1>2, <1>3 DEF Inv

\* The instances are addresses, whoever changes them.
LEMMA ListedInv ==
    ASSUME Listed, [Next]_vars
    PROVE  Listed'
<1>1. ASSUME NEW c \in Call,
             ClientStep(c) \/ Late(c) \/ ConnectFails(c) \/ ConnectLate(c)
      PROVE  instances' = instances
  BY <1>1 DEF ClientStep, Select, Reuse, Create, Connect, Made, Begin, BeginNull, Io,
              Succeed, Retry, Fail, Late, ConnectFails, ConnectLate, clientVars, listVars
<1>2. ASSUME NEW ch \in Chan, Answer(ch) \/ Disturb(ch)
      PROVE  instances' = instances
  BY <1>2 DEF Answer, Disturb, clientVars, listVars
<1>3. ASSUME NEW S \in SUBSET Addr, UpdateInstances(S)
      PROVE  Listed'
  BY <1>3 DEF UpdateInstances, Listed
<1>4. CASE Disconnect
  BY <1>4 DEF Disconnect, Listed
<1>5. CASE UNCHANGED vars
  BY <1>5 DEF vars, clientVars, listVars, Listed
<1> QED
  BY <1>1, <1>2, <1>3, <1>4, <1>5 DEF Next, Listed

LEMMA NextInv ==
    ASSUME Inv, Listed, [Next]_vars
    PROVE  Inv'
<1>1. ASSUME NEW c \in Call, ClientStep(c)
      PROVE  Inv'
  <2>1. CASE Select(c) \/ BeginNull(c) \/ Retry(c)
    BY <2>1, PlaceInv
  <2>2. CASE Reuse(c)
    BY <2>2, ReuseInv
  <2>3. CASE Create(c)
    BY <2>3, CreateInv
  <2>4. CASE Connect(c)
    BY <2>4, MadeInv DEF Connect
  <2>5. CASE Begin(c)
    BY <2>5, BeginInv
  <2>6. CASE Io(c)
    BY <2>6, IoInv
  <2>7. CASE Succeed(c) \/ Fail(c)
    BY <2>7, OverInv
  <2> QED
    BY <1>1, <2>1, <2>2, <2>3, <2>4, <2>5, <2>6, <2>7 DEF ClientStep
<1>2. ASSUME NEW c \in Call, Late(c) \/ ConnectFails(c) \/ ConnectLate(c)
      PROVE  Inv'
  <2>1. CASE Late(c)
    <3>1. UNCHANGED <<chan, on, io, pool, making, target, pc, robbed>>
      BY <2>1 DEF Late, Expire
    <3> QED
      BY <3>1 DEF Inv, Types, Streams, Placed, MadeAlone
  <2>2. CASE ConnectFails(c)
    BY <2>2, MadeInv DEF ConnectFails
  <2> QED
    BY <1>2, <2>1, <2>2, ConnectLateInv
<1>3. ASSUME NEW S \in SUBSET Addr, UpdateInstances(S)
      PROVE  Inv'
  <2> DEFINE gone == {pool[a] : a \in Addr \ S} \ {NoChan}
  <2>1. gone \in SUBSET Chan
    BY DEF Inv, Types
  <2>2. /\ pool' \in [Addr -> Chan \cup {NoChan}]
        /\ \A a \in Addr : pool'[a] \in {pool[a], NoChan}
    BY <1>3 DEF UpdateInstances, Inv, Types
  <2> QED
    BY <1>3, <2>1, <2>2, CloseInv DEF UpdateInstances
<1>4. ASSUME Disconnect
      PROVE  Inv'
  <2> DEFINE gone == {pool[a] : a \in Addr} \ {NoChan}
  <2>1. gone \in SUBSET Chan
    BY DEF Inv, Types
  <2>2. /\ pool' \in [Addr -> Chan \cup {NoChan}]
        /\ \A a \in Addr : pool'[a] \in {pool[a], NoChan}
    BY <1>4 DEF Disconnect, Inv, Types
  <2> QED
    BY <1>4, <2>1, <2>2, CloseInv DEF Disconnect
<1>5. CASE UNCHANGED vars
  BY <1>5 DEF vars, callVars, clientVars, Inv, Types, Streams, Placed, MadeAlone
<1> QED
  BY <1>1, <1>2, <1>3, <1>4, <1>5, ServerInv DEF Next

\* A call dereferences a null stream only if another closed its channel: the
\* tests of CallMethodAsync() and the reference that each call holds suffice
\* against everything else that happens to the pool while it waits.
THEOREM NullOnlyRobbed == Spec => []NullOnlyWhenRobbed
<1>1. Inv => NullOnlyWhenRobbed
  BY DEF Inv, Streams, NullOnlyWhenRobbed
<1>2. Init => Listed
  BY DEF Init, Listed
<1> QED
  BY <1>1, <1>2, InitInv, NextInv, ListedInv, PTL DEF Spec

-----------------------------------------------------------------------------
\* The answers.  An answer has no number that is compared with that of the
\* request: what makes it the call's own is what is on its way in the channel.

Kinds ==
    /\ failed \in [Call -> BOOLEAN]
    /\ own \in [Call -> BOOLEAN]
    /\ executed \in [Call -> 0 .. 2]

\* Nothing is on its way.
Clean(ch) ==
    chan[ch].requests = <<>> /\ chan[ch].answers = <<>> /\ chan[ch].buffer = <<>>

\* All that is on its way is the request of c, the answer to it, or the answer
\* in the buffer.
Requested(ch, c) ==
    /\ chan[ch].requests = <<c>> /\ chan[ch].peer
    /\ chan[ch].answers = <<>> /\ chan[ch].buffer = <<>>
    /\ io[c] \in {"read", "reading"}
    /\ ~failed[c] => executed[c] = 0

AnswerSent(ch, c) ==
    /\ chan[ch].requests = <<>> /\ chan[ch].buffer = <<>>
    /\ \E good \in BOOLEAN : chan[ch].answers = << <<c, good>> >>
    /\ io[c] \in {"read", "reading"}
    /\ ~failed[c] => executed[c] = 1

AnswerRead(ch, c) ==
    /\ chan[ch].requests = <<>> /\ chan[ch].answers = <<>>
    /\ \E good \in BOOLEAN : chan[ch].buffer = << <<c, good>> >>
    /\ io[c] = "done"
    /\ ~failed[c] => executed[c] = 1

Exchange(ch, c) ==
    /\ on[c] = ch
    /\ Requested(ch, c) \/ AnswerSent(ch, c) \/ AnswerRead(ch, c)

\* A channel without a stream has nothing on its way and no peer.
Dry ==
    \A ch \in Chan : ~chan[ch].stream => Clean(ch) /\ ~chan[ch].peer

\* A channel that is in step has one user, and nothing of another on its way.
OneUser ==
    \A c, d \in Call :
        /\ on[c] \in Chan /\ InStep(on[c]) /\ on[d] = on[c]
        /\ io[c] \in Using /\ io[d] \in Using
        => c = d

Orderly ==
    \A ch \in Chan :
        InStep(ch) => Clean(ch) \/ \E c \in Call : Exchange(ch, c)

Asks(c, ch) == \E k \in DOMAIN chan[ch].requests : chan[ch].requests[k] = c

\* A call that has not failed has written one request at most, where it is.
WrittenOnce(c) ==
    ~failed[c] /\ pc[c] # "true" =>
        /\ \A ch \in Chan : Asks(c, ch) =>
              on[c] = ch /\ io[c] \in {"read", "reading", "done", "ended", "crashed"}
        /\ io[c] \in {"none", "write"} => executed[c] = 0
        /\ pc[c] \in {"idle", "get", "connecting", "call"} => io[c] = "none"

\* A call that ends with an answer has its own, to the only request it has made.
Answered(c) ==
    io[c] = "ended" /\ ~failed[c] =>
        /\ pc[c] = "calling" /\ on[c] \in Chan
        /\ InStep(on[c]) =>
              own[c] /\ executed[c] = 1 /\ \A ch \in Chan : ~Asks(c, ch)

Exchanges ==
    /\ Kinds /\ Dry /\ OneUser /\ Orderly
    /\ \A c \in Call : WrittenOnce(c) /\ Answered(c)

-----------------------------------------------------------------------------
\* Requests: one more at the end, one fewer at the front.
LEMMA AppendAsks ==
    ASSUME NEW s \in Seq(Call), NEW c \in Call, NEW k \in DOMAIN Append(s, c)
    PROVE  Append(s, c)[k] = c \/ (k \in DOMAIN s /\ s[k] = Append(s, c)[k])
OBVIOUS

LEMMA TailAsks ==
    ASSUME NEW s \in Seq(Call), s # <<>>
    PROVE  /\ Head(s) \in Call /\ Tail(s) \in Seq(Call)
           /\ 1 \in DOMAIN s /\ s[1] = Head(s)
           /\ \A k \in DOMAIN Tail(s) : k + 1 \in DOMAIN s /\ s[k + 1] = Tail(s)[k]
OBVIOUS

\* Sequences of one.
LEMMA OneOnly ==
    /\ \A c : Append(<<>>, c) = <<c>>
    /\ \A c : Head(<<c>>) = c /\ Tail(<<c>>) = <<>> /\ <<c>> # <<>>
    /\ \A c : <<>> \o <<c>> = <<c>>
    /\ <<>> \o <<>> = <<>>
<1>1. ASSUME NEW c PROVE <<c>> \in Seq({c}) /\ Len(<<c>>) = 1
  OBVIOUS
<1>2. <<>> \in Seq({}) /\ Len(<<>>) = 0
  OBVIOUS
<1>3. ASSUME NEW c PROVE Append(<<>>, c) = <<c>>
  OBVIOUS
<1>4. ASSUME NEW c PROVE Head(<<c>>) = c /\ Tail(<<c>>) = <<>> /\ <<c>> # <<>>
  OBVIOUS
<1>5. ASSUME NEW c PROVE <<>> \o <<c>> = <<c>>
  OBVIOUS
<1>6. <<>> \o <<>> = <<>>
  OBVIOUS
<1> QED
  BY <1>3, <1>4, <1>5, <1>6

LEMMA ChannelFields ==
    ASSUME Inv, NEW ch \in Chan
    PROVE  /\ chan[ch] \in Channels
           /\ chan[ch].requests \in Seq(Call)
           /\ chan[ch].answers \in Seq(Call \X BOOLEAN)
           /\ chan[ch].buffer \in Seq(Call \X BOOLEAN)
<1>1. chan[ch] \in Channels
  BY DEF Inv, Types
<1> QED
  BY <1>1 DEF Channels

\* A channel without a stream, or with a new one, has nothing on its way.
LEMMA NewAreClean ==
    /\ Closed.requests = <<>> /\ Closed.answers = <<>> /\ Closed.buffer = <<>>
    /\ ~Closed.peer /\ ~Closed.stream
    /\ Opened.requests = <<>> /\ Opened.answers = <<>> /\ Opened.buffer = <<>>
    /\ Opened.stream
BY DEF Opened, Closed

\* The exchange of a call on a channel that nothing happens to.
LEMMA ExchangeKept ==
    ASSUME NEW ch \in Chan, NEW c \in Call, Exchange(ch, c), chan'[ch] = chan[ch],
           on'[c] = on[c], io'[c] = io[c], failed'[c] = failed[c],
           executed'[c] = executed[c]
    PROVE  Exchange(ch, c)'
BY DEF Exchange, Requested, AnswerSent, AnswerRead

LEMMA ExchangeUses ==
    ASSUME NEW ch \in Chan, NEW c \in Call, Exchange(ch, c)
    PROVE  on[c] = ch /\ io[c] \in Using
BY DEF Exchange, Requested, AnswerSent, AnswerRead, Using

-----------------------------------------------------------------------------
\* Steps of a call that uses no stream, before and after: it gets a channel, or
\* begins in vain, or returns.  Channels that change are new, or are nobody's.
Same(d) ==
    /\ on'[d] = on[d] /\ io'[d] = io[d] /\ failed'[d] = failed[d]
    /\ own'[d] = own[d] /\ executed'[d] = executed[d] /\ pc'[d] = pc[d]

NotBegun == {"idle", "get", "connecting", "call"}

Elsewhere(c) ==
    /\ \A d \in Call \ {c} : Same(d)
    /\ io[c] \notin Using /\ io'[c] \notin Using
    /\ ~failed'[c] =>
          \/ pc'[c] = "true" /\ io'[c] = "none"
          \/ /\ pc[c] \in NotBegun /\ ~failed[c]
             /\ io'[c] = io[c] /\ executed'[c] = executed[c]
    /\ \A x \in Chan :
          \/ chan'[x] = chan[x]
          \/ chan'[x] \in {Closed, Opened} /\ \A d \in Call \ {c} : on[d] # x

LEMMA ElsewhereInv ==
    ASSUME Inv, Exchanges, NEW c \in Call, Elsewhere(c), Kinds'
    PROVE  Exchanges'
<1>1. Dry'
  BY NewAreClean DEF Exchanges, Dry, Clean, Elsewhere
<1>2. OneUser'
  <2> SUFFICES ASSUME NEW d \in Call, NEW e \in Call,
                      on'[d] \in Chan, InStep(on[d])', on'[e] = on'[d],
                      io'[d] \in Using, io'[e] \in Using
               PROVE  d = e
    BY DEF OneUser
  <2>1. d # c /\ e # c
    BY DEF Elsewhere
  <2>2. Same(d) /\ Same(e) /\ chan'[on[d]] = chan[on[d]]
    BY <2>1 DEF Elsewhere, Same
  <2> QED
    BY <2>2 DEF Same, Exchanges, OneUser, InStep
<1>3. Orderly'
  <2> SUFFICES ASSUME NEW ch \in Chan, InStep(ch)'
               PROVE  Clean(ch)' \/ \E d \in Call : Exchange(ch, d)'
    BY DEF Orderly
  <2>1. CASE chan'[ch] = chan[ch]
    <3>1. Clean(ch) \/ \E d \in Call : Exchange(ch, d)
      BY <2>1 DEF Exchanges, Orderly, InStep
    <3>2. CASE Clean(ch)
      BY <2>1, <3>2 DEF Clean
    <3>3. ASSUME NEW d \in Call, Exchange(ch, d) PROVE Exchange(ch, d)'
      <4>1. d # c
        BY <3>3, ExchangeUses DEF Elsewhere
      <4> QED
        BY <2>1, <3>3, <4>1, ExchangeKept DEF Elsewhere, Same
    <3> QED
      BY <3>1, <3>2, <3>3
  <2>2. CASE chan'[ch] \in {Closed, Opened}
    BY <2>2, NewAreClean DEF Clean
  <2> QED
    BY <2>1, <2>2 DEF Elsewhere
<1>4. ASSUME NEW d \in Call, NEW ch \in Chan, Asks(d, ch)' PROVE Asks(d, ch)
  BY <1>4, NewAreClean DEF Asks, Elsewhere
<1>5. ASSUME NEW d \in Call PROVE WrittenOnce(d)'
  <2>0. WrittenOnce(d)
    BY DEF Exchanges
  <2>1. CASE d # c
    BY <1>4, <2>0, <2>1 DEF Elsewhere, Same, WrittenOnce
  <2>2. CASE d = c /\ ~failed'[c] /\ pc'[c] # "true"
    <3>1. /\ pc[c] \in NotBegun /\ ~failed[c]
          /\ io'[c] = io[c] /\ executed'[c] = executed[c]
      BY <2>2 DEF Elsewhere
    <3>2. io[c] = "none" /\ executed[c] = 0 /\ \A ch \in Chan : ~Asks(c, ch)
      BY <2>0, <2>2, <3>1 DEF WrittenOnce, NotBegun
    <3> QED
      BY <1>4, <2>2, <3>1, <3>2 DEF WrittenOnce
  <2>3. CASE d = c /\ (failed'[c] \/ pc'[c] = "true")
    BY <2>3 DEF WrittenOnce
  <2> QED
    BY <2>1, <2>2, <2>3
<1>6. ASSUME NEW d \in Call PROVE Answered(d)'
  <2>0. Answered(d) /\ WrittenOnce(d)
    BY DEF Exchanges
  <2>1. CASE d # c
    <3>1. Same(d) /\ (on[d] \in Chan => chan'[on[d]] = chan[on[d]])
      BY <2>1 DEF Elsewhere
    <3> QED
      BY <1>4, <2>0, <3>1 DEF Same, Answered, InStep
  <2>2. CASE d = c
    <3> SUFFICES ASSUME ~failed'[c] PROVE io'[c] # "ended"
      BY <2>2 DEF Answered
    <3>1. \/ io'[c] = "none"
          \/ pc[c] \in NotBegun /\ ~failed[c] /\ io'[c] = io[c]
      BY DEF Elsewhere
    <3> QED
      BY <2>0, <2>2, <3>1 DEF WrittenOnce, NotBegun
  <2> QED
    BY <2>1, <2>2
<1> QED
  BY <1>1, <1>2, <1>3, <1>5, <1>6 DEF Exchanges

-----------------------------------------------------------------------------
\* Steps of a call c on its stream: what becomes of the others, and of other
\* channels, does not depend on the step.
OnStream(c, ch) ==
    /\ on[c] = ch /\ on' = on
    /\ \A d \in Call \ {c} : Same(d)
    /\ \A x \in Chan \ {ch} : chan'[x] = chan[x]
    /\ chan'[ch].stream = chan[ch].stream /\ chan'[ch].peer = chan[ch].peer
    /\ InStep(ch)' => InStep(ch)
    /\ \A d \in Call \ {c} : Asks(d, ch)' => Asks(d, ch)

\* No other call uses ch.
OnlyUser(c, ch) == \A d \in Call \ {c} : on[d] = ch => io[d] \notin Using

LEMMA OnStreamInv ==
    ASSUME Inv, Exchanges, NEW c \in Call, NEW ch \in Chan, OnStream(c, ch), Kinds',
           ~chan[ch].stream => Clean(ch)',
           InStep(ch)' => /\ OnlyUser(c, ch)
                          /\ Clean(ch)' \/ Exchange(ch, c)',
           WrittenOnce(c)', Answered(c)'
    PROVE  Exchanges'
<1>1. Dry'
  BY DEF Exchanges, Dry, Clean, OnStream
<1>2. OneUser'
  <2> SUFFICES ASSUME NEW d \in Call, NEW e \in Call, d # e,
                      on'[d] \in Chan, InStep(on[d])', on'[e] = on'[d],
                      io'[d] \in Using, io'[e] \in Using
               PROVE  FALSE
    BY DEF OneUser
  <2>1. on[d] = on'[d] /\ on[e] = on[d]
    BY DEF OnStream
  <2>2. CASE on[d] = ch
    <3>1. OnlyUser(c, ch)
      BY <2>1, <2>2
    <3>2. PICK f \in {d, e} : f # c
      OBVIOUS
    <3>3. io[f] \in Using /\ on[f] = ch
      BY <2>1, <2>2, <3>2 DEF OnStream, Same
    <3> QED
      BY <3>1, <3>2, <3>3 DEF OnlyUser
  <2>3. CASE on[d] # ch
    <3>1. d # c /\ e # c /\ InStep(on[d])
      BY <2>1, <2>3 DEF OnStream, InStep
    <3>2. io[d] \in Using /\ io[e] \in Using
      BY <3>1 DEF OnStream, Same
    <3> QED
      BY <2>1, <3>1, <3>2 DEF Exchanges, OneUser
  <2> QED
    BY <2>2, <2>3
<1>3. Orderly'
  <2> SUFFICES ASSUME NEW x \in Chan \ {ch}, InStep(x)'
               PROVE  Clean(x)' \/ \E d \in Call : Exchange(x, d)'
    BY DEF Orderly
  <2>1. chan'[x] = chan[x]
    BY DEF OnStream
  <2>2. Clean(x) \/ \E d \in Call : Exchange(x, d)
    BY <2>1 DEF Exchanges, Orderly, InStep
  <2>3. CASE Clean(x)
    BY <2>1, <2>3 DEF Clean
  <2>4. ASSUME NEW d \in Call, Exchange(x, d) PROVE Exchange(x, d)'
    <3>1. d # c
      BY <2>4, ExchangeUses DEF OnStream
    <3> QED
      BY <2>1, <2>4, <3>1, ExchangeKept DEF OnStream, Same
  <2> QED
    BY <2>2, <2>3, <2>4
<1>4. ASSUME NEW d \in Call \ {c}, NEW x \in Chan, Asks(d, x)' PROVE Asks(d, x)
  BY <1>4 DEF Asks, OnStream
<1>5. ASSUME NEW d \in Call \ {c} PROVE WrittenOnce(d)' /\ Answered(d)'
  <2>1. WrittenOnce(d) /\ Answered(d) /\ Same(d)
    BY DEF Exchanges, OnStream
  <2>2. on[d] \in Chan => (InStep(on[d])' => InStep(on[d]))
    BY DEF OnStream, InStep
  <2>3. WrittenOnce(d)'
    BY <1>4, <2>1 DEF WrittenOnce, Same
  <2>4. Answered(d)'
    BY <1>4, <2>1, <2>2 DEF Answered, Same
  <2> QED
    BY <2>3, <2>4
<1> QED
  BY <1>1, <1>2, <1>3, <1>5 DEF Exchanges

\* A call that uses its stream, in step, is alone in it.
LEMMA UserAlone ==
    ASSUME Exchanges, NEW c \in Call, NEW ch \in Chan, on[c] = ch, InStep(ch),
           io[c] \in Using
    PROVE  /\ OnlyUser(c, ch)
           /\ Clean(ch) \/ Exchange(ch, c)
<1>1. OnlyUser(c, ch)
  BY DEF Exchanges, OneUser, OnlyUser
<1>2. ASSUME NEW d \in Call, Exchange(ch, d) PROVE d = c
  BY <1>1, <1>2, ExchangeUses DEF OnlyUser
<1> QED
  BY <1>1, <1>2 DEF Exchanges, Orderly

LEMMA BeginExchanges ==
    ASSUME Inv, Exchanges, NEW c \in Call, Begin(c), Inv'
    PROVE  Exchanges'
<1>0. PICK ch \in Chan : ch = on[c]
  BY DEF Begin, Inv, Types
<1>1. /\ ch = on[c] /\ chan \in [Chan -> Channels] /\ CallMethodAsync(c)
      /\ pc[c] = "call" /\ pc' = [pc EXCEPT ![c] = "calling"]
      /\ UNCHANGED <<on, own, executed>>
  BY <1>0 DEF Begin, CallMethodAsync, history, Inv, Types
<1>2. io[c] \notin Using
  BY <1>1 DEF Inv, Placed
<1>3. CASE chan[ch].connected /\ chan[ch].stream
  <2>1. /\ io' = [io EXCEPT ![c] = "write"] /\ failed' = failed
        /\ chan' = [chan EXCEPT ![ch].shared = @ \/ ~Alone(c)]
    BY <1>1, <1>3 DEF CallMethodAsync
  <2>2. /\ \A x \in Chan \ {ch} : chan'[x] = chan[x]
        /\ chan'[ch] = [chan[ch] EXCEPT !.shared = @ \/ ~Alone(c)]
    BY <1>1, <2>1
  <2>3. /\ chan'[ch].stream = chan[ch].stream /\ chan'[ch].peer = chan[ch].peer
        /\ chan'[ch].requests = chan[ch].requests
        /\ chan'[ch].answers = chan[ch].answers
        /\ chan'[ch].buffer = chan[ch].buffer
        /\ chan'[ch].missed = chan[ch].missed
        /\ ~chan'[ch].shared => ~chan[ch].shared /\ Alone(c)
    BY <1>1, <2>2 DEF Channels
  <2>4. \A d \in Call \ {c} : Same(d)
    BY <1>1, <2>1 DEF Same, Inv, Types
  <2>5. OnStream(c, ch)
    BY <1>1, <2>2, <2>3, <2>4 DEF OnStream, InStep, Asks
  <2>6. Kinds'
    BY <1>1, <2>1 DEF Exchanges, Kinds
  <2>7. ASSUME InStep(ch)' PROVE OnlyUser(c, ch) /\ Clean(ch)'
    <3>1. OnlyUser(c, ch) /\ InStep(ch)
      BY <1>1, <2>3, <2>7 DEF InStep, Alone, OnlyUser, Using
    <3>2. Clean(ch)
      BY <1>2, <3>1, ExchangeUses DEF Exchanges, Orderly, OnlyUser
    <3> QED
      BY <2>3, <3>1, <3>2 DEF Clean
  <2>8. io'[c] = "write" /\ pc'[c] = "calling"
    BY <1>1, <2>1 DEF Inv, Types
  <2>9. WrittenOnce(c)'
    <3> SUFFICES ASSUME ~failed'[c]
                 PROVE  executed[c] = 0 /\ \A x \in Chan : ~Asks(c, x)'
      BY <1>1, <2>8 DEF WrittenOnce
    <3>1. executed[c] = 0 /\ io[c] = "none" /\ \A x \in Chan : ~Asks(c, x)
      BY <1>1, <2>1 DEF Exchanges, WrittenOnce
    <3>2. \A x \in Chan : chan'[x].requests = chan[x].requests
      BY <2>2, <2>3
    <3> QED
      BY <3>1, <3>2, <1>1 DEF Asks
  <2>10. Answered(c)'
    BY <2>8 DEF Answered
  <2> QED
    BY <1>1, <1>3, <2>5, <2>6, <2>7, <2>9, <2>10, OnStreamInv
<1>4. CASE ~(chan[ch].connected /\ chan[ch].stream)
  <2>1. /\ io' = [io EXCEPT ![c] = "ended"] /\ failed' = [failed EXCEPT ![c] = TRUE]
        /\ chan' = chan
    BY <1>1, <1>4 DEF CallMethodAsync
  <2>2. failed'[c] /\ io'[c] = "ended" /\ \A d \in Call \ {c} : Same(d)
    BY <1>1, <2>1 DEF Same, Exchanges, Kinds, Inv, Types
  <2>3. Elsewhere(c)
    BY <1>2, <2>1, <2>2 DEF Elsewhere, Using
  <2>4. Kinds'
    BY <1>1, <2>1 DEF Exchanges, Kinds
  <2> QED
    BY <2>3, <2>4, ElsewhereInv
<1> QED
  BY <1>3, <1>4

-----------------------------------------------------------------------------
\* The I/O of a call.
LEMMA AsksKept ==
    ASSUME NEW d \in Call, NEW x \in Chan, chan'[x].requests = chan[x].requests
    PROVE  Asks(d, x)' <=> Asks(d, x)
BY DEF Asks

LEMMA WriteExchanges ==
    ASSUME Inv, Exchanges, NEW c \in Call, NEW ch \in Chan, on[c] = ch,
           pc[c] = "calling", UNCHANGED pc, Write(c)
    PROVE  Exchanges'
<1>1. /\ io[c] = "write" /\ chan[ch].stream
      /\ UNCHANGED <<on, failed, own, executed>>
      /\ chan \in [Chan -> Channels] /\ chan[ch] \in Channels
      /\ chan[ch].requests \in Seq(Call)
  BY ChannelFields DEF Write, history, Inv, Types
<1>2. InStep(ch) => OnlyUser(c, ch) /\ Clean(ch)
  <2> SUFFICES ASSUME InStep(ch) PROVE OnlyUser(c, ch) /\ Clean(ch)
    OBVIOUS
  <2>1. OnlyUser(c, ch) /\ (Clean(ch) \/ Exchange(ch, c))
    BY <1>1, UserAlone DEF Using
  <2> QED
    BY <1>1, <2>1 DEF Exchange, Requested, AnswerSent, AnswerRead
<1>3. ~failed[c] => executed[c] = 0 /\ \A x \in Chan : ~Asks(c, x)
  BY <1>1 DEF Exchanges, WrittenOnce
<1>4. Kinds'
  BY <1>1 DEF Exchanges, Kinds
<1>5. CASE chan[ch].peer
  <2>1. /\ chan' = [chan EXCEPT ![ch].requests = Append(@, c)]
        /\ io' = [io EXCEPT ![c] = "read"]
    BY <1>5 DEF Write
  <2>2. /\ chan'[ch] = [chan[ch] EXCEPT !.requests = Append(@, c)]
        /\ \A x \in Chan \ {ch} : chan'[x] = chan[x]
    BY <1>1, <2>1
  <2>3. /\ chan'[ch].requests = Append(chan[ch].requests, c)
        /\ chan'[ch].answers = chan[ch].answers
        /\ chan'[ch].buffer = chan[ch].buffer
        /\ chan'[ch].stream = chan[ch].stream /\ chan'[ch].peer = chan[ch].peer
        /\ InStep(ch)' => InStep(ch)
    BY <1>1, <2>2 DEF Channels, InStep
  <2>4. \A d \in Call \ {c} : Asks(d, ch)' => Asks(d, ch)
    BY <1>1, <2>3, AppendAsks DEF Asks
  <2>5. /\ OnStream(c, ch) /\ io'[c] = "read"
        /\ \A x \in Chan \ {ch} : Asks(c, x)' <=> Asks(c, x)
    <3>1. io'[c] = "read" /\ \A d \in Call \ {c} : Same(d)
      BY <1>1, <2>1 DEF Same, Inv, Types
    <3> QED
      BY <1>1, <2>2, <2>3, <2>4, <3>1, AsksKept DEF OnStream
  <2>6. ASSUME InStep(ch)' PROVE OnlyUser(c, ch) /\ Exchange(ch, c)'
    <3>1. OnlyUser(c, ch) /\ Clean(ch)
      BY <1>2, <2>3, <2>6
    <3>2. chan'[ch].requests = <<c>>
      BY <2>3, <3>1, OneOnly DEF Clean
    <3> QED
      BY <1>1, <1>3, <1>5, <2>3, <2>5, <3>1, <3>2 DEF Exchange, Requested, Clean
  <2>7. WrittenOnce(c)'
    BY <1>1, <1>3, <2>5 DEF WrittenOnce
  <2>8. Answered(c)'
    BY <2>5 DEF Answered
  <2> QED
    BY <1>1, <1>4, <2>5, <2>6, <2>7, <2>8, OnStreamInv
<1>6. CASE ~chan[ch].peer
  <2>1. PICK p \in {"read", "error"} : io' = [io EXCEPT ![c] = p]
    BY <1>6 DEF Write
  <2>2. chan' = chan
    BY <1>6 DEF Write
  <2>3. OnStream(c, ch) /\ io'[c] = p
    <3>1. io'[c] = p /\ \A d \in Call \ {c} : Same(d)
      BY <1>1, <2>1 DEF Same, Inv, Types
    <3> QED
      BY <1>1, <2>2, <3>1 DEF OnStream, InStep, Asks
  <2>4. InStep(ch)' => OnlyUser(c, ch) /\ Clean(ch)'
    BY <1>2, <2>2 DEF InStep, Clean
  <2>5. WrittenOnce(c)'
    BY <1>1, <1>3, <2>2, <2>3 DEF WrittenOnce, Asks
  <2>6. Answered(c)'
    BY <2>3 DEF Answered
  <2> QED
    BY <1>1, <1>4, <2>3, <2>4, <2>5, <2>6, OnStreamInv
<1> QED
  BY <1>5, <1>6

\* What has come is the only answer, if any, and it is read as a whole.
LEMMA ReadAllExchanges ==
    ASSUME Inv, Exchanges, NEW c \in Call, NEW ch \in Chan, on[c] = ch,
           pc[c] = "calling", UNCHANGED pc, ReadAll(c)
    PROVE  Exchanges'
<1>1. /\ io[c] \in {"read", "reading"} /\ chan[ch].stream /\ Readable(ch)
      /\ UNCHANGED <<on, failed, own, executed>>
      /\ io' = [io EXCEPT ![c] = "done"]
      /\ chan \in [Chan -> Channels] /\ chan[ch] \in Channels
  BY ChannelFields DEF ReadAll, history, Inv, Types
<1>2. /\ chan'[ch] = [chan[ch] EXCEPT !.buffer = @ \o chan[ch].answers,
                                      !.answers = <<>>,
                                      !.reader = IF @ = c THEN NoCall ELSE @]
      /\ \A x \in Chan \ {ch} : chan'[x] = chan[x]
  BY <1>1 DEF ReadAll
<1>3. /\ chan'[ch].requests = chan[ch].requests
      /\ chan'[ch].answers = <<>>
      /\ chan'[ch].buffer = chan[ch].buffer \o chan[ch].answers
      /\ chan'[ch].stream = chan[ch].stream /\ chan'[ch].peer = chan[ch].peer
      /\ InStep(ch)' => InStep(ch)
  BY <1>1, <1>2 DEF Channels, InStep
<1>4. /\ OnStream(c, ch) /\ io'[c] = "done"
      /\ \A x \in Chan : Asks(c, x)' <=> Asks(c, x)
  <2>1. \A d \in Call, x \in Chan : Asks(d, x)' <=> Asks(d, x)
    BY <1>2, <1>3, AsksKept
  <2>2. io'[c] = "done" /\ \A d \in Call \ {c} : Same(d)
    BY <1>1 DEF Same, Inv, Types
  <2> QED
    BY <1>1, <1>2, <1>3, <2>1, <2>2 DEF OnStream
<1>5. ASSUME InStep(ch)' PROVE OnlyUser(c, ch) /\ (Clean(ch)' \/ Exchange(ch, c)')
  <2>1. OnlyUser(c, ch) /\ (Clean(ch) \/ Exchange(ch, c))
    BY <1>1, <1>3, <1>5, UserAlone DEF Using
  <2>2. CASE Clean(ch)
    BY <1>3, <2>1, <2>2, OneOnly DEF Clean
  <2>3. CASE Exchange(ch, c)
    <3>1. AnswerSent(ch, c)
      BY <1>1, <2>3 DEF Exchange, Requested, AnswerRead, Readable
    <3>2. /\ chan'[ch].requests = <<>>
          /\ \E good \in BOOLEAN : chan'[ch].buffer = << <<c, good>> >>
          /\ ~failed'[c] => executed'[c] = 1
      BY <1>1, <1>3, <3>1, OneOnly DEF AnswerSent
    <3> QED
      BY <1>1, <1>3, <1>4, <2>1, <3>2 DEF Exchange, AnswerRead
  <2> QED
    BY <2>1, <2>2, <2>3
<1>6. WrittenOnce(c)'
  BY <1>1, <1>4 DEF Exchanges, WrittenOnce
<1>7. Answered(c)'
  BY <1>4 DEF Answered
<1>8. Kinds'
  BY <1>1 DEF Exchanges, Kinds
<1> QED
  BY <1>1, <1>4, <1>5, <1>6, <1>7, <1>8, OnStreamInv

LEMMA ReadWaitsExchanges ==
    ASSUME Inv, Exchanges, NEW c \in Call, NEW ch \in Chan, on[c] = ch,
           pc[c] = "calling", UNCHANGED pc, ReadWaits(c)
    PROVE  Exchanges'
<1>1. /\ io[c] = "read" /\ chan[ch].stream
      /\ UNCHANGED <<on, failed, own, executed>>
      /\ io' = [io EXCEPT ![c] = "reading"]
      /\ chan \in [Chan -> Channels] /\ chan[ch] \in Channels
  BY ChannelFields DEF ReadWaits, history, Inv, Types
<1>2. /\ chan'[ch] = [chan[ch] EXCEPT !.reader = c]
      /\ \A x \in Chan \ {ch} : chan'[x] = chan[x]
  BY <1>1 DEF ReadWaits
<1>3. /\ chan'[ch].requests = chan[ch].requests
      /\ chan'[ch].answers = chan[ch].answers
      /\ chan'[ch].buffer = chan[ch].buffer
      /\ chan'[ch].stream = chan[ch].stream /\ chan'[ch].peer = chan[ch].peer
      /\ InStep(ch)' => InStep(ch)
  BY <1>1, <1>2 DEF Channels, InStep
<1>4. /\ OnStream(c, ch) /\ io'[c] = "reading"
      /\ \A x \in Chan : Asks(c, x)' <=> Asks(c, x)
  <2>1. \A d \in Call, x \in Chan : Asks(d, x)' <=> Asks(d, x)
    BY <1>2, <1>3, AsksKept
  <2>2. io'[c] = "reading" /\ \A d \in Call \ {c} : Same(d)
    BY <1>1 DEF Same, Inv, Types
  <2> QED
    BY <1>1, <1>2, <1>3, <2>1, <2>2 DEF OnStream
<1>5. ASSUME InStep(ch)' PROVE OnlyUser(c, ch) /\ (Clean(ch)' \/ Exchange(ch, c)')
  <2>1. OnlyUser(c, ch) /\ (Clean(ch) \/ Exchange(ch, c))
    BY <1>1, <1>3, <1>5, UserAlone DEF Using
  <2>2. CASE Clean(ch)
    BY <1>3, <2>1, <2>2 DEF Clean
  <2>3. CASE Exchange(ch, c)
    BY <1>1, <1>3, <1>4, <2>1, <2>3 DEF Exchange, Requested, AnswerSent, AnswerRead
  <2> QED
    BY <2>1, <2>2, <2>3
<1>6. WrittenOnce(c)'
  BY <1>1, <1>4 DEF Exchanges, WrittenOnce
<1>7. Answered(c)'
  BY <1>4 DEF Answered
<1>8. Kinds'
  BY <1>1 DEF Exchanges, Kinds
<1> QED
  BY <1>1, <1>4, <1>5, <1>6, <1>7, <1>8, OnStreamInv

\* The channel of a call that ends without its answer is no longer in step.
LEMMA UnansweredExchanges ==
    ASSUME Inv, Exchanges, NEW c \in Call, NEW ch \in Chan, on[c] = ch,
           pc[c] = "calling", UNCHANGED pc, FinishUnanswered(c)
    PROVE  Exchanges'
<1>1. /\ UNCHANGED <<on, executed>>
      /\ io' = [io EXCEPT ![c] = "ended"]
      /\ failed' = [failed EXCEPT ![c] = TRUE]
      /\ own' = [own EXCEPT ![c] = FALSE]
      /\ chan \in [Chan -> Channels] /\ chan[ch] \in Channels
  BY ChannelFields DEF FinishUnanswered, Inv, Types
<1>2. /\ chan'[ch] = [chan[ch] EXCEPT !.missed = TRUE]
      /\ \A x \in Chan \ {ch} : chan'[x] = chan[x]
  BY <1>1 DEF FinishUnanswered
<1>3. /\ chan'[ch].requests = chan[ch].requests
      /\ chan'[ch].answers = chan[ch].answers
      /\ chan'[ch].buffer = chan[ch].buffer
      /\ chan'[ch].stream = chan[ch].stream /\ chan'[ch].peer = chan[ch].peer
      /\ ~InStep(ch)'
  BY <1>1, <1>2 DEF Channels, InStep
<1>4. Kinds' /\ failed'[c]
  BY <1>1 DEF Exchanges, Kinds
<1>5. OnStream(c, ch)
  <2>1. \A d \in Call : Asks(d, ch)' <=> Asks(d, ch)
    BY <1>3 DEF Asks
  <2>2. \A d \in Call \ {c} : Same(d)
    BY <1>1 DEF Same, Exchanges, Kinds, Inv, Types
  <2> QED
    BY <1>1, <1>2, <1>3, <2>1, <2>2 DEF OnStream
<1>6. ~chan[ch].stream => Clean(ch)'
  BY <1>3 DEF Exchanges, Dry, Clean
<1>7. WrittenOnce(c)' /\ Answered(c)'
  BY <1>4 DEF WrittenOnce, Answered
<1> QED
  BY <1>3, <1>4, <1>5, <1>6, <1>7, OnStreamInv

\* In step, what decode() finds first is the answer to the call, or nothing.
LEMMA FinishExchanges ==
    ASSUME Inv, Exchanges, NEW c \in Call, NEW ch \in Chan, on[c] = ch,
           pc[c] = "calling", UNCHANGED pc, Finish(c)
    PROVE  Exchanges'
<1> DEFINE msgs == chan[ch].buffer
<1>1. /\ UNCHANGED <<on, executed>>
      /\ io[c] = "done" /\ io' = [io EXCEPT ![c] = "ended"]
      /\ failed' = [failed EXCEPT ![c] = @ \/ msgs = <<>> \/ ~Head(msgs)[2]]
      /\ own' = [own EXCEPT ![c] = msgs # <<>> /\ Head(msgs)[1] = c]
      /\ chan[ch].stream
      /\ chan \in [Chan -> Channels] /\ chan[ch] \in Channels
  BY ChannelFields DEF Finish, Inv, Types
<1>2. /\ chan'[ch] = [chan[ch] EXCEPT !.buffer = <<>>]
      /\ \A x \in Chan \ {ch} : chan'[x] = chan[x]
  BY <1>1 DEF Finish, Decoded
<1>3. /\ chan'[ch].requests = chan[ch].requests
      /\ chan'[ch].answers = chan[ch].answers
      /\ chan'[ch].buffer = <<>>
      /\ chan'[ch].stream = chan[ch].stream /\ chan'[ch].peer = chan[ch].peer
      /\ InStep(ch)' => InStep(ch)
  BY <1>1, <1>2 DEF Channels, InStep
<1>4. /\ ~failed'[c] => ~failed[c] /\ msgs # <<>>
      /\ own'[c] <=> msgs # <<>> /\ Head(msgs)[1] = c
      /\ \A d \in Call \ {c} : failed'[d] = failed[d] /\ own'[d] = own[d]
  BY <1>1 DEF Exchanges, Kinds
<1>5. Kinds'
  <2>1. (failed[c] \/ msgs = <<>> \/ ~Head(msgs)[2]) \in BOOLEAN
    BY DEF Exchanges, Kinds
  <2>2. (msgs # <<>> /\ Head(msgs)[1] = c) \in BOOLEAN
    OBVIOUS
  <2> QED
    BY <1>1, <2>1, <2>2 DEF Exchanges, Kinds
<1>6. /\ OnStream(c, ch) /\ io'[c] = "ended"
      /\ \A x \in Chan : Asks(c, x)' <=> Asks(c, x)
  <2>1. \A d \in Call, x \in Chan : Asks(d, x)' <=> Asks(d, x)
    BY <1>2, <1>3, AsksKept
  <2>2. io'[c] = "ended" /\ \A d \in Call \ {c} : Same(d)
    BY <1>1, <1>4 DEF Same, Inv, Types
  <2> QED
    BY <1>1, <1>2, <1>3, <2>1, <2>2 DEF OnStream
<1>7. ASSUME InStep(ch)'
      PROVE  /\ OnlyUser(c, ch) /\ Clean(ch)'
             /\ msgs # <<>> => AnswerRead(ch, c)
  <2>1. OnlyUser(c, ch) /\ (Clean(ch) \/ Exchange(ch, c))
    BY <1>1, <1>3, <1>7, UserAlone DEF Using
  <2>2. Clean(ch) \/ AnswerRead(ch, c)
    BY <1>1, <2>1 DEF Exchange, Requested, AnswerSent
  <2> QED
    BY <1>3, <2>1, <2>2 DEF Clean, AnswerRead
<1>8. WrittenOnce(c)'
  BY <1>1, <1>4, <1>6 DEF Exchanges, WrittenOnce
<1>9. Answered(c)'
  <2> SUFFICES ASSUME ~failed'[c], InStep(ch)'
               PROVE  own'[c] /\ executed'[c] = 1 /\ \A x \in Chan : ~Asks(c, x)'
    BY <1>1 DEF Answered
  <2>1. AnswerRead(ch, c) /\ ~failed[c]
    BY <1>4, <1>7
  <2>2. own'[c] /\ executed'[c] = 1
    <3>1. PICK good \in BOOLEAN : msgs = << <<c, good>> >>
      BY <2>1 DEF AnswerRead
    <3>2. Head(msgs)[1] = c
      BY <3>1
    <3> QED
      BY <1>1, <1>4, <2>1, <3>2 DEF AnswerRead
  <2>3. ~Asks(c, ch)
    BY <2>1 DEF AnswerRead, Asks
  <2>4. \A x \in Chan : Asks(c, x) => x = ch
    BY <2>1 DEF Exchanges, WrittenOnce
  <2> QED
    BY <1>6, <2>2, <2>3, <2>4
<1> QED
  BY <1>1, <1>5, <1>6, <1>7, <1>8, <1>9, OnStreamInv

LEMMA NullStreamExchanges ==
    ASSUME Inv, Exchanges, NEW c \in Call, NEW ch \in Chan, on[c] = ch,
           io[c] \in Using, UNCHANGED pc, NullStream(c)
    PROVE  Exchanges'
<1>1. /\ UNCHANGED <<chan, on, failed, own, executed>> /\ ~chan[ch].stream
      /\ io' = [io EXCEPT ![c] = "crashed"]
  BY DEF NullStream, history
<1>2. OnStream(c, ch) /\ io'[c] = "crashed"
  <2>1. io'[c] = "crashed" /\ \A d \in Call \ {c} : Same(d)
    BY <1>1 DEF Same, Inv, Types
  <2> QED
    BY <1>1, <2>1 DEF OnStream, InStep, Asks
<1>3. Clean(ch) /\ Clean(ch)'
  BY <1>1 DEF Exchanges, Dry, Clean
<1>4. InStep(ch)' => OnlyUser(c, ch)
  BY <1>1, UserAlone DEF InStep
<1>5. pc[c] = "calling"
  BY DEF Inv, Placed
<1>6. WrittenOnce(c)' /\ Answered(c)'
  <2>1. WrittenOnce(c)
    BY DEF Exchanges
  <2> QED
    BY <1>1, <1>2, <1>5, <2>1 DEF WrittenOnce, Answered, Asks
<1>7. Kinds'
  BY <1>1 DEF Exchanges, Kinds
<1> QED
  BY <1>2, <1>3, <1>4, <1>6, <1>7, OnStreamInv

LEMMA IoExchanges ==
    ASSUME Inv, Exchanges, NEW c \in Call, Io(c)
    PROVE  Exchanges'
<1>1. io[c] \in Using /\ pc[c] = "calling" /\ UNCHANGED pc
  BY DEF Io, IoStep, Using, Write, ReadAll, ReadWaits, FinishUnanswered, Finish,
         clientVars
<1>2. PICK ch \in Chan : on[c] = ch
  BY <1>1 DEF Inv, Streams
<1> QED
  BY <1>1, <1>2, WriteExchanges, ReadAllExchanges, ReadWaitsExchanges,
     UnansweredExchanges, FinishExchanges, NullStreamExchanges DEF Io, IoStep

-----------------------------------------------------------------------------
\* Getting a channel, and returning.
LEMMA ReturnElsewhere ==
    ASSUME Inv, Exchanges, NEW c \in Call, NEW result \in {"true", "false"},
           Return(c, result),
           \/ failed' = failed /\ ~failed[c] /\ result = "true"
           \/ failed' = [failed EXCEPT ![c] = TRUE]
    PROVE  /\ Kinds' /\ \A d \in Call \ {c} : Same(d)
           /\ io'[c] = "none"
           /\ ~failed'[c] => pc'[c] = "true"
<1>1. \A d \in Call \ {c} : Same(d)
  BY DEF Return, Same, Inv, Types, Exchanges, Kinds
<1>2. Kinds'
  <2>1. failed' \in [Call -> BOOLEAN] /\ own' \in [Call -> BOOLEAN]
    BY DEF Return, Exchanges, Kinds
  <2>2. executed' \in [Call -> 0 .. 2]
    BY DEF Return, Exchanges, Kinds
  <2> QED
    BY <2>1, <2>2 DEF Kinds
<1>3. io'[c] = "none" /\ (~failed'[c] => pc'[c] = "true")
  BY DEF Return, Inv, Types, Exchanges, Kinds
<1> QED
  BY <1>1, <1>2, <1>3

LEMMA GotElsewhere ==
    ASSUME Inv, Exchanges, NEW c \in Call, NEW ch \in Chan \cup {NoChan},
           pc[c] \in {"get", "connecting"}, Got(c, ch)
    PROVE  /\ Kinds' /\ \A d \in Call \ {c} : Same(d)
           /\ io[c] \notin Using /\ io'[c] \notin Using
           /\ ~failed'[c] =>
                /\ ~failed[c] /\ io'[c] = io[c] /\ executed'[c] = executed[c]
<1>1. io[c] \notin Using
  BY DEF Inv, Placed
<1>2. CASE GiveUp(c)
  <2>1. /\ Kinds' /\ \A d \in Call \ {c} : Same(d)
        /\ io'[c] = "none" /\ (~failed'[c] => pc'[c] = "true")
    BY <1>2, ReturnElsewhere DEF GiveUp
  <2>2. failed'[c]
    BY <1>2 DEF GiveUp, Exchanges, Kinds
  <2> QED
    BY <1>1, <2>1, <2>2 DEF Using
<1>3. CASE Reconnect(c)
  BY <1>1, <1>3 DEF Reconnect, history, Same, Inv, Types, Exchanges, Kinds
<1>4. CASE /\ pc' = [pc EXCEPT ![c] = "call"]
           /\ on' = [on EXCEPT ![c] = ch]
           /\ UNCHANGED <<io, failed, history, unavailable, why, tries, robbed>>
  BY <1>1, <1>4 DEF history, Same, Inv, Types, Exchanges, Kinds
<1> QED
  BY <1>2, <1>3, <1>4 DEF Got

\* What is dropped is nobody's, before and after.
LEMMA DropElsewhere ==
    ASSUME NEW c \in Call, NEW next \in [Chan -> Channels], DropUnused(next),
           \A d \in Call \ {c} : Same(d)
    PROVE  \A x \in Chan :
              \/ chan'[x] = next[x]
              \/ chan'[x] = Closed /\ \A d \in Call \ {c} : on[d] # x
BY DEF DropUnused, Unused, Same

LEMMA ClientExchanges ==
    ASSUME Inv, Exchanges, NEW c \in Call,
           \/ Select(c) \/ Create(c) \/ BeginNull(c) \/ Retry(c)
           \/ Reuse(c) \/ ConnectLate(c) \/ Succeed(c) \/ Fail(c)
           \/ \E outcome \in {Opened, Closed} : Made(c, outcome)
    PROVE  Exchanges'
<1>0. chan \in [Chan -> Channels] /\ NoChan \notin Chan
  BY NullAssumption DEF Inv, Types
<1>1. CASE Select(c) \/ Create(c) \/ BeginNull(c) \/ Retry(c)
  <2>1. /\ UNCHANGED <<chan, on, io, own, executed>>
        /\ pc[c] \in NotBegun \/ (failed[c] /\ io[c] = "ended" /\ UNCHANGED failed)
        /\ failed' = failed \/ failed' = [failed EXCEPT ![c] = TRUE]
        /\ \A d \in Call \ {c} : pc'[d] = pc[d]
    BY <1>1 DEF Select, Create, BeginNull, Retry, callVars, history, NotBegun,
                Inv, Types
  <2>2. Kinds' /\ (~failed'[c] => ~failed[c]) /\ \A d \in Call \ {c} : Same(d)
    BY <2>1 DEF Exchanges, Kinds, Same
  <2>3. io[c] \notin Using
    BY <2>1 DEF Inv, Placed, NotBegun, Using
  <2>4. Elsewhere(c)
    BY <2>1, <2>2, <2>3 DEF Elsewhere
  <2> QED
    BY <2>2, <2>4, ElsewhereInv
<1>2. CASE Reuse(c) \/ ConnectLate(c)
  <2>1. PICK ch \in Chan \cup {NoChan} :
           /\ Got(c, ch) /\ DropUnused(chan) /\ pc[c] \in {"get", "connecting"}
    BY <1>2 DEF Reuse, ConnectLate, Inv, Types
  <2>2. /\ Kinds' /\ \A d \in Call \ {c} : Same(d)
        /\ io[c] \notin Using /\ io'[c] \notin Using
        /\ ~failed'[c] =>
             /\ ~failed[c] /\ io'[c] = io[c] /\ executed'[c] = executed[c]
    BY <2>1, GotElsewhere
  <2>3. Elsewhere(c)
    BY <1>0, <2>1, <2>2, DropElsewhere DEF Elsewhere, NotBegun
  <2> QED
    BY <2>2, <2>3, ElsewhereInv
<1>3. ASSUME NEW outcome \in {Opened, Closed}, Made(c, outcome) PROVE Exchanges'
  <2>1. PICK ch \in Chan : ch = making[c]
    BY <1>3 DEF Made, Inv, Placed
  <2> DEFINE next == [chan EXCEPT ![ch] = outcome]
  <2>2. Got(c, ch) /\ DropUnused(next) /\ pc[c] = "connecting"
    BY <1>3, <2>1 DEF Made
  <2>3. /\ next \in [Chan -> Channels] /\ next[ch] \in {Opened, Closed}
        /\ \A x \in Chan \ {ch} : next[x] = chan[x]
    BY <1>0, NewChannels
  <2>4. \A d \in Call : on[d] # ch
    BY <2>1 DEF Inv, MadeAlone
  <2> HIDE DEF next
  <2>5. /\ Kinds' /\ \A d \in Call \ {c} : Same(d)
        /\ io[c] \notin Using /\ io'[c] \notin Using
        /\ ~failed'[c] =>
             /\ ~failed[c] /\ io'[c] = io[c] /\ executed'[c] = executed[c]
    BY <2>2, GotElsewhere
  <2>6. \A x \in Chan :
           \/ chan'[x] = chan[x]
           \/ chan'[x] \in {Closed, Opened} /\ \A d \in Call \ {c} : on[d] # x
    BY <2>2, <2>3, <2>4, <2>5, DropElsewhere
  <2>7. Elsewhere(c)
    BY <2>2, <2>5, <2>6 DEF Elsewhere, NotBegun
  <2> QED
    BY <2>5, <2>7, ElsewhereInv
<1>4. CASE Succeed(c) \/ Fail(c)
  <2>1. io[c] = "ended" /\ DropUnused(chan)
    BY <1>4 DEF Succeed, Fail
  <2>2. /\ Kinds' /\ \A d \in Call \ {c} : Same(d)
        /\ io'[c] = "none" /\ (~failed'[c] => pc'[c] = "true")
    BY <1>4, ReturnElsewhere DEF Succeed, Fail, GiveUp
  <2>3. Elsewhere(c)
    BY <1>0, <2>1, <2>2, DropElsewhere DEF Elsewhere, Using
  <2> QED
    BY <2>2, <2>3, ElsewhereInv
<1> QED
  BY <1>1, <1>2, <1>3, <1>4

-----------------------------------------------------------------------------
\* The server's end.  What is lost takes no channel out of step.
LEMMA LostExchanges ==
    ASSUME Inv, Exchanges, UNCHANGED <<callVars, history, pc>>,
           \A x \in Chan :
              \/ chan'[x] = chan[x]
              \/ /\ chan'[x].requests = <<>> /\ ~chan'[x].peer
                 /\ \/ chan'[x].answers = <<>> /\ chan'[x].buffer = <<>>
                    \/ /\ chan'[x].answers = chan[x].answers
                       /\ chan'[x].buffer = chan[x].buffer
                       /\ chan'[x].stream = chan[x].stream
                 /\ chan'[x].shared = chan[x].shared
                 /\ chan'[x].missed = chan[x].missed
    PROVE  Exchanges'
<1>1. UNCHANGED <<on, io, failed, own, executed>>
  BY DEF callVars, history
<1>2. \A x \in Chan : InStep(x)' <=> InStep(x)
  BY DEF InStep
<1>3. \A x \in Chan, d \in Call : Asks(d, x)' => Asks(d, x)
  BY DEF Asks
<1>4. Kinds' /\ OneUser'
  BY <1>1, <1>2 DEF Exchanges, Kinds, OneUser
<1>5. Dry'
  BY DEF Exchanges, Dry, Clean
<1>6. Orderly'
  <2> SUFFICES ASSUME NEW x \in Chan, InStep(x)', ~Clean(x)'
               PROVE  \E d \in Call : Exchange(x, d)'
    BY DEF Orderly
  <2>1. PICK d \in Call : Exchange(x, d)
    BY <1>2 DEF Exchanges, Orderly, Clean
  <2>2. CASE chan'[x] = chan[x]
    BY <1>1, <2>1, <2>2, ExchangeKept
  <2>3. CASE chan'[x] # chan[x]
    <3>1. ~Requested(x, d)
      BY <2>3 DEF Requested, Clean
    <3> QED
      BY <1>1, <2>1, <2>3, <3>1 DEF Exchange, AnswerSent, AnswerRead, Clean
  <2> QED
    BY <2>2, <2>3
<1>7. ASSUME NEW d \in Call PROVE WrittenOnce(d)' /\ Answered(d)'
  <2>1. WrittenOnce(d) /\ Answered(d)
    BY DEF Exchanges
  <2> QED
    BY <1>1, <1>2, <1>3, <2>1 DEF WrittenOnce, Answered
<1> QED
  BY <1>4, <1>5, <1>6, <1>7 DEF Exchanges

\* A request that is served in step is the only one, of a call that waits for it.
\* In other channels the requests of that call are of one that has failed.
LEMMA ServeExchanges ==
    ASSUME Inv, Exchanges, NEW ch \in Chan, NEW good \in BOOLEAN, Serve(ch, good),
           UNCHANGED pc
    PROVE  Exchanges'
<1>1. /\ chan[ch].peer /\ chan[ch].requests # <<>>
      /\ UNCHANGED <<on, io, failed, own>>
      /\ chan \in [Chan -> Channels] /\ chan[ch] \in Channels
  BY ChannelFields DEF Serve, callVars, Inv, Types
<1>0. PICK c \in Call : c = Head(chan[ch].requests)
  BY <1>1, ChannelFields, TailAsks
<1>2. /\ Asks(c, ch)
      /\ Tail(chan[ch].requests) \in Seq(Call)
      /\ \A k \in DOMAIN Tail(chan[ch].requests) :
            /\ k + 1 \in DOMAIN chan[ch].requests
            /\ chan[ch].requests[k + 1] = Tail(chan[ch].requests)[k]
  BY <1>0, <1>1, ChannelFields, TailAsks DEF Asks
<1>3. /\ executed' = [executed EXCEPT ![c] = IF io[c] = "none" \/ @ = 2 THEN @ ELSE @ + 1]
      /\ chan'[ch] = [chan[ch] EXCEPT !.answers = Append(@, <<c, good>>),
                                      !.requests = Tail(@)]
      /\ \A x \in Chan \ {ch} : chan'[x] = chan[x]
  BY <1>0, <1>1 DEF Serve
<1>4. /\ chan'[ch].requests = Tail(chan[ch].requests)
      /\ chan'[ch].answers = Append(chan[ch].answers, <<c, good>>)
      /\ chan'[ch].buffer = chan[ch].buffer
      /\ chan'[ch].stream = chan[ch].stream /\ chan'[ch].peer = chan[ch].peer
      /\ chan'[ch].shared = chan[ch].shared /\ chan'[ch].missed = chan[ch].missed
  BY <1>1, <1>3 DEF Channels
<1>5. /\ \A d \in Call \ {c} : executed'[d] = executed[d]
      /\ executed[c] = 0 /\ io[c] # "none" => executed'[c] = 1
      /\ io[c] = "none" => executed'[c] = executed[c]
  BY <1>2, <1>3 DEF Exchanges, Kinds
<1>6. Kinds'
  <2>1. executed[c] \in 0 .. 2
    BY <1>2 DEF Exchanges, Kinds
  <2>2. (IF io[c] = "none" \/ executed[c] = 2 THEN executed[c] ELSE executed[c] + 1) \in 0 .. 2
    BY <2>1
  <2> QED
    BY <1>1, <1>3, <2>2 DEF Exchanges, Kinds
<1>7. \A x \in Chan : InStep(x)' <=> InStep(x)
  BY <1>3, <1>4 DEF InStep
<1>8. \A d \in Call, x \in Chan : Asks(d, x)' => Asks(d, x)
  <2>1. \A d \in Call : Asks(d, ch)' => Asks(d, ch)
    BY <1>2, <1>4 DEF Asks
  <2>2. \A d \in Call, x \in Chan \ {ch} : Asks(d, x)' => Asks(d, x)
    BY <1>3, AsksKept
  <2> QED
    BY <2>1, <2>2
<1>9. ~failed[c] /\ pc[c] # "true" =>
         on[c] = ch /\ io[c] \in {"read", "reading", "done", "ended", "crashed"}
  BY <1>2 DEF Exchanges, WrittenOnce
<1>10. OneUser'
  BY <1>1, <1>7 DEF Exchanges, OneUser
<1>11. Dry'
  <2>1. chan[ch].stream
    BY <1>1 DEF Exchanges, Dry
  <2> QED
    BY <1>3, <1>4, <2>1 DEF Exchanges, Dry, Clean
<1>12. ASSUME InStep(ch) PROVE Exchange(ch, c)'
  <2>1. ~Clean(ch)
    BY <1>1 DEF Clean
  <2>2. PICK d \in Call : Exchange(ch, d)
    BY <1>12, <2>1 DEF Exchanges, Orderly
  <2>3. Requested(ch, d) /\ on[d] = ch
    BY <1>1, <2>2 DEF Exchange, AnswerSent, AnswerRead
  <2>4. c = d /\ Tail(chan[ch].requests) = <<>>
    BY <1>0, <2>3, OneOnly DEF Requested
  <2>5. chan'[ch].answers = << <<c, good>> >>
    BY <1>4, <2>3, OneOnly DEF Requested
  <2>6. /\ io[c] \in {"read", "reading"} /\ chan[ch].buffer = <<>>
        /\ ~failed[c] => executed'[c] = 1
    BY <1>5, <2>3, <2>4 DEF Requested
  <2>7. AnswerSent(ch, c)'
    BY <1>1, <1>4, <2>4, <2>5, <2>6 DEF AnswerSent
  <2> QED
    BY <1>1, <2>3, <2>4, <2>7 DEF Exchange
<1>13. ASSUME NEW x \in Chan \ {ch}, NEW d \in Call, Exchange(x, d)
       PROVE  Exchange(x, d)'
  <2>1. CASE d # c
    BY <1>1, <1>3, <1>5, <1>13, <2>1, ExchangeKept
  <2>2. CASE d = c
    <3>1. on[c] = x /\ io[c] \in Using
      BY <1>13, <2>2, ExchangeUses
    <3>2. failed[c]
      BY <1>2, <1>9, <3>1 DEF Inv, Placed
    <3> QED
      BY <1>1, <1>3, <1>13, <2>2, <3>2
      DEF Exchange, Requested, AnswerSent, AnswerRead
  <2> QED
    BY <2>1, <2>2
<1>14. Orderly'
  <2> SUFFICES ASSUME NEW x \in Chan, InStep(x)'
               PROVE  Clean(x)' \/ \E d \in Call : Exchange(x, d)'
    BY DEF Orderly
  <2>1. CASE x = ch
    BY <1>2, <1>7, <1>12, <2>1
  <2>2. CASE x # ch
    <3>1. Clean(x) => Clean(x)'
      BY <1>3, <2>2 DEF Clean
    <3> QED
      BY <1>7, <1>13, <2>2, <3>1 DEF Exchanges, Orderly
  <2> QED
    BY <2>1, <2>2
<1>15. ASSUME NEW d \in Call PROVE WrittenOnce(d)' /\ Answered(d)'
  <2>1. WrittenOnce(d) /\ Answered(d)
    BY DEF Exchanges
  <2>2. WrittenOnce(d)'
    BY <1>1, <1>5, <1>8, <1>9, <2>1 DEF WrittenOnce
  <2>3. Answered(d)'
    BY <1>1, <1>2, <1>5, <1>7, <1>8, <2>1 DEF Answered
  <2> QED
    BY <2>2, <2>3
<1> QED
  BY <1>6, <1>10, <1>11, <1>14, <1>15 DEF Exchanges

-----------------------------------------------------------------------------
LEMMA InitExchanges == Init => Exchanges
<1> SUFFICES ASSUME Init PROVE Exchanges
  OBVIOUS
<1>1. Kinds
  BY DEF Init, ChannelInit, Kinds
<1>2. \A ch \in Chan : chan[ch] = Closed
  BY DEF Init, ChannelInit
<1>3. Dry /\ Orderly
  BY <1>2, NewAreClean DEF Dry, Orderly, Clean
<1>4. OneUser
  BY DEF Init, ChannelInit, OneUser, Using
<1>5. \A c \in Call : WrittenOnce(c) /\ Answered(c)
  BY <1>2, NewAreClean DEF Init, ChannelInit, WrittenOnce, Answered, Asks
<1> QED
  BY <1>1, <1>3, <1>4, <1>5 DEF Exchanges

LEMMA NextExchanges ==
    ASSUME Inv, Exchanges, [Next]_vars, Inv'
    PROVE  Exchanges'
<1>1. ASSUME NEW c \in Call, ClientStep(c) \/ ConnectFails(c) \/ ConnectLate(c)
      PROVE  Exchanges'
  <2>1. CASE Begin(c)
    BY <2>1, BeginExchanges
  <2>2. CASE Io(c)
    BY <2>2, IoExchanges
  <2>3. CASE Connect(c) \/ ConnectFails(c)
    BY <2>3, ClientExchanges DEF Connect, ConnectFails
  <2> QED
    BY <1>1, <2>1, <2>2, <2>3, ClientExchanges DEF ClientStep
<1>2. ASSUME NEW c \in Call, Late(c) PROVE Exchanges'
  <2>1. UNCHANGED <<chan, on, io, failed, history, pc>>
    BY <1>2 DEF Late, Expire
  <2> QED
    BY <2>1 DEF history, Exchanges, Kinds, Dry, OneUser, Orderly, Exchange, Requested,
                AnswerSent, AnswerRead, Clean, InStep, WrittenOnce, Answered, Asks
<1>3. ASSUME NEW ch \in Chan, NEW good \in BOOLEAN, Serve(ch, good), UNCHANGED pc
      PROVE  Exchanges'
  BY <1>3, ServeExchanges
<1>4. ASSUME NEW ch \in Chan, PeerCloses(ch), UNCHANGED pc PROVE Exchanges'
  <2>1. chan \in [Chan -> Channels] /\ chan[ch] \in Channels
    BY ChannelFields DEF Inv, Types
  <2>2. /\ chan'[ch] = [chan[ch] EXCEPT !.peer = FALSE, !.requests = <<>>]
        /\ \A x \in Chan \ {ch} : chan'[x] = chan[x]
        /\ UNCHANGED <<callVars, history>>
    BY <1>4, <2>1 DEF PeerCloses
  <2>3. /\ chan'[ch].requests = <<>> /\ ~chan'[ch].peer
        /\ chan'[ch].answers = chan[ch].answers
        /\ chan'[ch].buffer = chan[ch].buffer
        /\ chan'[ch].stream = chan[ch].stream
        /\ chan'[ch].shared = chan[ch].shared
        /\ chan'[ch].missed = chan[ch].missed
    BY <2>1, <2>2 DEF Channels
  <2> QED
    BY <1>4, <2>2, <2>3, LostExchanges
<1>5. ASSUME NEW gone, chan' = Close(gone), UNCHANGED <<callVars, history, pc>>
      PROVE  Exchanges'
  <2>1. ASSUME NEW x \in Chan, x \in gone
        PROVE  /\ chan'[x].requests = <<>> /\ ~chan'[x].peer
               /\ chan'[x].answers = <<>> /\ chan'[x].buffer = <<>>
               /\ chan'[x].shared = chan[x].shared
               /\ chan'[x].missed = chan[x].missed
    <3>1. chan'[x] = [Closed EXCEPT !.shared = chan[x].shared,
                                    !.missed = chan[x].missed]
      BY <1>5, <2>1 DEF Close
    <3> QED
      BY <3>1 DEF Closed
  <2>2. \A x \in Chan : x \notin gone => chan'[x] = chan[x]
    BY <1>5 DEF Close
  <2> QED
    BY <1>5, <2>1, <2>2, LostExchanges
<1>6. ASSUME NEW ch \in Chan, Answer(ch) \/ Disturb(ch) PROVE Exchanges'
  BY <1>3, <1>4, <1>6 DEF Answer, Disturb, clientVars
<1>7. CASE (\E S \in SUBSET Addr : UpdateInstances(S)) \/ Disconnect
  BY <1>5, <1>7 DEF UpdateInstances, Disconnect
<1>8. CASE UNCHANGED vars
  BY <1>8 DEF vars, callVars, history, clientVars, Exchanges, Kinds, Dry, OneUser,
              Orderly, Exchange, Requested, AnswerSent, AnswerRead, Clean, InStep,
              WrittenOnce, Answered, Asks
<1> QED
  BY <1>1, <1>2, <1>6, <1>7, <1>8 DEF Next

\* The calls of any clients, over reconnections, repetitions, timeouts and
\* closed channels: what is proved of each of their ends.
LEMMA ExchangesAlways == Spec => [](Inv /\ Exchanges)
<1>1. Init => Listed
  BY DEF Init, Listed
<1>2. Inv /\ Exchanges /\ Listed /\ [Next]_vars => (Inv /\ Exchanges /\ Listed)'
  BY NextInv, ListedInv, NextExchanges
<1> QED
  BY <1>1, <1>2, InitInv, InitExchanges, PTL DEF Spec

\* A call that ends with an answer has its own, although answers carry nothing
\* that is compared: as long as one call at a time has used the channel and none
\* has ended without its answer, nothing of another call is on its way in it.
THEOREM AnswerOwn == Spec => []AnswerIsOwn
<1>1. Exchanges => AnswerIsOwn
  BY DEF Exchanges, Answered, AnswerIsOwn
<1> QED
  BY <1>1, ExchangesAlways, PTL

\* A call that succeeds was executed once: m_failed is never reset, so a call
\* that was repeated cannot succeed, and one that was not has asked once.
THEOREM SuccessOnce == Spec => []SuccessIsOnce
<1>1. Exchanges => SuccessIsOnce
  BY DEF Exchanges, Answered, SuccessIsOnce
<1> QED
  BY <1>1, ExchangesAlways, PTL
=============================================================================
