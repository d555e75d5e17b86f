--------------------------- MODULE ChannelProofs ---------------------------
(***************************************************************************)
(* Theorems about Channel, for every number of coroutines and threads and  *)
(* every capacity.                                                         *)
(***************************************************************************)
EXTENDS Channel, TLAPS

\* The first, the last and the other elements of a list have its type.
LEMMA HeadTailType ==
    ASSUME NEW S, NEW seq \in Seq(S), seq # <<>>
    PROVE  /\ Head(seq) \in S
           /\ Tail(seq) \in Seq(S)
           /\ Len(Tail(seq)) = Len(seq) - 1
           /\ Len(seq) \in Nat \ {0}
           /\ seq[1] = Head(seq)
  OBVIOUS

LEMMA AppendType ==
    ASSUME NEW S, NEW seq \in Seq(S), NEW e \in S
    PROVE  /\ Append(seq, e) \in Seq(S)
           /\ Len(Append(seq, e)) = Len(seq) + 1
  OBVIOUS

LEMMA ItemsType ==
    ASSUME NEW S, NEW seq \in Seq(S)
    PROVE  Items(seq) \subseteq S
  BY DEF Items

\* What the two lists and the buffer have to do with each other: enough to
\* be inductive, because every critical section looks at them under mutex_.
Inv == TypeOK /\ NoMissedHandoff

LEMMA InitInv == Init => Inv
  BY CapacityAssumption
  DEF Init, Inv, TypeOK, NoMissedHandoff, Resting, Result, NoItem

\* A hand-over to a parked reader keeps the invariant, wherever the sender
\* goes on.
LEMMA HandToReaderInv ==
    ASSUME Inv, NEW c \in Coroutine, NEW to \in {"idle", "resumedWriter"},
           HandToReader(c, to)
    PROVE  Inv'
<1> DEFINE r == Head(readers)
<1>1. r \in Coroutine /\ Tail(readers) \in Seq(Coroutine)
  BY HeadTailType DEF Inv, TypeOK, HandToReader
<1>2. resuming' \in Seq(Coroutine)
  BY <1>1 DEF HandToReader
<1>3. pc' \in [Coroutine -> Resting \cup Running]
  BY <1>1 DEF Inv, TypeOK, HandToReader, Resting, Running
<1>4. item' \in [Coroutine -> Nat] /\ count' \in Nat
  <2>1. count' \in Nat
    BY DEF Inv, TypeOK, HandToReader
  <2>2. item' = [item EXCEPT ![r] = count', ![c] = count']
    BY DEF HandToReader
  <2>. QED  BY <1>1, <2>1, <2>2 DEF Inv, TypeOK
<1>5. on' \in [Coroutine -> Thread]
  BY <1>1 DEF Inv, TypeOK, HandToReader, Move
<1>6. result' \in [Coroutine -> Result]
  BY DEF Inv, TypeOK, HandToReader, Result
<1>7. TypeOK'
  BY <1>1, <1>2, <1>3, <1>4, <1>5, <1>6 DEF Inv, TypeOK, HandToReader
<1>8. NoMissedHandoff'
  BY DEF Inv, TypeOK, NoMissedHandoff, HandToReader
<1>. QED  BY <1>7, <1>8 DEF Inv

LEMMA PutInBufferInv ==
    ASSUME Inv, NEW c \in Coroutine, NEW to \in {"idle", "resumedWriter"},
           PutInBuffer(c, to)
    PROVE  Inv'
<1>1. /\ buffer' \in Seq(Nat)
      /\ Len(buffer') = Len(buffer) + 1
  BY AppendType DEF Inv, TypeOK, PutInBuffer
<1>2. Len(buffer) < Capacity /\ Len(buffer) \in Nat
  BY DEF Inv, TypeOK, PutInBuffer, Room
<1>3. TypeOK'
  BY <1>1, <1>2, CapacityAssumption
     DEF Inv, TypeOK, PutInBuffer, Resting, Running, Sending, Result
<1>4. NoMissedHandoff'
  BY <1>2, CapacityAssumption DEF Inv, TypeOK, NoMissedHandoff, PutInBuffer
<1>. QED  BY <1>3, <1>4 DEF Inv

LEMMA TakeFromWriterInv ==
    ASSUME Inv, NEW c \in Coroutine, TakeFromWriter(c)
    PROVE  Inv'
<1> DEFINE w == Head(writers)
<1>1. w \in Coroutine /\ Tail(writers) \in Seq(Coroutine)
  BY HeadTailType DEF Inv, TypeOK, TakeFromWriter
<1>2. delivered' \in Seq(Nat)
  BY <1>1, AppendType DEF Inv, TypeOK, TakeFromWriter
<1>3. pc' \in [Coroutine -> Resting \cup Running]
  BY <1>1 DEF Inv, TypeOK, TakeFromWriter, Resting, Running
<1>4. on' \in [Coroutine -> Thread] /\ resuming' \in Seq(Coroutine)
  BY <1>1 DEF Inv, TypeOK, TakeFromWriter, Move
<1>5. item' \in [Coroutine -> Nat] /\ result' \in [Coroutine -> Result]
  BY <1>1 DEF Inv, TypeOK, TakeFromWriter, Result
<1>6. TypeOK'
  BY <1>1, <1>2, <1>3, <1>4, <1>5 DEF Inv, TypeOK, TakeFromWriter
<1>7. NoMissedHandoff'
  BY DEF Inv, TypeOK, NoMissedHandoff, TakeFromWriter
<1>. QED  BY <1>6, <1>7 DEF Inv

LEMMA TakeFromBufferInv ==
    ASSUME Inv, NEW c \in Coroutine, TakeFromBuffer(c)
    PROVE  Inv'
<1>1. /\ Head(buffer) \in Nat
      /\ Tail(buffer) \in Seq(Nat)
      /\ Len(Tail(buffer)) = Len(buffer) - 1
      /\ Len(buffer) \in Nat
  BY HeadTailType DEF Inv, TypeOK, TakeFromBuffer
<1>2. delivered' \in Seq(Nat)
  BY <1>1, AppendType DEF Inv, TypeOK, TakeFromBuffer
<1>3. TypeOK'
  BY <1>1, <1>2, CapacityAssumption
     DEF Inv, TypeOK, TakeFromBuffer, Return, Resting, Result
<1>4. NoMissedHandoff'
  BY DEF Inv, TypeOK, NoMissedHandoff, TakeFromBuffer
<1>. QED  BY <1>3, <1>4 DEF Inv

\* An operation that comes to its end without touching the lists.
LEMMA ReturnInv ==
    ASSUME Inv, NEW c \in Coroutine, NEW res \in Result, NEW i \in Nat,
           Return(c, res, i),
           UNCHANGED <<active, buffer, writers, readers, on, count,
                       withdrawn>>,
           resuming' \in Seq(Coroutine),
           delivered' \in Seq(Nat),
           discarded' \subseteq Nat
    PROVE  Inv'
<1>1. TypeOK'
  BY DEF Inv, TypeOK, Return, Resting
<1>2. NoMissedHandoff'
  BY DEF Inv, NoMissedHandoff
<1>. QED  BY <1>1, <1>2 DEF Inv

\* An operation that goes on without touching the lists.
LEMMA GoOnInv ==
    ASSUME Inv, NEW c \in Coroutine, NEW place \in Running,
           pc' = [pc EXCEPT ![c] = place],
           item' \in [Coroutine -> Nat],
           active' \in BOOLEAN,
           UNCHANGED <<buffer, writers, readers, resuming, on, result, count,
                       delivered, withdrawn, discarded>>
    PROVE  Inv'
<1>1. pc' \in [Coroutine -> Resting \cup Running]
  BY DEF Inv, TypeOK
<1>2. TypeOK'
  BY <1>1 DEF Inv, TypeOK
<1>3. NoMissedHandoff'
  BY DEF Inv, NoMissedHandoff
<1>. QED  BY <1>2, <1>3 DEF Inv

\* Cancelling empties both lists.
LEMMA CancelWaitersInv ==
    ASSUME Inv, NEW c \in Coroutine, CancelWaiters(c),
           UNCHANGED <<active, resuming, item, count, delivered>>,
           buffer' \in {buffer, <<>>},
           discarded' \subseteq Nat
    PROVE  Inv'
<1>1. ItemsOf(writers) \subseteq Nat
  BY DEF Inv, TypeOK, ItemsOf
<1>2. pc' \in [Coroutine -> Resting \cup Running]
  BY DEF Inv, TypeOK, CancelWaiters, ResumeCancelled, Resting
<1>3. on' \in [Coroutine -> Thread] /\ result' \in [Coroutine -> Result]
  BY DEF Inv, TypeOK, CancelWaiters, ResumeCancelled, Result
<1>4. buffer' \in Seq(Nat) /\ Len(buffer') <= Capacity
  <2>1. CASE buffer' = buffer
    BY <2>1 DEF Inv, TypeOK
  <2>2. CASE buffer' = <<>>
    BY <2>2, CapacityAssumption
  <2>. QED  BY <2>1, <2>2
<1>5. writers' \in Seq(Coroutine) /\ readers' \in Seq(Coroutine)
  BY DEF CancelWaiters
<1>6. withdrawn' \subseteq Nat
  BY <1>1 DEF Inv, TypeOK, CancelWaiters, ResumeCancelled
<1>7. TypeOK'
  BY <1>2, <1>3, <1>4, <1>5, <1>6 DEF Inv, TypeOK
<1>8. NoMissedHandoff'
  BY DEF NoMissedHandoff, CancelWaiters
<1>. QED  BY <1>7, <1>8 DEF Inv

-----------------------------------------------------------------------------
\* One lemma for the calls the program makes, one for the steps inside a call.

LEMMA StartInv ==
    ASSUME Inv, NEW c \in Coroutine, Start(c)
    PROVE  Inv'
<1> USE DEF NoItem
<1>1. CASE SendStart(c)
  <2>1. CASE ~active
    BY <1>1, <2>1, ReturnInv DEF SendStart, Inv, TypeOK, Result
  <2>2. CASE active
    <3>0. item' = [item EXCEPT ![c] = NoItem] /\ active' = active
      BY <1>1, <2>2 DEF SendStart
    <3>1. item' \in [Coroutine -> Nat] /\ active' \in BOOLEAN
      BY <3>0 DEF Inv, TypeOK
    <3>2. "send" \in Running
      BY DEF Running, Sending
    <3>. QED  BY <1>1, <2>2, <3>1, <3>2, GoOnInv DEF SendStart
  <2>. QED  BY <2>1, <2>2
<1>2. CASE SendSyncStart(c)
  <2>1. CASE ~active
    BY <1>2, <2>1, ReturnInv DEF SendSyncStart, Inv, TypeOK, Result
  <2>2. CASE active
    <3>0. item' = [item EXCEPT ![c] = NoItem] /\ active' = active
      BY <1>2, <2>2 DEF SendSyncStart
    <3>1. item' \in [Coroutine -> Nat] /\ active' \in BOOLEAN
      BY <3>0 DEF Inv, TypeOK
    <3>2. "sendSync" \in Running
      BY DEF Running, Sending
    <3>. QED  BY <1>2, <2>2, <3>1, <3>2, GoOnInv DEF SendSyncStart
  <2>. QED  BY <2>1, <2>2
<1>3. CASE Recv(c)
  <2>1. CASE TakeFromWriter(c)
    BY <2>1, TakeFromWriterInv
  <2>2. CASE TakeFromBuffer(c)
    BY <2>2, TakeFromBufferInv
  <2>3. CASE NothingThere
    <3>1. /\ pc' = [pc EXCEPT ![c] = "recvActive"]
          /\ item' = [item EXCEPT ![c] = NoItem]
          /\ UNCHANGED <<active, buffer, writers, readers, resuming, on,
                         result, count, delivered, withdrawn, discarded>>
      BY <1>3, <2>3 DEF Recv, NothingThere, TakeFromWriter, TakeFromBuffer
    <3>2. item' \in [Coroutine -> Nat] /\ active' \in BOOLEAN
      BY <3>1 DEF Inv, TypeOK
    <3>3. "recvActive" \in Running
      BY DEF Running
    <3>. QED  BY <3>1, <3>2, <3>3, GoOnInv
  <2>. QED  BY <1>3, <2>1, <2>2, <2>3 DEF Recv
<1>4. CASE TryRecv(c)
  <2>1. CASE TakeFromWriter(c)
    BY <2>1, TakeFromWriterInv
  <2>2. CASE TakeFromBuffer(c)
    BY <2>2, TakeFromBufferInv
  <2>3. CASE Return(c, "empty", NoItem) /\ ~TakeFromWriter(c)
                                       /\ ~TakeFromBuffer(c)
    BY <1>4, <2>3, ReturnInv DEF TryRecv, Inv, TypeOK, Result
  <2>. QED  BY <1>4, <2>1, <2>2, <2>3 DEF TryRecv
<1>5. CASE CloseStart(c)
  BY <1>5, GoOnInv DEF CloseStart, Inv, TypeOK, Running
<1>6. CASE CancelAllAwaiters(c)
  BY <1>6, CancelWaitersInv DEF CancelAllAwaiters, Inv, TypeOK
<1>. QED  BY <1>1, <1>2, <1>3, <1>4, <1>5, <1>6 DEF Start

LEMMA StepInv ==
    ASSUME Inv, NEW c \in Coroutine, Step(c)
    PROVE  Inv'
<1> USE DEF NoItem
<1>1. CASE SendLocked(c)
  <2>1. CASE HandToReader(c, "idle")
    BY <2>1, HandToReaderInv
  <2>2. CASE PutInBuffer(c, "idle")
    BY <2>2, PutInBufferInv
  <2>3. CASE NoTaker /\ ~HandToReader(c, "idle") /\ ~PutInBuffer(c, "idle")
    BY <1>1, <2>3, GoOnInv DEF SendLocked, Inv, TypeOK, Running, Sending
  <2>. QED  BY <1>1, <2>1, <2>2, <2>3 DEF SendLocked
<1>2. CASE PushWriter(c)
  <2>1. CASE HandToReader(c, "resumedWriter")
    BY <2>1, HandToReaderInv
  <2>2. CASE PutInBuffer(c, "resumedWriter")
    BY <2>2, PutInBufferInv
  <2>3. CASE /\ NoTaker
             /\ ~HandToReader(c, "resumedWriter")
             /\ ~PutInBuffer(c, "resumedWriter")
    <3>0. /\ writers' = Append(writers, c)
          /\ count' = count + 1
          /\ pc' = [pc EXCEPT ![c] = "parkedWriter"]
          /\ item' = [item EXCEPT ![c] = count + 1]
          /\ UNCHANGED <<active, buffer, readers, resuming, on, result,
                         delivered, withdrawn, discarded>>
      BY <1>2, <2>3 DEF PushWriter, Park
    <3>1. writers' \in Seq(Coroutine)
      BY <3>0, AppendType DEF Inv, TypeOK
    <3>2. Len(buffer) = Capacity /\ readers = <<>>
      BY <2>3, CapacityAssumption DEF NoTaker, Room, Inv, TypeOK
    <3>3. TypeOK'
      BY <3>0, <3>1 DEF Inv, TypeOK, Resting
    <3>4. NoMissedHandoff'
      BY <3>0, <3>2 DEF Inv, NoMissedHandoff
    <3>. QED  BY <3>3, <3>4 DEF Inv
  <2>. QED  BY <1>2, <2>1, <2>2, <2>3 DEF PushWriter
<1>3. CASE SendSyncLocked(c)
  <2>1. CASE HandToReader(c, "idle")
    BY <2>1, HandToReaderInv
  <2>2. CASE PutInBuffer(c, "idle")
    BY <2>2, PutInBufferInv
  <2>3. CASE Return(c, "refused", NoItem) /\ ~HandToReader(c, "idle")
                                         /\ ~PutInBuffer(c, "idle")
    BY <1>3, <2>3, ReturnInv DEF SendSyncLocked, Inv, TypeOK, Result
  <2>. QED  BY <1>3, <2>1, <2>2, <2>3 DEF SendSyncLocked
<1>4. CASE RecvActive(c)
  <2>1. CASE ~active
    BY <1>4, <2>1, ReturnInv DEF RecvActive, Inv, TypeOK, Result
  <2>2. CASE active
    BY <1>4, <2>2, GoOnInv DEF RecvActive, Inv, TypeOK, Running
  <2>. QED  BY <2>1, <2>2
<1>5. CASE PushReader(c)
  <2>1. CASE writers # <<>>
    <3> DEFINE w == Head(writers)
    <3>1. w \in Coroutine /\ Tail(writers) \in Seq(Coroutine)
      BY <2>1, HeadTailType DEF Inv, TypeOK
    <3>2. /\ writers' = Tail(writers)
          /\ pc' = [pc EXCEPT ![w] = "resumedWriter",
                              ![c] = "resumedReader"]
          /\ item' = [item EXCEPT ![c] = item[w]]
          /\ on' = [on EXCEPT ![w] = on[c]]
          /\ resuming' = <<w, c>>
          /\ UNCHANGED <<active, buffer, readers, result, count, delivered,
                         withdrawn, discarded>>
      BY <1>5, <2>1 DEF PushReader, NothingThere, Move
    <3>3. pc' \in [Coroutine -> Resting \cup Running]
      BY <3>1, <3>2 DEF Inv, TypeOK, Running
    <3>4. /\ item' \in [Coroutine -> Nat]
          /\ on' \in [Coroutine -> Thread]
          /\ resuming' \in Seq(Coroutine)
      BY <3>1, <3>2 DEF Inv, TypeOK
    <3>5. TypeOK'
      BY <3>1, <3>2, <3>3, <3>4 DEF Inv, TypeOK
    <3>6. NoMissedHandoff'
      BY <2>1, <3>2 DEF Inv, NoMissedHandoff
    <3>. QED  BY <3>5, <3>6 DEF Inv
  <2>2. CASE writers = <<>> /\ buffer # <<>>
    <3>1. /\ Head(buffer) \in Nat
          /\ Tail(buffer) \in Seq(Nat)
          /\ Len(Tail(buffer)) = Len(buffer) - 1
          /\ Len(buffer) \in Nat
      BY <2>2, HeadTailType DEF Inv, TypeOK
    <3>2. /\ buffer' = Tail(buffer)
          /\ pc' = [pc EXCEPT ![c] = "resumedReader"]
          /\ item' = [item EXCEPT ![c] = Head(buffer)]
          /\ resuming' = <<c>>
          /\ UNCHANGED <<active, writers, readers, on, result, count,
                         delivered, withdrawn, discarded>>
      BY <1>5, <2>2 DEF PushReader, NothingThere
    <3>3. TypeOK'
      BY <3>1, <3>2, CapacityAssumption DEF Inv, TypeOK, Running
    <3>4. NoMissedHandoff'
      BY <2>2, <3>2 DEF Inv, NoMissedHandoff
    <3>. QED  BY <3>3, <3>4 DEF Inv
  <2>3. CASE NothingThere
    <3>1. /\ readers' = Append(readers, c)
          /\ pc' = [pc EXCEPT ![c] = "parkedReader"]
          /\ UNCHANGED <<active, buffer, writers, resuming, on, item, result,
                         count, delivered, withdrawn, discarded>>
      BY <1>5, <2>3 DEF PushReader, NothingThere, Park
    <3>2. readers' \in Seq(Coroutine)
      BY <3>1, AppendType DEF Inv, TypeOK
    <3>3. TypeOK'
      BY <3>1, <3>2 DEF Inv, TypeOK, Resting
    <3>4. NoMissedHandoff'
      BY <2>3, <3>1 DEF NothingThere, Inv, NoMissedHandoff
    <3>. QED  BY <3>3, <3>4 DEF Inv
  <2>. QED  BY <2>1, <2>2, <2>3 DEF NothingThere
<1>6. CASE ResumeWriter(c)
  <2>1. Tail(resuming) \in Seq(Coroutine)
    BY <1>6, HeadTailType DEF ResumeWriter, IsNext, Inv, TypeOK
  <2>2. Return(c, "sent", item[c]) \/ Return(c, "closed", item[c])
    BY <1>6 DEF ResumeWriter
  <2>. QED  BY <1>6, <2>1, <2>2, ReturnInv
            DEF ResumeWriter, Inv, TypeOK, Result
<1>7. CASE ResumeReader(c)
  <2>1. Tail(resuming) \in Seq(Coroutine)
    BY <1>7, HeadTailType DEF ResumeReader, IsNext, Inv, TypeOK
  <2>2. Return(c, "received", item[c]) \/ Return(c, "closed", item[c])
    BY <1>7 DEF ResumeReader
  <2>3. delivered' \in Seq(Nat) /\ discarded' \subseteq Nat
    BY <1>7, AppendType DEF ResumeReader, Inv, TypeOK
  <2>. QED  BY <1>7, <2>1, <2>2, <2>3, ReturnInv
            DEF ResumeReader, Inv, TypeOK, Result
<1>8. CASE Cleanup(c)
  <2>1. Items(buffer) \subseteq Nat
    BY ItemsType DEF Inv, TypeOK
  <2>. QED  BY <1>8, <2>1, CancelWaitersInv DEF Cleanup, Inv, TypeOK
<1>. QED  BY <1>1, <1>2, <1>3, <1>4, <1>5, <1>6, <1>7, <1>8 DEF Step

LEMMA NextInv == Inv /\ [Next]_vars => Inv'
<1> SUFFICES ASSUME Inv, [Next]_vars PROVE Inv'
  OBVIOUS
<1>1. CASE UNCHANGED vars
  BY <1>1 DEF vars, Inv, TypeOK, NoMissedHandoff
<1>2. CASE Next
  BY <1>2, StartInv, StepInv DEF Next
<1>. QED  BY <1>1, <1>2

\* The variables of the channel keep their types, and buffer_ never holds more
\* than capacity_ items, although three operations push into it.
THEOREM TypeCorrect == Spec => []TypeOK
<1>1. Inv => TypeOK  BY DEF Inv
<1>. QED  BY <1>1, InitInv, NextInv, PTL DEF Spec

\* No sender is parked while a receiver or a free slot is there, no receiver
\* while an item is there: the second look under the lock closes the gap that
\* send() and recv() leave between their critical sections.
THEOREM HandoffNeverMissed == Spec => []NoMissedHandoff
<1>1. Inv => NoMissedHandoff  BY DEF Inv
<1>. QED  BY <1>1, InitInv, NextInv, PTL DEF Spec

-----------------------------------------------------------------------------
\* Lists without repetitions.

LEMMA HeadItem ==
    ASSUME NEW S, NEW seq \in Seq(S), seq # <<>>
    PROVE  Head(seq) \in Items(seq)
  BY HeadTailType DEF Items

LEMMA TailItems ==
    ASSUME NEW S, NEW seq \in Seq(S), seq # <<>>, NoRepeats(seq)
    PROVE  /\ NoRepeats(Tail(seq))
           /\ Items(Tail(seq)) = Items(seq) \ {Head(seq)}
<1>1. /\ Len(seq) \in Nat \ {0}
      /\ Len(Tail(seq)) = Len(seq) - 1
      /\ seq[1] = Head(seq)
      /\ \A k \in 1 .. Len(seq) - 1 : Tail(seq)[k] = seq[k + 1]
  OBVIOUS
<1>2. NoRepeats(Tail(seq))
  BY <1>1 DEF NoRepeats
<1>3. Items(Tail(seq)) \subseteq Items(seq) \ {Head(seq)}
  BY <1>1 DEF Items, NoRepeats
<1>4. ASSUME NEW e \in Items(seq), e # Head(seq)
      PROVE  e \in Items(Tail(seq))
  <2>1. PICK k \in 1 .. Len(seq) : e = seq[k]
    BY DEF Items
  <2>2. k - 1 \in 1 .. Len(Tail(seq)) /\ Tail(seq)[k - 1] = e
    BY <1>1, <1>4, <2>1
  <2>. QED  BY <2>2 DEF Items
<1>. QED  BY <1>2, <1>3, <1>4

LEMMA AppendItems ==
    ASSUME NEW S, NEW seq \in Seq(S), NEW e \in S
    PROVE  /\ Items(Append(seq, e)) = Items(seq) \cup {e}
           /\ NoRepeats(seq) /\ e \notin Items(seq)
                => NoRepeats(Append(seq, e))
<1>1. /\ Len(seq) \in Nat
      /\ Len(Append(seq, e)) = Len(seq) + 1
      /\ Append(seq, e)[Len(seq) + 1] = e
      /\ \A k \in 1 .. Len(seq) : Append(seq, e)[k] = seq[k]
  OBVIOUS
<1>. QED  BY <1>1 DEF Items, NoRepeats

LEMMA ShortLists ==
    /\ Items(<<>>) = {} /\ NoRepeats(<<>>)
    /\ \A a : Items(<<a>>) = {a} /\ NoRepeats(<<a>>)
    /\ \A a, b : Items(<<a, b>>) = {a, b} /\ (a # b => NoRepeats(<<a, b>>))
  BY DEF Items, NoRepeats

LEMMA NoItems ==
    ASSUME NEW S, NEW seq \in Seq(S), Items(seq) = {}
    PROVE  seq = <<>>
  BY DEF Items

-----------------------------------------------------------------------------
\* What a step does to the lists and the items, whatever call it belongs to.

\* The steps that touch neither the lists nor the items,
Quiet(c) ==
    \/ SendStart(c) \/ SendSyncStart(c) \/ CloseStart(c) \/ RecvActive(c)
    \/ /\ pc[c] = "send"
       /\ pc' = [pc EXCEPT ![c] = "pushWriter"]
       /\ UNCHANGED <<active, item, result>>
    \/ /\ pc[c] = "sendSync"
       /\ Return(c, "refused", NoItem)
       /\ UNCHANGED active
    \/ /\ CanStart(c)
       /\ \/ Return(c, "empty", NoItem)
          \/ /\ pc' = [pc EXCEPT ![c] = "recvActive"]
             /\ item' = [item EXCEPT ![c] = NoItem]
             /\ UNCHANGED result
       /\ UNCHANGED active

\* and what they have in common: the coroutine is on no list and holds no item.
Outside == {"idle", "recvActive", "pushReader", "closing"} \cup Sending

Aside(c) ==
    /\ pc[c] \in Outside
    /\ \E place \in Outside :
         /\ pc' = [pc EXCEPT ![c] = place]
         /\ IF place = "closing" THEN active /\ active' = FALSE
                                 ELSE active' = active
    /\ item' = item \/ item' = [item EXCEPT ![c] = NoItem]
    /\ UNCHANGED <<buffer, writers, readers, resuming, on, count, delivered,
                   withdrawn, discarded>>

ParkWriter(c) ==
    /\ pc[c] = "pushWriter"
    /\ NoTaker
    /\ writers' = Append(writers, c)
    /\ count' = count + 1
    /\ pc' = [pc EXCEPT ![c] = "parkedWriter"]
    /\ item' = [item EXCEPT ![c] = count + 1]
    /\ UNCHANGED <<active, buffer, readers, resuming, on, result, delivered,
                   withdrawn, discarded>>

ParkReader(c) ==
    /\ pc[c] = "pushReader"
    /\ NothingThere
    /\ readers' = Append(readers, c)
    /\ pc' = [pc EXCEPT ![c] = "parkedReader"]
    /\ UNCHANGED <<active, buffer, writers, resuming, on, item, result, count,
                   delivered, withdrawn, discarded>>

ReadFromWriter(c) ==
    LET w == Head(writers)
    IN  /\ pc[c] = "pushReader"
        /\ MutexFree
        /\ writers # <<>>
        /\ writers' = Tail(writers)
        /\ pc' = [pc EXCEPT ![w] = "resumedWriter", ![c] = "resumedReader"]
        /\ item' = [item EXCEPT ![c] = item[w]]
        /\ resuming' = <<w, c>>
        /\ UNCHANGED <<active, buffer, readers, result, count, delivered,
                       withdrawn, discarded>>

ReadFromBuffer(c) ==
    /\ pc[c] = "pushReader"
    /\ MutexFree
    /\ writers = <<>>
    /\ buffer # <<>>
    /\ buffer' = Tail(buffer)
    /\ pc' = [pc EXCEPT ![c] = "resumedReader"]
    /\ item' = [item EXCEPT ![c] = Head(buffer)]
    /\ resuming' = <<c>>
    /\ UNCHANGED <<active, writers, readers, result, count, delivered,
                   withdrawn, discarded>>

Effect(c) ==
    \/ Quiet(c) /\ Aside(c)
    \/ /\ pc[c] \in Sending /\ MutexFree
       /\ \E to \in {"idle", "resumedWriter"} :
             HandToReader(c, to) \/ PutInBuffer(c, to)
    \/ ParkWriter(c) \/ ParkReader(c)
    \/ /\ CanStart(c) /\ pc[c] = "idle" /\ MutexFree
       /\ TakeFromWriter(c) \/ TakeFromBuffer(c)
    \/ ReadFromWriter(c) \/ ReadFromBuffer(c)
    \/ ResumeWriter(c) \/ ResumeReader(c)
    \/ Cleanup(c) \/ CancelAllAwaiters(c)

LEMMA StartEffect ==
    ASSUME NEW c \in Coroutine, Start(c)
    PROVE  Effect(c)
<1> USE DEF Outside, Sending
<1>1. CASE SendStart(c)
  BY <1>1 DEF SendStart, CanStart, Return, Quiet, Aside, Effect
<1>2. CASE SendSyncStart(c)
  BY <1>2 DEF SendSyncStart, CanStart, Return, Quiet, Aside, Effect
<1>3. CASE Recv(c)
  BY <1>3 DEF Recv, CanStart, Quiet, Aside, Effect
<1>4. CASE TryRecv(c)
  BY <1>4 DEF TryRecv, CanStart, Return, Quiet, Aside, Effect
<1>5. CASE CloseStart(c)
  BY <1>5 DEF CloseStart, CanStart, Quiet, Aside, Effect
<1>6. CASE CancelAllAwaiters(c)
  BY <1>6 DEF Effect
<1>. QED  BY <1>1, <1>2, <1>3, <1>4, <1>5, <1>6 DEF Start

LEMMA StepEffect ==
    ASSUME NEW c \in Coroutine, Step(c)
    PROVE  Effect(c)
<1> USE DEF Outside, Sending
<1>1. CASE SendLocked(c)
  BY <1>1 DEF SendLocked, Quiet, Aside, Effect
<1>2. CASE PushWriter(c)
  BY <1>2 DEF PushWriter, Park, ParkWriter, Effect
<1>3. CASE SendSyncLocked(c)
  BY <1>3 DEF SendSyncLocked, Return, Quiet, Aside, Effect
<1>4. CASE RecvActive(c)
  BY <1>4 DEF RecvActive, Return, Quiet, Aside, Effect
<1>5. CASE PushReader(c)
  BY <1>5 DEF PushReader, Park, ParkReader, ReadFromWriter, ReadFromBuffer,
              Effect
<1>6. CASE ResumeWriter(c) \/ ResumeReader(c) \/ Cleanup(c)
  BY <1>6 DEF Effect
<1>. QED  BY <1>1, <1>2, <1>3, <1>4, <1>5, <1>6 DEF Step

-----------------------------------------------------------------------------
\* Waiters.

On(place) == {c \in Coroutine : pc[c] = place}

Resumed == {c \in Coroutine : pc[c] \in {"resumedWriter", "resumedReader"}}

Waiters ==
    /\ NoRepeats(writers) /\ NoRepeats(readers) /\ NoRepeats(resuming)
    /\ Items(writers) = On("parkedWriter")
    /\ Items(readers) = On("parkedReader")
    /\ Items(resuming) = Resumed

LEMMA WaitersEffect ==
    ASSUME Inv, EveryWaiterOnOneList, NEW c \in Coroutine, Effect(c)
    PROVE  EveryWaiterOnOneList'
<1> SUFFICES Waiters'
  BY DEF EveryWaiterOnOneList, Waiters, On, Resumed
<1>0. /\ Waiters
      /\ pc \in [Coroutine -> Resting \cup Running]
      /\ writers \in Seq(Coroutine)
      /\ readers \in Seq(Coroutine)
      /\ resuming \in Seq(Coroutine)
  BY DEF EveryWaiterOnOneList, Waiters, On, Resumed, Inv, TypeOK
<1> USE <1>0
<1>1. CASE Aside(c)
  BY <1>1 DEF Aside, Outside, Sending, Waiters, On, Resumed
<1>2. ASSUME pc[c] \in Sending, MutexFree, NEW to \in {"idle", "resumedWriter"},
             HandToReader(c, to)
      PROVE  Waiters'
  <2> DEFINE r == Head(readers)
  <2>1. /\ r \in On("parkedReader")
        /\ NoRepeats(Tail(readers))
        /\ Items(Tail(readers)) = On("parkedReader") \ {r}
    BY <1>2, HeadItem, TailItems DEF HandToReader, Waiters
  <2>2. Resumed = {}
    BY <1>2, ShortLists DEF MutexFree, Waiters
  <2>3. /\ pc' = [pc EXCEPT ![r] = "resumedReader", ![c] = to]
        /\ readers' = Tail(readers) /\ writers' = writers
        /\ resuming' = IF to = "idle" THEN <<r>> ELSE <<r, c>>
    BY <1>2 DEF HandToReader
  <2>4. r # c /\ r \in Coroutine
    BY <1>2, <2>1 DEF On, Sending
  <2>5. /\ On("parkedReader")' = On("parkedReader") \ {r}
        /\ On("parkedWriter")' = On("parkedWriter")
        /\ Resumed' = IF to = "idle" THEN {r} ELSE {r, c}
    BY <1>2, <2>1, <2>2, <2>3, <2>4 DEF On, Resumed, Sending
  <2>6. NoRepeats(resuming') /\ Items(resuming') = Resumed'
    BY <2>3, <2>4, <2>5, ShortLists
  <2>. QED  BY <2>1, <2>3, <2>5, <2>6 DEF Waiters
<1>3. ASSUME pc[c] \in Sending, MutexFree, NEW to \in {"idle", "resumedWriter"},
             PutInBuffer(c, to)
      PROVE  Waiters'
  <2>1. Resumed = {}
    BY <1>3, ShortLists DEF MutexFree, Waiters
  <2>2. /\ pc' = [pc EXCEPT ![c] = to]
        /\ readers' = readers /\ writers' = writers
        /\ resuming' = IF to = "idle" THEN <<>> ELSE <<c>>
    BY <1>3 DEF PutInBuffer
  <2>3. /\ On("parkedReader")' = On("parkedReader")
        /\ On("parkedWriter")' = On("parkedWriter")
        /\ Resumed' = IF to = "idle" THEN {} ELSE {c}
    BY <1>3, <2>1, <2>2 DEF On, Resumed, Sending
  <2>4. NoRepeats(resuming') /\ Items(resuming') = Resumed'
    BY <2>2, <2>3, ShortLists
  <2>. QED  BY <2>2, <2>3, <2>4 DEF Waiters
<1>4. CASE ParkWriter(c)
  <2>1. c \notin Items(writers)
    BY <1>4 DEF ParkWriter, Waiters, On
  <2>2. /\ On("parkedReader")' = On("parkedReader")
        /\ On("parkedWriter")' = On("parkedWriter") \cup {c}
        /\ Resumed' = Resumed
    BY <1>4 DEF ParkWriter, On, Resumed
  <2>3. NoRepeats(writers') /\ Items(writers') = Items(writers) \cup {c}
    BY <1>4, <2>1, AppendItems DEF ParkWriter, Waiters
  <2>. QED  BY <1>4, <2>2, <2>3 DEF ParkWriter, Waiters
<1>5. CASE ParkReader(c)
  <2>1. c \notin Items(readers)
    BY <1>5 DEF ParkReader, Waiters, On
  <2>2. /\ On("parkedReader")' = On("parkedReader") \cup {c}
        /\ On("parkedWriter")' = On("parkedWriter")
        /\ Resumed' = Resumed
    BY <1>5 DEF ParkReader, On, Resumed
  <2>3. NoRepeats(readers') /\ Items(readers') = Items(readers) \cup {c}
    BY <1>5, <2>1, AppendItems DEF ParkReader, Waiters
  <2>. QED  BY <1>5, <2>2, <2>3 DEF ParkReader, Waiters
<1>6. CASE pc[c] = "idle" /\ MutexFree /\ TakeFromWriter(c)
  <2> DEFINE w == Head(writers)
  <2>1. /\ w \in On("parkedWriter")
        /\ NoRepeats(Tail(writers))
        /\ Items(Tail(writers)) = On("parkedWriter") \ {w}
    BY <1>6, HeadItem, TailItems DEF TakeFromWriter, Waiters
  <2>2. Resumed = {}
    BY <1>6, ShortLists DEF MutexFree, Waiters
  <2>3. /\ pc' = [pc EXCEPT ![w] = "resumedWriter", ![c] = "idle"]
        /\ writers' = Tail(writers) /\ readers' = readers
        /\ resuming' = <<w>>
    BY <1>6 DEF TakeFromWriter
  <2>4. /\ On("parkedReader")' = On("parkedReader")
        /\ On("parkedWriter")' = On("parkedWriter") \ {w}
        /\ Resumed' = {w}
    BY <1>6, <2>1, <2>2, <2>3 DEF On, Resumed
  <2>. QED  BY <2>1, <2>3, <2>4, ShortLists DEF Waiters
<1>7. CASE pc[c] = "idle" /\ MutexFree /\ TakeFromBuffer(c)
  <2>1. pc' = pc /\ UNCHANGED <<writers, readers, resuming>>
    BY <1>7 DEF TakeFromBuffer, Return
  <2>. QED  BY <2>1 DEF Waiters, On, Resumed
<1>8. CASE ReadFromWriter(c)
  <2> DEFINE w == Head(writers)
  <2>1. /\ w \in On("parkedWriter")
        /\ NoRepeats(Tail(writers))
        /\ Items(Tail(writers)) = On("parkedWriter") \ {w}
    BY <1>8, HeadItem, TailItems DEF ReadFromWriter, Waiters
  <2>2. Resumed = {}
    BY <1>8, ShortLists DEF ReadFromWriter, MutexFree, Waiters
  <2>3. /\ pc[c] = "pushReader"
        /\ pc' = [pc EXCEPT ![w] = "resumedWriter", ![c] = "resumedReader"]
        /\ writers' = Tail(writers) /\ readers' = readers
        /\ resuming' = <<w, c>>
    BY <1>8 DEF ReadFromWriter
  <2>4. w # c /\ w \in Coroutine
    BY <2>1, <2>3 DEF On
  <2>5. /\ On("parkedReader")' = On("parkedReader")
        /\ On("parkedWriter")' = On("parkedWriter") \ {w}
        /\ Resumed' = {w, c}
    BY <2>1, <2>2, <2>3, <2>4 DEF On, Resumed
  <2>. QED  BY <2>1, <2>3, <2>4, <2>5, ShortLists DEF Waiters
<1>9. CASE ReadFromBuffer(c)
  <2>1. Resumed = {}
    BY <1>9, ShortLists DEF ReadFromBuffer, MutexFree, Waiters
  <2>2. /\ On("parkedReader")' = On("parkedReader")
        /\ On("parkedWriter")' = On("parkedWriter")
        /\ Resumed' = {c}
    BY <1>9, <2>1 DEF ReadFromBuffer, On, Resumed
  <2>. QED  BY <1>9, <2>2, ShortLists DEF ReadFromBuffer, Waiters
<1>10. CASE ResumeWriter(c) \/ ResumeReader(c)
  <2>1. /\ resuming # <<>> /\ Head(resuming) = c
        /\ pc' = [pc EXCEPT ![c] = "idle"]
        /\ pc[c] \in {"resumedWriter", "resumedReader"}
        /\ resuming' = Tail(resuming) /\ UNCHANGED <<writers, readers>>
    BY <1>10 DEF ResumeWriter, ResumeReader, IsNext, Return
  <2>2. NoRepeats(resuming') /\ Items(resuming') = Resumed \ {c}
    BY <2>1, TailItems DEF Waiters
  <2>3. /\ On("parkedReader")' = On("parkedReader")
        /\ On("parkedWriter")' = On("parkedWriter")
        /\ Resumed' = Resumed \ {c}
    BY <2>1 DEF On, Resumed
  <2>. QED  BY <2>1, <2>2, <2>3 DEF Waiters
<1>11. CASE Cleanup(c) \/ CancelAllAwaiters(c)
  <2>1. /\ writers' = <<>> /\ readers' = <<>> /\ resuming' = resuming
        /\ pc' = [d \in Coroutine |->
                    IF d \in Waiting \cup {c} THEN "idle" ELSE pc[d]]
        /\ pc[c] \in {"idle", "closing"}
    BY <1>11 DEF Cleanup, CancelAllAwaiters, CanStart, CancelWaiters,
                 ResumeCancelled
  <2>2. Waiting = On("parkedWriter") \cup On("parkedReader")
    BY DEF Waiting, Waiters
  <2>3. /\ On("parkedReader")' = {}
        /\ On("parkedWriter")' = {}
        /\ Resumed' = Resumed
    BY <2>1, <2>2 DEF On, Resumed
  <2>. QED  BY <2>1, <2>3, ShortLists DEF Waiters
<1>. QED  BY <1>1, <1>2, <1>3, <1>4, <1>5, <1>6, <1>7, <1>8, <1>9, <1>10,
             <1>11 DEF Effect

WaitersInv == Inv /\ EveryWaiterOnOneList

LEMMA NextWaitersInv == WaitersInv /\ [Next]_vars => WaitersInv'
<1> SUFFICES ASSUME WaitersInv, [Next]_vars PROVE EveryWaiterOnOneList'
  BY NextInv DEF WaitersInv
<1>1. CASE UNCHANGED vars
  BY <1>1 DEF vars, WaitersInv, EveryWaiterOnOneList
<1>2. CASE Next
  BY <1>2, StartEffect, StepEffect, WaitersEffect DEF WaitersInv, Next
<1>. QED  BY <1>1, <1>2

LEMMA InitWaitersInv == Init => WaitersInv
  BY InitInv, ShortLists DEF Init, WaitersInv, EveryWaiterOnOneList

\* Every suspended coroutine is on exactly one list, once, whichever thread
\* took, parked or cancelled whom.
THEOREM WaiterOnOneList == Spec => []EveryWaiterOnOneList
<1>1. WaitersInv => EveryWaiterOnOneList  BY DEF WaitersInv
<1>. QED  BY <1>1, InitWaitersInv, NextWaitersInv, PTL DEF Spec

-----------------------------------------------------------------------------
\* Items.

\* The items 1 .. n are split among five places.
Split(D, B, H, W, X, n) ==
    /\ D \cup B \cup H \cup W \cup X = 1 .. n
    /\ D \cap B = {} /\ D \cap H = {} /\ D \cap W = {} /\ D \cap X = {}
    /\ B \cap H = {} /\ B \cap W = {} /\ B \cap X = {}
    /\ H \cap W = {} /\ H \cap X = {}
    /\ W \cap X = {}

LEMMA SplitIsDisjoint ==
    ASSUME NEW D, NEW B, NEW H, NEW W, NEW X, NEW n
    PROVE  Split(D, B, H, W, X, n) <=>
             /\ D \cup B \cup H \cup W \cup X = 1 .. n
             /\ \A j, k \in 1 .. 5 : j # k =>
                  <<D, B, H, W, X>>[j] \cap <<D, B, H, W, X>>[k] = {}
<1> DEFINE P == <<D, B, H, W, X>>
<1>1. P[1] = D /\ P[2] = B /\ P[3] = H /\ P[4] = W /\ P[5] = X
  OBVIOUS
<1> HIDE DEF P
<1>2. ASSUME Split(D, B, H, W, X, n), NEW j \in 1 .. 5, NEW k \in 1 .. 5, j # k
      PROVE  P[j] \cap P[k] = {}
  <2>1. \A S, T : S \cap T = {} => T \cap S = {}
    OBVIOUS
  <2>2. j \in {1, 2, 3, 4, 5} /\ k \in {1, 2, 3, 4, 5}
    OBVIOUS
  <2>. QED  BY <1>1, <1>2, <2>1, <2>2 DEF Split
<1>3. ASSUME \A j, k \in 1 .. 5 : j # k => P[j] \cap P[k] = {}
      PROVE  /\ D \cap B = {} /\ D \cap H = {} /\ D \cap W = {}
             /\ D \cap X = {} /\ B \cap H = {} /\ B \cap W = {}
             /\ B \cap X = {} /\ H \cap W = {} /\ H \cap X = {}
             /\ W \cap X = {}
  BY <1>1, <1>3
<1>. QED  BY <1>2, <1>3 DEF Split, P

\* A new item comes into the buffer, or into somebody's hands.
LEMMA SplitNew ==
    ASSUME NEW D, NEW B, NEW H, NEW W, NEW X, NEW n \in Nat,
           Split(D, B, H, W, X, n)
    PROVE  /\ Split(D, B \cup {n + 1}, H, W, X, n + 1)
           /\ Split(D, B, H \cup {n + 1}, W, X, n + 1)
<1>1. 1 .. n + 1 = (1 .. n) \cup {n + 1} /\ n + 1 \notin 1 .. n
  OBVIOUS
<1>. QED  BY <1>1 DEF Split

\* Items leave the buffer or somebody's hands for another place.
LEMMA SplitMove ==
    ASSUME NEW D, NEW B, NEW H, NEW W, NEW X, NEW n, NEW S,
           Split(D, B, H, W, X, n)
    PROVE  /\ S \subseteq B => Split(D \cup S, B \ S, H, W, X, n)
           /\ S \subseteq B => Split(D, B \ S, H \cup S, W, X, n)
           /\ S \subseteq B => Split(D, B \ S, H, W, X \cup S, n)
           /\ S \subseteq H => Split(D \cup S, B, H \ S, W, X, n)
           /\ S \subseteq H => Split(D, B, H \ S, W \cup S, X, n)
           /\ S \subseteq H => Split(D, B, H \ S, W, X \cup S, n)
<1> USE DEF Split
<1>1. ASSUME S \subseteq B PROVE Split(D \cup S, B \ S, H, W, X, n)
  BY <1>1
<1>2. ASSUME S \subseteq B PROVE Split(D, B \ S, H \cup S, W, X, n)
  BY <1>2
<1>3. ASSUME S \subseteq B PROVE Split(D, B \ S, H, W, X \cup S, n)
  BY <1>3
<1>4. ASSUME S \subseteq H PROVE Split(D \cup S, B, H \ S, W, X, n)
  BY <1>4
<1>5. ASSUME S \subseteq H PROVE Split(D, B, H \ S, W \cup S, X, n)
  BY <1>5
<1>6. ASSUME S \subseteq H PROVE Split(D, B, H \ S, W, X \cup S, n)
  BY <1>6
<1>. QED  BY <1>1, <1>2, <1>3, <1>4, <1>5, <1>6

\* The items of some coroutines, when one joins them or some leave.
Injective(f, S) == \A c, d \in S : c # d => f[c] # f[d]

LEMMA ImageGains ==
    ASSUME NEW S, NEW f, NEW g, NEW r, r \notin S, \A d \in S : g[d] = f[d]
    PROVE  /\ {g[d] : d \in S \cup {r}} = {f[d] : d \in S} \cup {g[r]}
           /\ Injective(f, S) /\ g[r] \notin {f[d] : d \in S}
                => Injective(g, S \cup {r})
  BY DEF Injective

LEMMA ImageLoses ==
    ASSUME NEW S, NEW R, NEW f, NEW g, R \subseteq S, Injective(f, S),
           \A d \in S \ R : g[d] = f[d]
    PROVE  /\ {g[d] : d \in S \ R} = {f[d] : d \in S} \ {f[d] : d \in R}
           /\ Injective(g, S \ R)
  BY DEF Injective

Holders == {d \in Coroutine : pc[d] \in {"parkedWriter", "resumedReader"}}

Once ==
    /\ Split(Delivered, Items(buffer), InHand, withdrawn, discarded, count)
    /\ NoRepeats(delivered)
    /\ NoRepeats(buffer)
    /\ Injective(item, Holders)

LEMMA OnceIsEveryItemOnce ==
    /\ EveryItemOnce => Once
    /\ Once' => EveryItemOnce'
<1>1. EveryItemOnce => Once
  BY SplitIsDisjoint DEF EveryItemOnce, Once, Places, Injective, Holders
<1>2. Once' => EveryItemOnce'
  BY SplitIsDisjoint DEF EveryItemOnce, Once, Places, Injective, Holders
<1>. QED  BY <1>1, <1>2

\* A step that gives nothing to anybody keeps what is in hand.
LEMMA SameHolders ==
    ASSUME Holders' = Holders, \A d \in Holders : item'[d] = item[d]
    PROVE  InHand' = InHand /\ (Injective(item, Holders)
                                  => Injective(item, Holders)')
  BY DEF InHand, Holders, Injective

LEMMA OneMoreHolder ==
    ASSUME NEW r, r \notin Holders, Holders' = Holders \cup {r},
           \A d \in Holders : item'[d] = item[d],
           Injective(item, Holders), item'[r] \notin InHand
    PROVE  InHand' = InHand \cup {item'[r]} /\ Injective(item, Holders)'
<1>1. InHand = {item[d] : d \in Holders}
  BY DEF InHand, Holders
<1>2. InHand' = {item'[d] : d \in Holders'}
  BY DEF InHand, Holders
<1>. QED  BY <1>1, <1>2, ImageGains DEF Injective

LEMMA FewerHolders ==
    ASSUME NEW R, R \subseteq Holders, Holders' = Holders \ R,
           \A d \in Holders \ R : item'[d] = item[d],
           Injective(item, Holders)
    PROVE  InHand' = InHand \ {item[d] : d \in R} /\ Injective(item, Holders)'
<1>1. InHand = {item[d] : d \in Holders}
  BY DEF InHand, Holders
<1>2. InHand' = {item'[d] : d \in Holders'}
  BY DEF InHand, Holders
<1>. QED  BY <1>1, <1>2, ImageLoses DEF Injective

-----------------------------------------------------------------------------
\* The pool of items: what is pending is in the buffer or in hand.

Pending == Items(buffer) \cup InHand

PoolStep == Pool!PoolNext \/ UNCHANGED Pool!poolVars

LEMMA PoolRests ==
    ASSUME Pending' = Pending, active' = active \/ (active /\ active' = FALSE),
           UNCHANGED <<count, delivered, withdrawn>>
    PROVE  PoolStep
  BY DEF PoolStep, Pool!PoolNext, Pool!Close, Pool!poolVars, Pending

LEMMA PoolAccepts ==
    ASSUME Pending' = Pending \cup {count + 1}, count' = count + 1,
           UNCHANGED <<active, delivered, withdrawn>>
    PROVE  PoolStep
  BY DEF PoolStep, Pool!PoolNext, Pool!Accept, Pending

LEMMA PoolTakes ==
    ASSUME NEW i \in Pending, Capacity = 0 => \A j \in Pending : i <= j,
           Pending' = Pending \ {i}, delivered' = Append(delivered, i),
           UNCHANGED <<active, count, withdrawn>>
    PROVE  PoolStep
<1>1. Pool!Take(i)
  BY DEF Pool!Take, Pending
<1>. QED  BY <1>1 DEF PoolStep, Pool!PoolNext, Pending

LEMMA PoolRemoves ==
    ASSUME NEW back, NEW drop, back \cup drop \subseteq Pending,
           back \cap drop = {}, drop # {} => ~active,
           Pending' = Pending \ (back \cup drop),
           withdrawn' = withdrawn \cup back,
           UNCHANGED <<active, count, delivered>>
    PROVE  PoolStep
<1>1. Pool!Remove(back, drop)
  BY DEF Pool!Remove, Pending
<1>2. back \in SUBSET Pending /\ drop \in SUBSET Pending
  OBVIOUS
<1>. QED  BY <1>1, <1>2 DEF PoolStep, Pool!PoolNext, Pending

\* The order of the items: the oldest is on its way to a receiver, the others
\* are parked in their order.  Between close() and its cleanup the channel is
\* closed already.
ItemOrder ==
    /\ \A c, d \in On("resumedReader") : c = d
    /\ \A c \in On("resumedReader"), d \in On("parkedWriter") :
          item[c] < item[d]
    /\ \A j, k \in 1 .. Len(writers) :
          j < k => item[writers[j]] < item[writers[k]]
    /\ \A c \in On("closing") : ~active

LEMMA EmptyBuffer ==
    ASSUME NEW seq \in Seq(Nat), Len(seq) <= 0
    PROVE  seq = <<>>
  OBVIOUS

LEMMA FirstIsLeast ==
    ASSUME writers \in Seq(Coroutine), writers # <<>>, ItemOrder,
           item \in [Coroutine -> Nat], NEW d \in Items(writers)
    PROVE  item[Head(writers)] <= item[d]
<1>1. PICK k \in 1 .. Len(writers) : d = writers[k]
  BY DEF Items
<1>2. /\ Head(writers) = writers[1] /\ 1 \in 1 .. Len(writers)
      /\ writers[1] \in Coroutine /\ writers[k] \in Coroutine
  BY <1>1
<1>3. CASE k = 1
  BY <1>1, <1>2, <1>3
<1>4. CASE 1 < k
  BY <1>1, <1>2, <1>4 DEF ItemOrder
<1>. QED  BY <1>3, <1>4

\* What a step does to the places of the items, and so to the pool.
LEMMA OnceEffect ==
    ASSUME WaitersInv, Once, ItemOrder, NEW c \in Coroutine, Effect(c)
    PROVE  Once' /\ PoolStep
<1> DEFINE D == Delivered  B == Items(buffer)
<1>0. /\ pc \in [Coroutine -> Resting \cup Running]
      /\ item \in [Coroutine -> Nat]
      /\ count \in Nat
      /\ writers \in Seq(Coroutine) /\ readers \in Seq(Coroutine)
      /\ buffer \in Seq(Nat) /\ delivered \in Seq(Nat)
      /\ Items(writers) = On("parkedWriter")
      /\ Items(readers) = On("parkedReader")
      /\ Items(resuming) = Resumed
  BY DEF WaitersInv, EveryWaiterOnOneList, Inv, TypeOK, On, Resumed
<1>s. /\ Split(D, B, InHand, withdrawn, discarded, count)
      /\ NoRepeats(delivered) /\ NoRepeats(buffer) /\ Injective(item, Holders)
  BY DEF Once
<1>n. /\ count + 1 \notin InHand /\ count + 1 \notin B
      /\ B \cap D = {} /\ InHand \cap D = {} /\ B \cap InHand = {}
  BY <1>0, <1>s DEF Split
<1>h. \A d \in Holders : item[d] \in InHand
  BY DEF Holders, InHand
<1>o. ItemOrder /\ Len(buffer) <= Capacity
  BY DEF WaitersInv, Inv, TypeOK
<1>1. CASE Aside(c) \/ ParkReader(c)
  <2>1. Holders' = Holders /\ \A d \in Holders : item'[d] = item[d]
    BY <1>0, <1>1 DEF Aside, ParkReader, Outside, Sending, Holders
  <2>2. UNCHANGED <<buffer, count, delivered, withdrawn, discarded>>
    BY <1>1 DEF Aside, ParkReader
  <2>3. Pending' = Pending
    BY <1>s, <2>1, <2>2, SameHolders DEF Pending
  <2>4. Once'
    BY <1>s, <2>1, <2>2, SameHolders DEF Once, Delivered
  <2>5. PoolStep
    BY <1>1, <2>2, <2>3, PoolRests DEF Aside, ParkReader
  <2>. QED  BY <2>4, <2>5
<1>2. ASSUME pc[c] \in Sending, MutexFree, NEW to \in {"idle", "resumedWriter"},
             HandToReader(c, to)
      PROVE  Once' /\ PoolStep
  <2> DEFINE r == Head(readers)
  <2>1. r \in On("parkedReader")
    BY <1>0, <1>2, HeadItem DEF HandToReader
  <2>2. /\ pc' = [pc EXCEPT ![r] = "resumedReader", ![c] = to]
        /\ item' = [item EXCEPT ![r] = count + 1, ![c] = count + 1]
        /\ count' = count + 1
        /\ UNCHANGED <<buffer, delivered, withdrawn, discarded>>
    BY <1>2 DEF HandToReader
  <2>3. r # c /\ r \in Coroutine /\ r \notin Holders /\ c \notin Holders
    BY <1>2, <2>1 DEF On, Sending, Holders
  <2>4. /\ Holders' = Holders \cup {r}
        /\ \A d \in Holders : item'[d] = item[d]
        /\ item'[r] = count + 1
    BY <1>0, <1>2, <2>1, <2>2, <2>3 DEF On, Sending, Holders
  <2>5. InHand' = InHand \cup {count + 1} /\ Injective(item, Holders)'
    BY <1>s, <1>n, <2>3, <2>4, OneMoreHolder
  <2>6. Split(D, B, InHand \cup {count + 1}, withdrawn, discarded, count + 1)
    BY <1>0, <1>s, SplitNew
  <2>7. Pending' = Pending \cup {count + 1}
    BY <2>2, <2>5 DEF Pending
  <2>8. Once'
    BY <1>s, <2>2, <2>5, <2>6 DEF Once, Delivered
  <2>9. PoolStep
    BY <1>2, <2>2, <2>7, PoolAccepts DEF HandToReader
  <2>. QED  BY <2>8, <2>9
<1>3. ASSUME pc[c] \in Sending, MutexFree, NEW to \in {"idle", "resumedWriter"},
             PutInBuffer(c, to)
      PROVE  Once' /\ PoolStep
  <2>1. /\ pc' = [pc EXCEPT ![c] = to]
        /\ item' = [item EXCEPT ![c] = count + 1]
        /\ buffer' = Append(buffer, count + 1)
        /\ count' = count + 1
        /\ UNCHANGED <<delivered, withdrawn, discarded>>
    BY <1>3 DEF PutInBuffer
  <2>2. Holders' = Holders /\ \A d \in Holders : item'[d] = item[d]
    BY <1>0, <1>3, <2>1 DEF Sending, Holders
  <2>3. InHand' = InHand /\ Injective(item, Holders)'
    BY <1>s, <2>2, SameHolders
  <2>4. Items(buffer') = B \cup {count + 1} /\ NoRepeats(buffer')
    BY <1>0, <1>s, <1>n, <2>1, AppendItems
  <2>5. Split(D, B \cup {count + 1}, InHand, withdrawn, discarded, count + 1)
    BY <1>0, <1>s, SplitNew
  <2>6. Pending' = Pending \cup {count + 1}
    BY <2>3, <2>4 DEF Pending
  <2>7. Once'
    BY <1>s, <2>1, <2>3, <2>4, <2>5 DEF Once, Delivered
  <2>8. PoolStep
    BY <1>3, <2>1, <2>6, PoolAccepts DEF PutInBuffer
  <2>. QED  BY <2>7, <2>8
<1>4. CASE ParkWriter(c)
  <2>1. /\ pc[c] = "pushWriter"
        /\ pc' = [pc EXCEPT ![c] = "parkedWriter"]
        /\ item' = [item EXCEPT ![c] = count + 1]
        /\ count' = count + 1
        /\ UNCHANGED <<buffer, delivered, withdrawn, discarded>>
    BY <1>4 DEF ParkWriter
  <2>2. /\ c \notin Holders /\ Holders' = Holders \cup {c}
        /\ \A d \in Holders : item'[d] = item[d]
        /\ item'[c] = count + 1
    BY <1>0, <2>1 DEF Holders
  <2>3. InHand' = InHand \cup {count + 1} /\ Injective(item, Holders)'
    BY <1>s, <1>n, <2>2, OneMoreHolder
  <2>4. Split(D, B, InHand \cup {count + 1}, withdrawn, discarded, count + 1)
    BY <1>0, <1>s, SplitNew
  <2>5. Pending' = Pending \cup {count + 1}
    BY <2>1, <2>3 DEF Pending
  <2>6. Once'
    BY <1>s, <2>1, <2>3, <2>4 DEF Once, Delivered
  <2>7. PoolStep
    BY <1>4, <2>1, <2>5, PoolAccepts DEF ParkWriter
  <2>. QED  BY <2>6, <2>7
<1>5. CASE pc[c] = "idle" /\ MutexFree /\ TakeFromWriter(c)
  <2> DEFINE w == Head(writers)
  <2>1. w \in On("parkedWriter")
    BY <1>0, <1>5, HeadItem DEF TakeFromWriter
  <2>2. /\ pc' = [pc EXCEPT ![w] = "resumedWriter", ![c] = "idle"]
        /\ item' = [item EXCEPT ![c] = item[w]]
        /\ delivered' = Append(delivered, item[w])
        /\ UNCHANGED <<buffer, count, withdrawn, discarded>>
    BY <1>5 DEF TakeFromWriter
  <2>3. w \in Coroutine /\ w \in Holders /\ c \notin Holders
    BY <1>5, <2>1 DEF On, Holders
  <2>4. /\ Holders' = Holders \ {w}
        /\ \A d \in Holders \ {w} : item'[d] = item[d]
    BY <1>0, <1>5, <2>1, <2>2, <2>3 DEF On, Holders
  <2>5. InHand' = InHand \ {item[w]} /\ Injective(item, Holders)'
    <3>1. {item[d] : d \in {w}} = {item[w]}
      OBVIOUS
    <3>. QED  BY <1>s, <2>3, <2>4, <3>1, FewerHolders
  <2>6. item[w] \in InHand /\ item[w] \notin Items(delivered)
    BY <1>h, <1>n, <2>3 DEF Delivered
  <2>7. Items(delivered') = D \cup {item[w]} /\ NoRepeats(delivered')
    BY <1>0, <1>s, <2>2, <2>3, <2>6, AppendItems DEF Delivered
  <2>8. Split(D \cup {item[w]}, B, InHand \ {item[w]}, withdrawn, discarded,
              count)
    BY <1>s, <2>6, SplitMove
  <2>9. Pending' = Pending \ {item[w]} /\ item[w] \in Pending
    BY <1>n, <2>2, <2>5, <2>6 DEF Pending
  <2>10. ASSUME Capacity = 0, NEW j \in Pending
         PROVE  item[w] <= j
    <3>1. buffer = <<>> /\ Resumed = {} /\ writers # <<>>
      BY <1>0, <1>o, <1>5, <2>10, ShortLists, EmptyBuffer
         DEF MutexFree, TakeFromWriter
    <3>2. PICK d \in Holders : j = item[d]
      BY <3>1, ShortLists DEF Pending, InHand, Holders
    <3>3. d \in Items(writers)
      BY <1>0, <3>1, <3>2 DEF Holders, Resumed, On
    <3>. QED  BY <1>0, <1>o, <3>1, <3>2, <3>3, FirstIsLeast
  <2>11. Once'
    BY <1>s, <2>2, <2>5, <2>7, <2>8 DEF Once, Delivered
  <2>12. PoolStep
    BY <1>5, <2>2, <2>9, <2>10, PoolTakes DEF TakeFromWriter
  <2>. QED  BY <2>11, <2>12
<1>6. CASE pc[c] = "idle" /\ MutexFree /\ TakeFromBuffer(c)
  <2> DEFINE i == Head(buffer)
  <2>1. /\ pc' = pc
        /\ item' = [item EXCEPT ![c] = i]
        /\ buffer # <<>> /\ buffer' = Tail(buffer)
        /\ delivered' = Append(delivered, i)
        /\ UNCHANGED <<count, withdrawn, discarded>>
    BY <1>0, <1>6 DEF TakeFromBuffer, Return
  <2>2. Holders' = Holders /\ \A d \in Holders : item'[d] = item[d]
    BY <1>0, <1>6, <2>1 DEF Holders
  <2>3. InHand' = InHand /\ Injective(item, Holders)'
    BY <1>s, <2>2, SameHolders
  <2>4. i \in Nat /\ i \in B /\ i \notin Items(delivered)
    BY <1>0, <1>n, <2>1, HeadItem, HeadTailType DEF Delivered
  <2>5. /\ Items(buffer') = B \ {i} /\ NoRepeats(buffer')
        /\ Items(delivered') = D \cup {i} /\ NoRepeats(delivered')
    BY <1>0, <1>s, <2>1, <2>4, TailItems, AppendItems DEF Delivered
  <2>6. Split(D \cup {i}, B \ {i}, InHand, withdrawn, discarded, count)
    BY <1>s, <2>4, SplitMove
  <2>7. Pending' = Pending \ {i} /\ i \in Pending
    BY <1>n, <2>3, <2>4, <2>5 DEF Pending
  <2>8. Capacity # 0
    BY <1>0, <1>o, <2>1, EmptyBuffer
  <2>9. Once'
    BY <2>1, <2>3, <2>5, <2>6 DEF Once, Delivered
  <2>10. PoolStep
    BY <1>6, <2>1, <2>7, <2>8, PoolTakes DEF TakeFromBuffer
  <2>. QED  BY <2>9, <2>10
<1>7. CASE ReadFromWriter(c)
  <2> DEFINE w == Head(writers)
  <2>1. w \in On("parkedWriter")
    BY <1>0, <1>7, HeadItem DEF ReadFromWriter
  <2>2. /\ pc[c] = "pushReader"
        /\ pc' = [pc EXCEPT ![w] = "resumedWriter", ![c] = "resumedReader"]
        /\ item' = [item EXCEPT ![c] = item[w]]
        /\ UNCHANGED <<buffer, count, delivered, withdrawn, discarded>>
    BY <1>7 DEF ReadFromWriter
  <2>3. w \in Coroutine /\ w \in Holders /\ c \notin Holders /\ w # c
    BY <2>1, <2>2 DEF On, Holders
  <2>4. /\ Holders' = (Holders \ {w}) \cup {c}
        /\ \A d \in Holders : item'[d] = item[d]
        /\ item'[c] = item[w]
    BY <1>0, <2>1, <2>2, <2>3 DEF On, Holders
  <2>5. InHand' = InHand /\ Injective(item, Holders)'
    BY <1>s, <2>3, <2>4 DEF InHand, Holders, Injective
  <2>6. Pending' = Pending
    BY <2>2, <2>5 DEF Pending
  <2>7. Once'
    BY <1>s, <2>2, <2>5 DEF Once, Delivered
  <2>8. PoolStep
    BY <1>7, <2>2, <2>6, PoolRests DEF ReadFromWriter
  <2>. QED  BY <2>7, <2>8
<1>8. CASE ReadFromBuffer(c)
  <2> DEFINE i == Head(buffer)
  <2>1. /\ pc[c] = "pushReader"
        /\ pc' = [pc EXCEPT ![c] = "resumedReader"]
        /\ item' = [item EXCEPT ![c] = i]
        /\ buffer # <<>> /\ buffer' = Tail(buffer)
        /\ UNCHANGED <<count, delivered, withdrawn, discarded>>
    BY <1>8 DEF ReadFromBuffer
  <2>2. /\ c \notin Holders /\ Holders' = Holders \cup {c}
        /\ \A d \in Holders : item'[d] = item[d]
        /\ item'[c] = i
    BY <1>0, <2>1 DEF Holders
  <2>3. i \in B /\ i \notin InHand
    BY <1>0, <1>n, <2>1, HeadItem
  <2>4. InHand' = InHand \cup {i} /\ Injective(item, Holders)'
    BY <1>s, <2>2, <2>3, OneMoreHolder
  <2>5. Items(buffer') = B \ {i} /\ NoRepeats(buffer')
    BY <1>0, <1>s, <2>1, TailItems
  <2>6. Split(D, B \ {i}, InHand \cup {i}, withdrawn, discarded, count)
    BY <1>s, <2>3, SplitMove
  <2>7. Pending' = Pending
    BY <2>3, <2>4, <2>5 DEF Pending
  <2>8. Once'
    BY <1>s, <2>1, <2>4, <2>5, <2>6 DEF Once, Delivered
  <2>9. PoolStep
    BY <1>8, <2>1, <2>7, PoolRests DEF ReadFromBuffer
  <2>. QED  BY <2>8, <2>9
<1>9. CASE ResumeWriter(c)
  <2>1. /\ pc[c] = "resumedWriter" /\ pc' = [pc EXCEPT ![c] = "idle"]
        /\ item' = [item EXCEPT ![c] = item[c]]
        /\ UNCHANGED <<buffer, count, delivered, withdrawn, discarded>>
    BY <1>9 DEF ResumeWriter, Return
  <2>2. Holders' = Holders /\ \A d \in Holders : item'[d] = item[d]
    BY <1>0, <2>1 DEF Holders
  <2>3. Pending' = Pending
    BY <1>s, <2>1, <2>2, SameHolders DEF Pending
  <2>4. Once'
    BY <1>s, <2>1, <2>2, SameHolders DEF Once, Delivered
  <2>5. PoolStep
    BY <1>9, <2>1, <2>3, PoolRests DEF ResumeWriter
  <2>. QED  BY <2>4, <2>5
<1>10. CASE ResumeReader(c)
  <2>1. /\ pc[c] = "resumedReader" /\ pc' = [pc EXCEPT ![c] = "idle"]
        /\ item' = [item EXCEPT ![c] = item[c]]
        /\ UNCHANGED <<buffer, count, withdrawn>>
    BY <1>10 DEF ResumeReader, Return
  <2>2. /\ c \in Holders /\ Holders' = Holders \ {c}
        /\ \A d \in Holders \ {c} : item'[d] = item[d]
    BY <1>0, <2>1 DEF Holders
  <2>3. InHand' = InHand \ {item[c]} /\ Injective(item, Holders)'
    <3>1. {item[d] : d \in {c}} = {item[c]}
      OBVIOUS
    <3>. QED  BY <1>s, <2>2, <3>1, FewerHolders
  <2>4. item[c] \in InHand /\ item[c] \notin Items(delivered)
    BY <1>h, <1>n, <2>2 DEF Delivered
  <2>5. /\ Pending' = Pending \ {item[c]} /\ item[c] \in Pending
        /\ active' = active
    BY <1>10, <1>n, <2>1, <2>3, <2>4 DEF Pending, ResumeReader
  <2>6. CASE delivered' = Append(delivered, item[c]) /\ discarded' = discarded
    <3>1. Items(delivered') = D \cup {item[c]} /\ NoRepeats(delivered')
      BY <1>0, <1>s, <2>4, <2>6, AppendItems DEF Delivered
    <3>2. Split(D \cup {item[c]}, B, InHand \ {item[c]}, withdrawn, discarded,
                count)
      BY <1>s, <2>4, SplitMove
    <3>3. Once'
      BY <1>s, <2>1, <2>3, <2>6, <3>1, <3>2 DEF Once, Delivered
    <3>4. ASSUME Capacity = 0, NEW j \in Pending
          PROVE  item[c] <= j
      <4>1. buffer = <<>>
        BY <1>0, <1>o, <3>4, EmptyBuffer
      <4>2. PICK d \in Holders : j = item[d]
        BY <4>1, ShortLists DEF Pending, InHand, Holders
      <4>. QED  BY <1>0, <1>o, <2>1, <4>2 DEF Holders, On, ItemOrder
    <3>. QED  BY <2>1, <2>6, <2>5, <3>3, <3>4, PoolTakes
  <2>7. CASE /\ delivered' = delivered
             /\ discarded' = discarded \cup {item[c]}
             /\ ~active
    <3>1. Split(D, B, InHand \ {item[c]}, withdrawn,
                discarded \cup {item[c]}, count)
      BY <1>s, <2>4, SplitMove
    <3>2. Once'
      BY <1>s, <2>1, <2>3, <2>7, <3>1 DEF Once, Delivered
    <3>3. /\ {} \cup {item[c]} = {item[c]} /\ {} \cap {item[c]} = {}
          /\ withdrawn' = withdrawn \cup {}
      BY <2>1
    <3>4. PoolStep
      BY <2>1, <2>7, <2>5, <3>3, PoolRemoves
    <3>. QED  BY <3>2, <3>4
  <2>. QED  BY <1>10, <2>6, <2>7 DEF ResumeReader
<1>11. CASE Cleanup(c) \/ CancelAllAwaiters(c)
  <2> DEFINE W == {item[d] : d \in On("parkedWriter")}
  <2>1. /\ pc' = [d \in Coroutine |->
                    IF d \in Waiting \cup {c} THEN "idle" ELSE pc[d]]
        /\ pc[c] \in {"idle", "closing"}
        /\ withdrawn' = withdrawn \cup ItemsOf(writers)
        /\ UNCHANGED <<item, count, delivered>>
    BY <1>11 DEF Cleanup, CancelAllAwaiters, CanStart, CancelWaiters,
                 ResumeCancelled
  <2>2. Waiting = On("parkedWriter") \cup On("parkedReader")
    BY <1>0 DEF Waiting
  <2>3. ItemsOf(writers) = W
    <3>1. ItemsOf(writers) = {item[d] : d \in Items(writers)}
      BY DEF ItemsOf, Items
    <3>. QED  BY <1>0, <3>1
  <2>4. /\ On("parkedWriter") \subseteq Holders
        /\ Holders' = Holders \ On("parkedWriter")
    BY <2>1, <2>2 DEF Holders, On
  <2>5. InHand' = InHand \ W /\ Injective(item, Holders)'
    BY <1>s, <2>1, <2>4, FewerHolders
  <2>6. W \subseteq InHand
    BY <1>h, <2>4
  <2>7. Split(D, B, InHand \ W, withdrawn \cup W, discarded, count)
    BY <1>s, <2>6, SplitMove
  <2>8. active' = active
    BY <1>11 DEF Cleanup, CancelAllAwaiters
  <2>9. pc[c] = "closing" => ~active
    BY <1>o DEF ItemOrder, On
  <2>10. CASE buffer' = buffer /\ discarded' = discarded
    <3>1. Once'
      BY <1>s, <2>1, <2>3, <2>5, <2>7, <2>10 DEF Once, Delivered
    <3>2. Pending' = Pending \ (W \cup {}) /\ W \cup {} \subseteq Pending
      BY <1>n, <2>5, <2>6, <2>10 DEF Pending
    <3>3. PoolStep
      BY <2>1, <2>3, <2>10, <2>8, <3>2, PoolRemoves
    <3>. QED  BY <3>1, <3>3
  <2>11. CASE buffer' = <<>> /\ discarded' = discarded \cup B /\ ~active
    <3>1. Split(D, {}, InHand \ W, withdrawn \cup W, discarded \cup B, count)
      <4>1. Split(D, B \ B, InHand \ W, withdrawn \cup W,
                  discarded \cup B, count)
        BY <2>7, SplitMove
      <4>2. B \ B = {}
        OBVIOUS
      <4>. QED  BY <4>1, <4>2
    <3>2. Once'
      BY <1>s, <2>1, <2>3, <2>5, <2>11, <3>1, ShortLists DEF Once, Delivered
    <3>3. /\ Pending' = Pending \ (W \cup B)
          /\ W \cup B \subseteq Pending /\ W \cap B = {}
      BY <1>n, <2>5, <2>6, <2>11, ShortLists DEF Pending
    <3>4. PoolStep
      BY <2>1, <2>3, <2>11, <2>8, <3>3, PoolRemoves
    <3>. QED  BY <3>2, <3>4
  <2>. QED  BY <1>11, <2>10, <2>11, <2>9 DEF Cleanup, CancelAllAwaiters
<1>. QED  BY <1>1, <1>2, <1>3, <1>4, <1>5, <1>6, <1>7, <1>8, <1>9, <1>10,
             <1>11 DEF Effect

\* The order of the items is kept: what is new is last, what leaves is first.
LEMMA OrderEffect ==
    ASSUME WaitersInv, Once, ItemOrder, NEW c \in Coroutine, Effect(c)
    PROVE  ItemOrder'
<1>0. /\ pc \in [Coroutine -> Resting \cup Running]
      /\ item \in [Coroutine -> Nat]
      /\ count \in Nat
      /\ writers \in Seq(Coroutine) /\ readers \in Seq(Coroutine)
      /\ Items(writers) = On("parkedWriter")
      /\ Items(readers) = On("parkedReader")
      /\ Items(resuming) = Resumed
      /\ readers # <<>> => writers = <<>>
  BY DEF WaitersInv, EveryWaiterOnOneList, Inv, TypeOK, On, Resumed,
         NoMissedHandoff
<1>1. \A k \in 1 .. Len(writers) : writers[k] \in On("parkedWriter")
  BY <1>0 DEF Items
<1>2. \A d \in Holders : item[d] <= count
  BY <1>0 DEF Once, Split, InHand, Holders
<1>3. MutexFree => On("resumedReader") = {}
  BY <1>0, ShortLists DEF MutexFree, Resumed, On
<1>4. writers = <<>> => On("parkedWriter") = {}
  BY <1>0, ShortLists
<1>5. CASE Aside(c) \/ ParkReader(c)
  <2>1. /\ On("resumedReader")' = On("resumedReader")
        /\ On("parkedWriter")' = On("parkedWriter")
        /\ writers' = writers /\ c \notin On("resumedReader")
        /\ c \notin On("parkedWriter")
        /\ \A d \in Coroutine : d # c => item'[d] = item[d]
    BY <1>0, <1>5 DEF Aside, ParkReader, Outside, Sending, On
  <2>2. \A d \in On("closing")' : ~active'
    BY <1>0, <1>5 DEF Aside, ParkReader, On, ItemOrder
  <2>. QED  BY <1>1, <2>1, <2>2 DEF ItemOrder, On
<1>6. ASSUME pc[c] \in Sending, MutexFree, NEW to \in {"idle", "resumedWriter"},
             HandToReader(c, to)
      PROVE  ItemOrder'
  <2> DEFINE r == Head(readers)
  <2>1. r \in On("parkedReader") /\ writers = <<>>
    BY <1>0, <1>6, HeadItem DEF HandToReader
  <2>2. /\ pc' = [pc EXCEPT ![r] = "resumedReader", ![c] = to]
        /\ writers' = writers /\ active' = active
    BY <1>6 DEF HandToReader
  <2>3. /\ On("resumedReader")' = {r} /\ On("parkedWriter")' = {}
        /\ On("closing")' = On("closing")
    BY <1>0, <1>3, <1>4, <1>6, <2>1, <2>2 DEF On, Sending
  <2>. QED  BY <2>1, <2>2, <2>3 DEF ItemOrder
<1>7. ASSUME pc[c] \in Sending, MutexFree, NEW to \in {"idle", "resumedWriter"},
             PutInBuffer(c, to)
      PROVE  ItemOrder'
  <2>1. /\ pc' = [pc EXCEPT ![c] = to]
        /\ item' = [item EXCEPT ![c] = count + 1]
        /\ writers' = writers /\ active' = active
    BY <1>7 DEF PutInBuffer
  <2>2. /\ On("resumedReader")' = {} /\ On("parkedWriter")' = On("parkedWriter")
        /\ On("closing")' = On("closing") /\ c \notin On("parkedWriter")
    BY <1>0, <1>3, <1>7, <2>1 DEF On, Sending
  <2>. QED  BY <1>0, <1>1, <2>1, <2>2 DEF ItemOrder, On
<1>8. CASE ParkWriter(c)
  <2>1. /\ pc[c] = "pushWriter"
        /\ pc' = [pc EXCEPT ![c] = "parkedWriter"]
        /\ item' = [item EXCEPT ![c] = count + 1]
        /\ writers' = Append(writers, c) /\ active' = active
    BY <1>8 DEF ParkWriter
  <2>2. /\ On("resumedReader")' = On("resumedReader")
        /\ On("parkedWriter")' = On("parkedWriter") \cup {c}
        /\ On("closing")' = On("closing")
        /\ c \notin On("parkedWriter") /\ c \notin On("resumedReader")
    BY <1>0, <2>1 DEF On
  <2>3. /\ Len(writers') = Len(writers) + 1 /\ Len(writers) \in Nat
        /\ writers'[Len(writers) + 1] = c
        /\ \A k \in 1 .. Len(writers) : writers'[k] = writers[k]
    BY <1>0, <2>1
  <2>4. \A d \in On("parkedWriter") \cup On("resumedReader") :
           item'[d] = item[d] /\ item[d] < item'[c]
    BY <1>0, <1>2, <2>1, <2>2 DEF On, Holders
  <2>5. \A j, k \in 1 .. Len(writers') :
           j < k => item'[writers'[j]] < item'[writers'[k]]
    <3> SUFFICES ASSUME NEW j \in 1 .. Len(writers'),
                        NEW k \in 1 .. Len(writers'),
                        j < k
                 PROVE  item'[writers'[j]] < item'[writers'[k]]
      OBVIOUS
    <3>1. j \in 1 .. Len(writers) /\ writers'[j] \in On("parkedWriter")
      BY <1>1, <2>3
    <3>2. CASE k = Len(writers) + 1
      BY <2>3, <2>4, <3>1, <3>2
    <3>3. CASE k \in 1 .. Len(writers)
      BY <1>1, <2>3, <2>4, <3>1, <3>3 DEF ItemOrder
    <3>. QED  BY <2>3, <3>2, <3>3
  <2>. QED  BY <2>1, <2>2, <2>4, <2>5 DEF ItemOrder
<1>9. CASE \/ pc[c] = "idle" /\ MutexFree /\ TakeFromWriter(c)
           \/ ReadFromWriter(c)
  <2> DEFINE w == Head(writers)
  <2>1. w \in On("parkedWriter") /\ writers # <<>>
    BY <1>0, <1>9, HeadItem DEF TakeFromWriter, ReadFromWriter
  <2>2. /\ pc[c] \in {"idle", "pushReader"}
        /\ pc' = [pc EXCEPT ![w] = "resumedWriter", ![c] = pc'[c]]
        /\ pc'[c] \in {"idle", "resumedReader"}
        /\ item' = [item EXCEPT ![c] = item[w]]
        /\ writers' = Tail(writers) /\ active' = active
        /\ On("resumedReader") = {}
    BY <1>0, <1>3, <1>9, <2>1 DEF TakeFromWriter, ReadFromWriter, On
  <2>3. w \in Coroutine /\ w # c /\ c \notin On("parkedWriter")
    BY <2>1, <2>2 DEF On
  <2>4. /\ On("resumedReader")' \subseteq {c}
        /\ On("parkedWriter")' = On("parkedWriter") \ {w}
        /\ On("closing")' = On("closing")
    BY <1>0, <2>1, <2>2, <2>3 DEF On
  <2>5. /\ Len(writers) \in Nat \ {0} /\ Len(writers') = Len(writers) - 1
        /\ writers[1] = w
        /\ \A k \in 1 .. Len(writers') : writers'[k] = writers[k + 1]
    BY <1>0, <2>1, <2>2
  <2>6. /\ \A d \in On("parkedWriter") : item'[d] = item[d]
        /\ item'[c] = item[w]
    BY <1>0, <2>2, <2>3 DEF On
  <2>7. \A j, k \in 1 .. Len(writers') :
           j < k => item'[writers'[j]] < item'[writers'[k]]
    BY <1>1, <2>5, <2>6 DEF ItemOrder
  <2>8. \A d \in On("parkedWriter") \ {w} : item[w] < item[d]
    <3> SUFFICES ASSUME NEW d \in On("parkedWriter") \ {w}
                 PROVE  item[w] < item[d]
      OBVIOUS
    <3>1. PICK k \in 1 .. Len(writers) : d = writers[k]
      BY <1>0 DEF Items
    <3>2. 1 < k
      BY <2>5, <3>1
    <3>. QED  BY <2>5, <3>1, <3>2 DEF ItemOrder
  <2>9. /\ \A d, e \in On("resumedReader")' : d = e
        /\ \A d \in On("resumedReader")', e \in On("parkedWriter")' :
              item'[d] < item'[e]
    BY <2>4, <2>6, <2>8
  <2>. QED  BY <2>2, <2>4, <2>7, <2>9 DEF ItemOrder
<1>10. CASE pc[c] = "idle" /\ MutexFree /\ TakeFromBuffer(c)
  <2>1. /\ pc' = pc /\ writers' = writers /\ active' = active
        /\ \A d \in Coroutine : d # c => item'[d] = item[d]
    BY <1>0, <1>10 DEF TakeFromBuffer, Return
  <2>2. /\ On("resumedReader")' = {} /\ c \notin On("parkedWriter")
        /\ On("parkedWriter")' = On("parkedWriter")
        /\ On("closing")' = On("closing")
    BY <1>3, <1>10, <2>1 DEF On
  <2>3. \A d \in On("parkedWriter") : item'[d] = item[d]
    BY <2>1, <2>2 DEF On
  <2>. QED  BY <1>1, <2>1, <2>2, <2>3 DEF ItemOrder
<1>11. CASE ReadFromBuffer(c)
  <2>1. /\ On("resumedReader")' = {c} /\ On("parkedWriter")' = {}
        /\ On("closing")' = On("closing") /\ active' = active
        /\ writers' = <<>>
    BY <1>0, <1>3, <1>4, <1>11 DEF ReadFromBuffer, On
  <2>. QED  BY <2>1 DEF ItemOrder
<1>12. CASE ResumeWriter(c) \/ ResumeReader(c)
  <2>1. /\ On("resumedReader")' \subseteq On("resumedReader")
        /\ On("parkedWriter")' = On("parkedWriter")
        /\ On("closing")' = On("closing") /\ active' = active
        /\ writers' = writers /\ item' = item
    BY <1>0, <1>12 DEF ResumeWriter, ResumeReader, Return, On
  <2>. QED  BY <2>1 DEF ItemOrder
<1>13. CASE Cleanup(c) \/ CancelAllAwaiters(c)
  <2>1. /\ writers' = <<>> /\ active' = active /\ item' = item
        /\ pc' = [d \in Coroutine |->
                    IF d \in Waiting \cup {c} THEN "idle" ELSE pc[d]]
    BY <1>13 DEF Cleanup, CancelAllAwaiters, CancelWaiters, ResumeCancelled
  <2>2. /\ On("resumedReader")' \subseteq On("resumedReader")
        /\ On("parkedWriter")' = {}
        /\ On("closing")' \subseteq On("closing")
    BY <1>0, <2>1 DEF On, Waiting
  <2>. QED  BY <2>1, <2>2 DEF ItemOrder
<1>. QED  BY <1>5, <1>6, <1>7, <1>8, <1>9, <1>10, <1>11, <1>12, <1>13
          DEF Effect

ItemsInv == WaitersInv /\ EveryItemOnce /\ ItemOrder

LEMMA NextItems ==
    ItemsInv /\ [Next]_vars => ItemsInv' /\ PoolStep
<1> SUFFICES ASSUME ItemsInv, [Next]_vars
             PROVE  EveryItemOnce' /\ ItemOrder' /\ PoolStep
  BY NextWaitersInv DEF ItemsInv
<1>1. Once
  BY OnceIsEveryItemOnce DEF ItemsInv
<1>2. CASE UNCHANGED vars
  <2>1. Once'
    BY <1>1, <1>2 DEF vars, Once, Delivered, InHand, Holders, Injective
  <2>2. ItemOrder' /\ PoolStep
    BY <1>2 DEF vars, ItemsInv, ItemOrder, On, PoolStep, Pool!poolVars, InHand
  <2>. QED  BY <2>1, <2>2, OnceIsEveryItemOnce
<1>3. CASE Next
  <2>1. PICK c \in Coroutine : Effect(c)
    BY <1>3, StartEffect, StepEffect DEF Next
  <2>. QED  BY <1>1, <2>1, OnceEffect, OrderEffect, OnceIsEveryItemOnce
            DEF ItemsInv
<1>. QED  BY <1>2, <1>3

LEMMA InitItems == Init => ItemsInv /\ Pool!PoolInit
<1> SUFFICES ASSUME Init PROVE EveryItemOnce /\ ItemOrder /\ Pool!PoolInit
  BY InitWaitersInv DEF ItemsInv
<1>1. InHand = {} /\ Delivered = {} /\ Items(buffer) = {}
  BY ShortLists DEF Init, InHand, Delivered
<1>2. EveryItemOnce
  BY <1>1, ShortLists DEF Init, EveryItemOnce, Places
<1>3. ItemOrder /\ Pool!PoolInit
  BY <1>1 DEF Init, ItemOrder, On, Pool!PoolInit
<1>. QED  BY <1>2, <1>3

\* No item is lost, copied or delivered twice by the hand-overs between the
\* lists, the buffer and the awaiters.
THEOREM ItemsOnce == Spec => []EveryItemOnce
<1>1. ItemsInv => EveryItemOnce  BY DEF ItemsInv
<1>. QED  BY <1>1, InitItems, NextItems, PTL DEF Spec

\* The channel implements the pool of items: every critical section takes,
\* accepts, removes or only moves items.
THEOREM ChannelIsPool == Spec => ImplementsPool
<1>1. PoolStep => [Pool!PoolNext]_Pool!poolVars
  BY DEF PoolStep
<1>. QED  BY <1>1, InitItems, NextItems, PTL
          DEF Spec, ImplementsPool, Pool!PoolSpec

-----------------------------------------------------------------------------
\* Rendezvous.

\* Without a buffer, on an open channel: the item of a sender that was told
\* that it is sent, or will be, has been received or is about to be.
Met(c) == item[c] \in Delivered \cup {item[d] : d \in On("resumedReader")}

Rendezvous ==
    Capacity = 0 /\ active =>
        \A c \in Coroutine :
            \/ pc[c] = "idle" /\ result[c] = "sent"
            \/ pc[c] = "resumedWriter"
            => Met(c)

\* Items on their way to a receiver stay there or are delivered.
LEMMA MetStays ==
    ASSUME NEW c \in Coroutine, Met(c), item'[c] = item[c],
           Delivered \subseteq Delivered',
           \A d \in On("resumedReader") :
              item[d] \in Delivered' \/ (d \in On("resumedReader")'
                                         /\ item'[d] = item[d])
    PROVE  Met(c)'
  BY DEF Met

LEMMA RendezvousEffect ==
    ASSUME WaitersInv, ItemOrder, Rendezvous, NEW c \in Coroutine, Effect(c)
    PROVE  Rendezvous'
<1> SUFFICES ASSUME Capacity = 0, active'
             PROVE  \A d \in Coroutine :
                      \/ pc'[d] = "idle" /\ result'[d] = "sent"
                      \/ pc'[d] = "resumedWriter"
                      => Met(d)'
  BY DEF Rendezvous
<1>0. /\ pc \in [Coroutine -> Resting \cup Running]
      /\ item \in [Coroutine -> Nat] /\ result \in [Coroutine -> Result]
      /\ delivered \in Seq(Nat) /\ buffer = <<>>
      /\ writers \in Seq(Coroutine) /\ readers \in Seq(Coroutine)
      /\ Items(writers) = On("parkedWriter")
      /\ Items(readers) = On("parkedReader")
      /\ Items(resuming) = Resumed
  BY EmptyBuffer DEF WaitersInv, EveryWaiterOnOneList, Inv, TypeOK, On, Resumed
<1>1. active
  BY DEF Effect, Quiet, SendStart, SendSyncStart, CloseStart, RecvActive,
         HandToReader, PutInBuffer, ParkWriter, ParkReader, TakeFromWriter,
         TakeFromBuffer, ReadFromWriter, ReadFromBuffer, ResumeWriter,
         ResumeReader, Cleanup, CancelAllAwaiters
<1>2. \A d \in Coroutine :
         (pc[d] = "idle" /\ result[d] = "sent") \/ pc[d] = "resumedWriter"
         => Met(d)
  BY <1>1 DEF Rendezvous
<1>3. MutexFree => Resumed = {}
  BY <1>0, ShortLists DEF MutexFree
<1>4. CASE Quiet(c) /\ Aside(c)
  <2>1. /\ \A d \in Coroutine : d # c => /\ pc'[d] = pc[d]
                                         /\ item'[d] = item[d]
                                         /\ result'[d] = result[d]
        /\ On("resumedReader")' = On("resumedReader")
        /\ c \notin On("resumedReader") /\ delivered' = delivered
        /\ pc'[c] # "resumedWriter"
    BY <1>0, <1>4 DEF Quiet, Aside, Outside, Sending, On, SendStart,
                      SendSyncStart, CloseStart, RecvActive, Return
  <2>2. ~(pc'[c] = "idle" /\ result'[c] = "sent")
    BY <1>0, <1>1, <1>4 DEF Quiet, SendStart, SendSyncStart, CloseStart,
                            RecvActive, Return
  <2>. QED  BY <1>2, <2>1, <2>2, MetStays DEF On, Delivered
<1>5. ASSUME pc[c] \in Sending, MutexFree, NEW to \in {"idle", "resumedWriter"},
             HandToReader(c, to), NEW d \in Coroutine,
             \/ pc'[d] = "idle" /\ result'[d] = "sent"
             \/ pc'[d] = "resumedWriter"
      PROVE  Met(d)'
  <2> DEFINE r == Head(readers)
  <2>1. r \in On("parkedReader") /\ On("resumedReader") = {}
    BY <1>0, <1>3, <1>5, HeadItem DEF HandToReader, On, Resumed
  <2>2. /\ pc' = [pc EXCEPT ![r] = "resumedReader", ![c] = to]
        /\ item' = [item EXCEPT ![r] = count + 1, ![c] = count + 1]
        /\ delivered' = delivered
        /\ \A e \in Coroutine : e # c => result'[e] = result[e]
    BY <1>0, <1>5 DEF HandToReader
  <2>3. r # c /\ r \in Coroutine
    BY <1>5, <2>1 DEF On, Sending
  <2>4. r \in On("resumedReader")' /\ item'[r] = item'[c]
    BY <1>0, <2>2, <2>3 DEF On
  <2>5. CASE d = c
    BY <2>4, <2>5 DEF Met
  <2>6. CASE d # c
    <3>1. /\ d # r /\ pc'[d] = pc[d]
          /\ item'[d] = item[d] /\ result'[d] = result[d]
      BY <1>0, <1>5, <2>2, <2>3, <2>6
    <3>. QED  BY <1>2, <1>5, <2>1, <2>2, <3>1, MetStays DEF Delivered
  <2>. QED  BY <2>5, <2>6
<1>6. ASSUME NEW to \in {"idle", "resumedWriter"}, PutInBuffer(c, to)
      PROVE  FALSE
  BY <1>0, <1>6 DEF PutInBuffer, Room
<1>7. CASE ParkWriter(c) \/ ParkReader(c)
  <2>1. /\ pc[c] \in {"pushWriter", "pushReader"}
        /\ pc'[c] \in {"parkedWriter", "parkedReader"}
        /\ \A d \in Coroutine : d # c => /\ pc'[d] = pc[d]
                                         /\ item'[d] = item[d]
        /\ result' = result /\ delivered' = delivered
    BY <1>0, <1>7 DEF ParkWriter, ParkReader
  <2>2. /\ On("resumedReader")' = On("resumedReader")
        /\ c \notin On("resumedReader")
    BY <1>0, <2>1 DEF On
  <2>. QED  BY <1>2, <2>1, <2>2, MetStays DEF On, Delivered
<1>8. CASE pc[c] = "idle" /\ MutexFree /\ TakeFromWriter(c)
  <2> DEFINE w == Head(writers)
  <2>1. w \in On("parkedWriter") /\ On("resumedReader") = {}
    BY <1>0, <1>3, <1>8, HeadItem DEF TakeFromWriter, On, Resumed
  <2>2. /\ pc' = [pc EXCEPT ![w] = "resumedWriter", ![c] = "idle"]
        /\ item' = [item EXCEPT ![c] = item[w]]
        /\ result' = [result EXCEPT ![c] = "received"]
        /\ delivered' = Append(delivered, item[w])
    BY <1>8 DEF TakeFromWriter
  <2>3. w \in Coroutine /\ w # c
    BY <1>8, <2>1 DEF On
  <2>4. Delivered' = Delivered \cup {item[w]}
    <3>1. item[w] \in Nat
      BY <1>0, <2>3
    <3>2. Items(Append(delivered, item[w])) = Items(delivered) \cup {item[w]}
      BY <1>0, <3>1, AppendItems
    <3>. QED  BY <2>2, <3>2 DEF Delivered
  <2> SUFFICES ASSUME NEW d \in Coroutine,
                      \/ pc'[d] = "idle" /\ result'[d] = "sent"
                      \/ pc'[d] = "resumedWriter"
               PROVE  Met(d)'
    OBVIOUS
  <2>5. d # c
    BY <1>0, <2>2, <2>3
  <2>6. item'[d] = item[d] /\ result'[d] = result[d]
    BY <1>0, <2>2, <2>5
  <2>7. CASE d = w
    BY <2>4, <2>6, <2>7 DEF Met
  <2>8. CASE d # w
    <3>1. pc'[d] = pc[d]
      BY <1>0, <2>2, <2>5, <2>8
    <3>. QED  BY <1>2, <2>1, <2>4, <2>6, <3>1, MetStays
  <2>. QED  BY <2>7, <2>8
<1>9. CASE TakeFromBuffer(c) \/ ReadFromBuffer(c)
  BY <1>0, <1>9 DEF TakeFromBuffer, ReadFromBuffer
<1>10. CASE ReadFromWriter(c)
  <2> DEFINE w == Head(writers)
  <2>1. w \in On("parkedWriter") /\ On("resumedReader") = {}
    BY <1>0, <1>3, <1>10, HeadItem DEF ReadFromWriter, On, Resumed
  <2>2. /\ pc[c] = "pushReader"
        /\ pc' = [pc EXCEPT ![w] = "resumedWriter", ![c] = "resumedReader"]
        /\ item' = [item EXCEPT ![c] = item[w]]
        /\ result' = result /\ delivered' = delivered
    BY <1>10 DEF ReadFromWriter
  <2>3. w \in Coroutine /\ w # c
    BY <2>1, <2>2 DEF On
  <2>4. c \in On("resumedReader")' /\ item'[c] = item[w] /\ item'[w] = item[w]
    BY <1>0, <2>2, <2>3 DEF On
  <2> SUFFICES ASSUME NEW d \in Coroutine,
                      \/ pc'[d] = "idle" /\ result'[d] = "sent"
                      \/ pc'[d] = "resumedWriter"
               PROVE  Met(d)'
    OBVIOUS
  <2>5. d # c
    BY <1>0, <2>2
  <2>6. CASE d = w
    BY <2>4, <2>6 DEF Met
  <2>7. CASE d # w
    <3>1. pc'[d] = pc[d] /\ item'[d] = item[d]
      BY <1>0, <2>2, <2>5, <2>7
    <3>. QED  BY <1>2, <2>1, <2>2, <3>1, MetStays DEF Delivered
  <2>. QED  BY <2>6, <2>7
<1>11. CASE ResumeWriter(c)
  <2>1. /\ pc[c] = "resumedWriter" /\ pc' = [pc EXCEPT ![c] = "idle"]
        /\ item' = item /\ delivered' = delivered
        /\ \A d \in Coroutine : d # c => result'[d] = result[d]
    BY <1>0, <1>11 DEF ResumeWriter, Return
  <2>2. On("resumedReader")' = On("resumedReader")
    BY <1>0, <2>1 DEF On
  <2>3. \A d \in Coroutine : Met(d) => Met(d)'
    BY <2>1, <2>2 DEF Met, Delivered
  <2>. QED  BY <1>0, <1>2, <2>1, <2>3
<1>12. CASE ResumeReader(c)
  <2>1. /\ pc[c] = "resumedReader" /\ pc' = [pc EXCEPT ![c] = "idle"]
        /\ item' = item /\ result' = [result EXCEPT ![c] = "received"]
        /\ delivered' = Append(delivered, item[c])
    BY <1>0, <1>1, <1>12 DEF ResumeReader, Return
  <2>2. Delivered' = Delivered \cup {item[c]}
    BY <1>0, <2>1, AppendItems DEF Delivered
  <2>3. \A d \in On("resumedReader") : d # c => d \in On("resumedReader")'
    BY <1>0, <2>1 DEF On
  <2>4. \A d \in Coroutine : Met(d) => Met(d)'
    BY <2>1, <2>2, <2>3 DEF Met
  <2>. QED  BY <1>0, <1>2, <2>1, <2>4
<1>13. CASE Cleanup(c) \/ CancelAllAwaiters(c)
  <2>1. /\ item' = item /\ delivered' = delivered
        /\ pc' = [d \in Coroutine |->
                    IF d \in Waiting \cup {c} THEN "idle" ELSE pc[d]]
        /\ result' = [d \in Coroutine |->
                        IF d \in Waiting THEN "cancelled" ELSE result[d]]
    BY <1>13 DEF Cleanup, CancelAllAwaiters, CancelWaiters, ResumeCancelled
  <2>2. pc[c] = "idle"
    BY <1>1, <1>13 DEF Cleanup, CancelAllAwaiters, CanStart, ItemOrder, On
  <2>3. On("resumedReader")' = On("resumedReader")
    BY <1>0, <2>1, <2>2 DEF On, Waiting
  <2>4. \A d \in Coroutine : Met(d) => Met(d)'
    BY <2>1, <2>3 DEF Met, Delivered
  <2>. QED  BY <1>0, <1>2, <2>1, <2>2, <2>4
<1>. QED  BY <1>4, <1>5, <1>6, <1>7, <1>8, <1>9, <1>10, <1>11, <1>12, <1>13
          DEF Effect

RendezvousInv == ItemsInv /\ Rendezvous

LEMMA NextRendezvous == RendezvousInv /\ [Next]_vars => RendezvousInv'
<1> SUFFICES ASSUME RendezvousInv, [Next]_vars PROVE Rendezvous'
  BY NextItems DEF RendezvousInv
<1>1. CASE UNCHANGED vars
  BY <1>1 DEF vars, RendezvousInv, Rendezvous, Met, Delivered, On
<1>2. CASE Next
  <2>1. PICK c \in Coroutine : Effect(c)
    BY <1>2, StartEffect, StepEffect DEF Next
  <2>. QED  BY <2>1, RendezvousEffect DEF RendezvousInv, ItemsInv
<1>. QED  BY <1>1, <1>2

\* Without a buffer a send() that returns normally has met its receiver: the
\* item was returned, or is in the hands of a receiver that is being resumed.
THEOREM SendMet == Spec => []SendMeetsReceiver
<1>1. Init => RendezvousInv
  BY InitItems DEF Init, RendezvousInv, Rendezvous
<1>2. RendezvousInv => SendMeetsReceiver
  BY DEF RendezvousInv, Rendezvous, SendMeetsReceiver, Met, InHand, On
<1>. QED  BY <1>1, <1>2, NextRendezvous, PTL DEF Spec

-----------------------------------------------------------------------------
\* Senders that got an exception, when all loops run on one thread.

OneThread == \A s, t \in Thread : s = t

\* The calls that go on only while the channel is open: on one thread nothing
\* comes between their test of isActive_ and their last step.
Open == Sending \cup {"pushReader", "resumedWriter", "resumedReader"}

\* A receiver holds no item before it is resumed.
Empty == {"recvActive", "pushReader", "parkedReader"}

Alone ==
    /\ \A c \in Coroutine : pc[c] \in Open => active
    /\ \A c, d \in Coroutine :
          pc[c] = "closing" /\ d # c => pc[d] \in Resting
    /\ writers # <<>> => active \/ \E c \in Coroutine : pc[c] = "closing"
    /\ \A c \in Coroutine : pc[c] \in Empty => item[c] = NoItem

\* What an exception left with its caller: nothing, or an item taken back.
Failed ==
    \A c \in Coroutine :
        pc[c] \in {"idle", "closing"} /\ result[c] \in {"closed", "cancelled"}
        => item[c] = NoItem \/ item[c] \in withdrawn

\* A call in progress leaves no other call of the thread in "closing".
LEMMA NobodyCloses ==
    ASSUME OneThread, Inv, Alone, NEW c \in Coroutine,
           CanStart(c) \/ pc[c] \in Open \cup {"recvActive"}
    PROVE  /\ \A d \in Coroutine : pc[d] # "closing"
           /\ writers # <<>> => active
<1>1. CanStart(c) => \A d \in Coroutine : pc[d] \in Resting
  BY DEF CanStart, OneThread, Inv, TypeOK
<1>2. \A d \in Coroutine : pc[d] # "closing"
  BY <1>1 DEF Alone, Resting, Open, Sending
<1>. QED  BY <1>2 DEF Alone

LEMMA AloneEffect ==
    ASSUME OneThread, WaitersInv, Alone, NEW c \in Coroutine, Effect(c)
    PROVE  Alone'
<1>0. /\ pc \in [Coroutine -> Resting \cup Running]
      /\ item \in [Coroutine -> Nat]
      /\ writers \in Seq(Coroutine) /\ readers \in Seq(Coroutine)
      /\ Items(writers) = On("parkedWriter")
      /\ Items(readers) = On("parkedReader")
      /\ Inv
  BY DEF WaitersInv, EveryWaiterOnOneList, Inv, TypeOK, On
<1>a. CanStart(c) => \A d \in Coroutine : pc[d] \in Resting
  BY DEF CanStart, OneThread, WaitersInv, Inv, TypeOK
<1>b. CanStart(c) \/ pc[c] \in Open \cup {"recvActive"} =>
         /\ \A d \in Coroutine : pc[d] # "closing"
         /\ writers # <<>> => active
  BY <1>0, NobodyCloses
<1>c. pc[c] \in Open => active
  BY DEF Alone
<1> USE DEF Open, Empty, Resting, Sending
<1>1. CASE Quiet(c) /\ Aside(c)
  <2>1. CASE CloseStart(c)
    BY <1>0, <1>a, <1>b, <2>1 DEF CloseStart, Alone
  <2>2. CASE ~CloseStart(c)
    <3>1. /\ CanStart(c) \/ pc[c] \in Open \cup {"recvActive"}
          /\ active' = active /\ writers' = writers
          /\ \A d \in Coroutine : d # c => pc'[d] = pc[d] /\ item'[d] = item[d]
          /\ pc'[c] \in Outside \ {"closing"}
          /\ pc'[c] \in Open => active
          /\ pc'[c] \in Empty => item'[c] = NoItem
      BY <1>0, <1>1, <1>c, <2>2
         DEF Quiet, Aside, Outside, SendStart, SendSyncStart, RecvActive,
             Return, CanStart, Alone
    <3>. QED  BY <1>0, <1>b, <3>1 DEF Alone
  <2>. QED  BY <2>1, <2>2
<1>2. ASSUME pc[c] \in Sending, NEW to \in {"idle", "resumedWriter"},
             HandToReader(c, to)
      PROVE  Alone'
  <2> DEFINE r == Head(readers)
  <2>1. r \in On("parkedReader")
    BY <1>0, <1>2, HeadItem DEF HandToReader
  <2>2. /\ pc' = [pc EXCEPT ![r] = "resumedReader", ![c] = to]
        /\ item' = [item EXCEPT ![r] = count + 1, ![c] = count + 1]
        /\ active' = active /\ writers' = writers
    BY <1>2 DEF HandToReader
  <2>. QED  BY <1>0, <1>2, <1>b, <1>c, <2>1, <2>2 DEF Alone, On
<1>3. ASSUME pc[c] \in Sending, NEW to \in {"idle", "resumedWriter"},
             PutInBuffer(c, to)
      PROVE  Alone'
  BY <1>0, <1>3, <1>b, <1>c DEF PutInBuffer, Alone
<1>4. CASE ParkWriter(c) \/ ParkReader(c)
  BY <1>0, <1>4, <1>b, <1>c DEF ParkWriter, ParkReader, Alone
<1>5. CASE CanStart(c) /\ TakeFromWriter(c)
  <2> DEFINE w == Head(writers)
  <2>1. w \in On("parkedWriter") /\ active
    BY <1>0, <1>5, <1>b, HeadItem DEF TakeFromWriter
  <2>2. /\ pc' = [pc EXCEPT ![w] = "resumedWriter", ![c] = "idle"]
        /\ item' = [item EXCEPT ![c] = item[w]]
        /\ active' = active
    BY <1>5 DEF TakeFromWriter
  <2>. QED  BY <1>0, <1>5, <1>b, <2>1, <2>2 DEF Alone, On
<1>6. CASE CanStart(c) /\ TakeFromBuffer(c)
  BY <1>0, <1>6, <1>b DEF TakeFromBuffer, Return, Alone
<1>7. CASE ReadFromWriter(c)
  <2> DEFINE w == Head(writers)
  <2>1. w \in On("parkedWriter")
    BY <1>0, <1>7, HeadItem DEF ReadFromWriter
  <2>2. /\ pc[c] = "pushReader"
        /\ pc' = [pc EXCEPT ![w] = "resumedWriter", ![c] = "resumedReader"]
        /\ item' = [item EXCEPT ![c] = item[w]]
        /\ active' = active
    BY <1>7 DEF ReadFromWriter
  <2>. QED  BY <1>0, <1>b, <1>c, <2>1, <2>2 DEF Alone, On
<1>8. CASE ReadFromBuffer(c)
  BY <1>0, <1>8, <1>b, <1>c DEF ReadFromBuffer, Alone
<1>9. CASE ResumeWriter(c) \/ ResumeReader(c)
  BY <1>0, <1>9, <1>b, <1>c DEF ResumeWriter, ResumeReader, Return, Alone
<1>10. CASE Cleanup(c) \/ CancelAllAwaiters(c)
  <2>1. /\ pc[c] \in {"closing", "idle"} /\ writers' = <<>> /\ item' = item
        /\ active' = active
        /\ \A d \in Coroutine :
              pc'[d] = IF d \in Waiting \cup {c} THEN "idle" ELSE pc[d]
        /\ \A d \in Coroutine \ {c} : pc[d] \in Resting
    BY <1>0, <1>10, <1>a
       DEF Cleanup, CancelAllAwaiters, CancelWaiters, ResumeCancelled, CanStart,
           Alone
  <2>. QED  BY <1>0, <2>1 DEF Alone
<1>. QED  BY <1>1, <1>2, <1>3, <1>4, <1>5, <1>6, <1>7, <1>8, <1>9, <1>10
          DEF Effect

LEMMA FailedEffect ==
    ASSUME WaitersInv, Alone, Failed, NEW c \in Coroutine, Effect(c)
    PROVE  Failed'
<1>0. /\ pc \in [Coroutine -> Resting \cup Running]
      /\ item \in [Coroutine -> Nat] /\ result \in [Coroutine -> Result]
      /\ writers \in Seq(Coroutine) /\ readers \in Seq(Coroutine)
      /\ Items(writers) = On("parkedWriter")
      /\ Items(readers) = On("parkedReader")
  BY DEF WaitersInv, EveryWaiterOnOneList, Inv, TypeOK, On
<1> USE DEF Open, Empty, Resting, Sending
<1> DEFINE Lost(d) == result[d] \in {"closed", "cancelled"}
<1>1. CASE Quiet(c) /\ Aside(c)
  <2>1. /\ \A d \in Coroutine : d # c => /\ pc'[d] = pc[d]
                                         /\ item'[d] = item[d]
                                         /\ result'[d] = result[d]
        /\ withdrawn' = withdrawn
        /\ pc'[c] = "closing" => /\ pc[c] = "idle"
                                 /\ item'[c] = item[c]
                                 /\ result'[c] = result[c]
        /\ pc'[c] = "idle" => item'[c] = NoItem
    BY <1>0, <1>1 DEF Quiet, Aside, SendStart, SendSyncStart, CloseStart,
                      RecvActive, Return, CanStart
  <2>. QED  BY <2>1 DEF Failed
<1>2. ASSUME pc[c] \in Sending, NEW to \in {"idle", "resumedWriter"},
             HandToReader(c, to)
      PROVE  Failed'
  <2> DEFINE r == Head(readers)
  <2>1. r \in On("parkedReader")
    BY <1>0, <1>2, HeadItem DEF HandToReader
  <2>2. /\ pc' = [pc EXCEPT ![r] = "resumedReader", ![c] = to]
        /\ item' = [item EXCEPT ![r] = count + 1, ![c] = count + 1]
        /\ result' = IF to = "idle" THEN [result EXCEPT ![c] = "sent"]
                                    ELSE result
        /\ withdrawn' = withdrawn
    BY <1>2 DEF HandToReader
  <2>. QED  BY <1>0, <1>2, <2>1, <2>2 DEF Failed, On
<1>3. ASSUME pc[c] \in Sending, NEW to \in {"idle", "resumedWriter"},
             PutInBuffer(c, to)
      PROVE  Failed'
  BY <1>0, <1>3 DEF PutInBuffer, Failed
<1>4. CASE ParkWriter(c) \/ ParkReader(c)
  BY <1>0, <1>4 DEF ParkWriter, ParkReader, Failed
<1>5. CASE TakeFromWriter(c)
  <2> DEFINE w == Head(writers)
  <2>1. w \in On("parkedWriter")
    BY <1>0, <1>5, HeadItem DEF TakeFromWriter
  <2>2. /\ pc' = [pc EXCEPT ![w] = "resumedWriter", ![c] = "idle"]
        /\ item' = [item EXCEPT ![c] = item[w]]
        /\ result' = [result EXCEPT ![c] = "received"]
        /\ withdrawn' = withdrawn
    BY <1>5 DEF TakeFromWriter
  <2>. QED  BY <1>0, <2>1, <2>2 DEF Failed, On
<1>6. CASE TakeFromBuffer(c)
  BY <1>0, <1>6 DEF TakeFromBuffer, Return, Failed
<1>7. CASE ReadFromWriter(c)
  <2> DEFINE w == Head(writers)
  <2>1. w \in On("parkedWriter")
    BY <1>0, <1>7, HeadItem DEF ReadFromWriter
  <2>2. /\ pc' = [pc EXCEPT ![w] = "resumedWriter", ![c] = "resumedReader"]
        /\ item' = [item EXCEPT ![c] = item[w]]
        /\ result' = result /\ withdrawn' = withdrawn
    BY <1>7 DEF ReadFromWriter
  <2>. QED  BY <1>0, <2>1, <2>2 DEF Failed, On
<1>8. CASE ReadFromBuffer(c)
  BY <1>0, <1>8 DEF ReadFromBuffer, Failed
<1>9. CASE ResumeWriter(c) \/ ResumeReader(c)
  <2>1. active
    BY <1>9 DEF ResumeWriter, ResumeReader, Alone
  <2>. QED  BY <1>0, <1>9, <2>1 DEF ResumeWriter, ResumeReader, Return, Failed
<1>10. CASE Cleanup(c) \/ CancelAllAwaiters(c)
  <2>1. /\ pc[c] \in {"closing", "idle"} /\ item' = item
        /\ withdrawn' = withdrawn \cup ItemsOf(writers)
        /\ \A d \in Coroutine :
              /\ pc'[d] = IF d \in Waiting \cup {c} THEN "idle" ELSE pc[d]
              /\ result'[d] = IF d \in Waiting THEN "cancelled" ELSE result[d]
    BY <1>0, <1>10
       DEF Cleanup, CancelAllAwaiters, CancelWaiters, ResumeCancelled, CanStart
  <2>2. \A d \in On("parkedWriter") : item[d] \in ItemsOf(writers)
    BY <1>0 DEF Items, ItemsOf
  <2>3. Waiting = On("parkedWriter") \cup On("parkedReader")
    BY <1>0 DEF Waiting
  <2>. QED  BY <2>1, <2>2, <2>3 DEF Failed, Alone, On
<1>. QED  BY <1>1, <1>2, <1>3, <1>4, <1>5, <1>6, <1>7, <1>8, <1>9, <1>10
          DEF Effect

FailedInv == ItemsInv /\ Alone /\ Failed

LEMMA NextFailed ==
    ASSUME OneThread
    PROVE  FailedInv /\ [Next]_vars => FailedInv'
<1> SUFFICES ASSUME FailedInv, [Next]_vars PROVE (Alone /\ Failed)'
  BY NextItems DEF FailedInv
<1>1. CASE UNCHANGED vars
  BY <1>1 DEF vars, FailedInv, Alone, Failed
<1>2. CASE Next
  <2>1. PICK c \in Coroutine : Effect(c)
    BY <1>2, StartEffect, StepEffect DEF Next
  <2>. QED  BY <2>1, AloneEffect, FailedEffect DEF FailedInv, ItemsInv
<1>. QED  BY <1>1, <1>2

\* On one thread a send() that threw CancelledException or found the channel
\* closed may be repeated: its item is delivered to nobody.
THEOREM FailedSend ==
    ASSUME OneThread
    PROVE  Spec => []FailedSendNotDelivered
<1>1. Init => FailedInv
  BY InitItems DEF Init, FailedInv, Alone, Failed, Open, Sending, Empty
<1>2. FailedInv => FailedSendNotDelivered
  BY DEF FailedInv, ItemsInv, EveryItemOnce, Places, Failed, NoItem,
         FailedSendNotDelivered, Delivered
<1>3. FailedInv /\ [Next]_vars => FailedInv'
  BY NextFailed
<1>. QED  BY <1>1, <1>2, <1>3, PTL DEF Spec
=============================================================================
