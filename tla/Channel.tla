------------------------------ MODULE Channel ------------------------------
(***************************************************************************)
(* The MPMC channel of include/coro/channel.hpp, shared by coroutines that *)
(* run on the event loops of several threads.                              *)
(*                                                                         *)
(* One step is one critical section of mutex_, one read or update of the   *)
(* atomic isActive_, or the inline resumption of one waiter.  A waiter     *)
(* taken off a list is resumed by the thread that took it, while that      *)
(* thread still holds mutex_, and goes on running on that thread: its      *)
(* final awaiter schedules the caller on the loop of the current thread.   *)
(* Coroutines of one thread never preempt each other.                      *)
(*                                                                         *)
(* Items are numbered in the order in which they reach the channel: are    *)
(* put in the buffer, handed to a reader, or parked with their writer.     *)
(***************************************************************************)
EXTENDS Naturals, Sequences, FiniteSets

CONSTANTS
    Coroutine,  \* the coroutines that use the channel
    Thread,     \* the threads their event loops run on
    Capacity,   \* capacity_
    MaxItems    \* bound on the items sent (finite instances only)

ASSUME CapacityAssumption == Capacity \in Nat
ASSUME MaxItemsAssumption == MaxItems \in Nat

VARIABLES
    active,     \* isActive_
    buffer,     \* buffer_: the items in it
    writers,    \* writers_: the parked senders
    readers,    \* readers_: the parked receivers
    resuming,   \* waiters the holder of mutex_ has still to resume, in order
    on,         \* the thread each coroutine runs on
    pc,         \* where each coroutine is
    item,       \* item of its current or last operation, NoItem if none
    result,     \* what its last operation returned or threw
    count,      \* items that reached the channel so far
    delivered,  \* items returned to receivers, in order (history)
    withdrawn,  \* items whose parked sender was cancelled (history)
    discarded   \* items dropped by close() or by a receiver (history)

vars == <<active, buffer, writers, readers, resuming, on, pc, item, result,
          count, delivered, withdrawn, discarded>>

NoItem == 0

Resting == {"idle", "parkedWriter", "parkedReader"}
Sending == {"send", "sendSync", "pushWriter"}
Running == Sending \cup {"recvActive", "pushReader", "closing",
                         "resumedWriter", "resumedReader"}

Result == {"none", "sent", "received", "closed", "cancelled", "empty",
           "refused"}

Items(seq) == {seq[k] : k \in 1 .. Len(seq)}
ItemsOf(seq) == {item[seq[k]] : k \in 1 .. Len(seq)}

\* Items whose only copy is in an awaiter or on the way to a receiver.
InHand == {item[c] : c \in {d \in Coroutine :
                             pc[d] \in {"parkedWriter", "resumedReader"}}}

TypeOK ==
    /\ active \in BOOLEAN
    /\ buffer \in Seq(Nat)
    /\ Len(buffer) <= Capacity
    /\ writers \in Seq(Coroutine)
    /\ readers \in Seq(Coroutine)
    /\ resuming \in Seq(Coroutine)
    /\ on \in [Coroutine -> Thread]
    /\ pc \in [Coroutine -> Resting \cup Running]
    /\ item \in [Coroutine -> Nat]
    /\ result \in [Coroutine -> Result]
    /\ count \in Nat
    /\ delivered \in Seq(Nat)
    /\ withdrawn \subseteq Nat
    /\ discarded \subseteq Nat

Init ==
    /\ active = TRUE
    /\ buffer = <<>>
    /\ writers = <<>>
    /\ readers = <<>>
    /\ resuming = <<>>
    /\ on \in [Coroutine -> Thread]
    /\ pc = [c \in Coroutine |-> "idle"]
    /\ item = [c \in Coroutine |-> NoItem]
    /\ result = [c \in Coroutine |-> "none"]
    /\ count = 0
    /\ delivered = <<>>
    /\ withdrawn = {}
    /\ discarded = {}

-----------------------------------------------------------------------------
\* Scheduling: mutex_ is held exactly while its holder resumes waiters, and a
\* coroutine can call the channel only when nothing else runs on its thread.

\* Mutant: the critical sections are not protected.
MutexFreeAlways == TRUE

MutexFree == resuming = <<>>

CanStart(c) ==
    /\ pc[c] = "idle"
    /\ \A d \in Coroutine : on[d] = on[c] => pc[d] \in Resting

\* MaxItems bounds the items that have been or may still be numbered.
MayNumber ==
    count + Cardinality({c \in Coroutine : pc[c] \in Sending}) < MaxItems

\* Mutant: a waiter is parked at the head of its list.
ParkFirst(list, c) == <<c>> \o list

Park(list, c) == Append(list, c)

\* A coroutine resumed by c goes on in the thread of c.
Move(d, c) == on' = [on EXCEPT ![d] = on[c]]

Return(c, res, i) ==
    /\ pc' = [pc EXCEPT ![c] = "idle"]
    /\ item' = [item EXCEPT ![c] = i]
    /\ result' = [result EXCEPT ![c] = res]

-----------------------------------------------------------------------------
\* The sender's side of a critical section.

\* The oldest parked reader gets the new item and is to be resumed on c's
\* thread; c itself goes to "to", after it if it has to be resumed as well.
HandToReader(c, to) ==
    LET r == Head(readers)
        i == count + 1
    IN  /\ readers # <<>>
        /\ readers' = Tail(readers)
        /\ count' = i
        /\ pc' = [pc EXCEPT ![r] = "resumedReader", ![c] = to]
        /\ item' = [item EXCEPT ![r] = i, ![c] = i]
        /\ Move(r, c)
        /\ resuming' = IF to = "idle" THEN <<r>> ELSE <<r, c>>
        /\ result' = IF to = "idle" THEN [result EXCEPT ![c] = "sent"]
                                    ELSE result
        /\ UNCHANGED <<active, buffer, writers, delivered, withdrawn,
                       discarded>>

\* Mutant: one item too many.
RoomOffByOne == Len(buffer) <= Capacity

Room == Len(buffer) < Capacity

PutInBuffer(c, to) ==
    /\ readers = <<>>
    /\ Room
    /\ buffer' = Append(buffer, count + 1)
    /\ count' = count + 1
    /\ pc' = [pc EXCEPT ![c] = to]
    /\ item' = [item EXCEPT ![c] = count + 1]
    /\ resuming' = IF to = "idle" THEN <<>> ELSE <<c>>
    /\ result' = IF to = "idle" THEN [result EXCEPT ![c] = "sent"] ELSE result
    /\ UNCHANGED <<active, writers, readers, on, delivered, withdrawn,
                   discarded>>

\* Mutant: the buffer is not looked at.
NoTakerIgnoringRoom == readers = <<>>

NoTaker == readers = <<>> /\ ~Room

\* send(): the isActive() test that precedes the lock.
SendStart(c) ==
    /\ CanStart(c)
    /\ \/ /\ ~active
          /\ Return(c, "sent", NoItem)
       \/ /\ active
          /\ MayNumber
          /\ pc' = [pc EXCEPT ![c] = "send"]
          /\ item' = [item EXCEPT ![c] = NoItem]
          /\ UNCHANGED result
    /\ UNCHANGED <<active, buffer, writers, readers, resuming, on, count,
                   delivered, withdrawn, discarded>>

\* send(): the first critical section.
SendLocked(c) ==
    /\ pc[c] = "send"
    /\ MutexFree
    /\ \/ HandToReader(c, "idle")
       \/ PutInBuffer(c, "idle")
       \/ /\ NoTaker
          /\ pc' = [pc EXCEPT ![c] = "pushWriter"]
          /\ UNCHANGED <<active, buffer, writers, readers, resuming, on, item,
                         result, count, delivered, withdrawn, discarded>>

\* co_await WriterAwaiter: await_suspend locks again and looks again.
PushWriter(c) ==
    /\ pc[c] = "pushWriter"
    /\ MutexFree
    /\ \/ HandToReader(c, "resumedWriter")
       \/ PutInBuffer(c, "resumedWriter")
       \/ /\ NoTaker
          /\ writers' = Park(writers, c)
          /\ count' = count + 1
          /\ pc' = [pc EXCEPT ![c] = "parkedWriter"]
          /\ item' = [item EXCEPT ![c] = count + 1]
          /\ UNCHANGED <<active, buffer, readers, resuming, on, result,
                         delivered, withdrawn, discarded>>

SendSyncStart(c) ==
    /\ CanStart(c)
    /\ \/ /\ ~active
          /\ Return(c, "refused", NoItem)
       \/ /\ active
          /\ MayNumber
          /\ pc' = [pc EXCEPT ![c] = "sendSync"]
          /\ item' = [item EXCEPT ![c] = NoItem]
          /\ UNCHANGED result
    /\ UNCHANGED <<active, buffer, writers, readers, resuming, on, count,
                   delivered, withdrawn, discarded>>

\* The branch of sendSync() that looks for a reader after it has pushed is
\* dead: readers_ was empty a few lines above, under the same lock.
SendSyncLocked(c) ==
    /\ pc[c] = "sendSync"
    /\ MutexFree
    /\ \/ HandToReader(c, "idle")
       \/ PutInBuffer(c, "idle")
       \/ /\ NoTaker
          /\ Return(c, "refused", NoItem)
          /\ UNCHANGED <<active, buffer, writers, readers, resuming, on, count,
                         delivered, withdrawn, discarded>>

-----------------------------------------------------------------------------
\* The receiver's side.  Parked writers are looked at before the buffer.  The
\* re-checks of writers_ after a pop are dead: the list is empty there.

\* recv() and tryRecv() return the oldest parked writer's value themselves.
TakeFromWriter(c) ==
    LET w == Head(writers)
    IN  /\ writers # <<>>
        /\ writers' = Tail(writers)
        /\ delivered' = Append(delivered, item[w])
        /\ pc' = [pc EXCEPT ![w] = "resumedWriter", ![c] = "idle"]
        /\ item' = [item EXCEPT ![c] = item[w]]
        /\ result' = [result EXCEPT ![c] = "received"]
        /\ Move(w, c)
        /\ resuming' = <<w>>
        /\ UNCHANGED <<active, buffer, readers, count, withdrawn, discarded>>

\* Mutant: the value is read and not popped.
TakeFromBufferNoPop(c) ==
    /\ writers = <<>>
    /\ buffer # <<>>
    /\ delivered' = Append(delivered, Head(buffer))
    /\ Return(c, "received", Head(buffer))
    /\ UNCHANGED <<active, buffer, writers, readers, resuming, on, count,
                   withdrawn, discarded>>

TakeFromBuffer(c) ==
    /\ writers = <<>>
    /\ buffer # <<>>
    /\ buffer' = Tail(buffer)
    /\ delivered' = Append(delivered, Head(buffer))
    /\ Return(c, "received", Head(buffer))
    /\ UNCHANGED <<active, writers, readers, resuming, on, count, withdrawn,
                   discarded>>

NothingThere == writers = <<>> /\ buffer = <<>>

\* recv(): the first critical section.
Recv(c) ==
    /\ CanStart(c)
    /\ MutexFree
    /\ \/ TakeFromWriter(c)
       \/ TakeFromBuffer(c)
       \/ /\ NothingThere
          /\ pc' = [pc EXCEPT ![c] = "recvActive"]
          /\ item' = [item EXCEPT ![c] = NoItem]
          /\ UNCHANGED <<active, buffer, writers, readers, resuming, on,
                         result, count, delivered, withdrawn, discarded>>

\* recv(): the isActive() test between the two critical sections.
RecvActive(c) ==
    /\ pc[c] = "recvActive"
    /\ \/ /\ ~active
          /\ Return(c, "closed", NoItem)
       \/ /\ active
          /\ pc' = [pc EXCEPT ![c] = "pushReader"]
          /\ UNCHANGED <<item, result>>
    /\ UNCHANGED <<active, buffer, writers, readers, resuming, on, count,
                   delivered, withdrawn, discarded>>

\* co_await ReaderAwaiter: here the value travels through the awaiter, and
\* the writer it came from is resumed first.
PushReader(c) ==
    /\ pc[c] = "pushReader"
    /\ MutexFree
    /\ \/ LET w == Head(writers)
          IN  /\ writers # <<>>
              /\ writers' = Tail(writers)
              /\ pc' = [pc EXCEPT ![w] = "resumedWriter",
                                  ![c] = "resumedReader"]
              /\ item' = [item EXCEPT ![c] = item[w]]
              /\ Move(w, c)
              /\ resuming' = <<w, c>>
              /\ UNCHANGED <<buffer, readers>>
       \/ /\ writers = <<>>
          /\ buffer # <<>>
          /\ buffer' = Tail(buffer)
          /\ pc' = [pc EXCEPT ![c] = "resumedReader"]
          /\ item' = [item EXCEPT ![c] = Head(buffer)]
          /\ resuming' = <<c>>
          /\ UNCHANGED <<writers, readers, on>>
       \/ /\ NothingThere
          /\ readers' = Park(readers, c)
          /\ pc' = [pc EXCEPT ![c] = "parkedReader"]
          /\ UNCHANGED <<buffer, writers, resuming, on, item>>
    /\ UNCHANGED <<active, result, count, delivered, withdrawn, discarded>>

TryRecv(c) ==
    /\ CanStart(c)
    /\ MutexFree
    /\ \/ TakeFromWriter(c)
       \/ TakeFromBuffer(c)
       \/ /\ NothingThere
          /\ Return(c, "empty", NoItem)
          /\ UNCHANGED <<active, buffer, writers, readers, resuming, on, count,
                         delivered, withdrawn, discarded>>

-----------------------------------------------------------------------------
\* await_resume() of a waiter that was resumed and not cancelled: it reads
\* isActive_ once more, whatever became of the item.

IsNext(c) == resuming # <<>> /\ Head(resuming) = c

ResumeWriter(c) ==
    /\ IsNext(c)
    /\ pc[c] = "resumedWriter"
    /\ resuming' = Tail(resuming)
    /\ Return(c, IF active THEN "sent" ELSE "closed", item[c])
    /\ UNCHANGED <<active, buffer, writers, readers, on, count, delivered,
                   withdrawn, discarded>>

ResumeReader(c) ==
    /\ IsNext(c)
    /\ pc[c] = "resumedReader"
    /\ resuming' = Tail(resuming)
    /\ Return(c, IF active THEN "received" ELSE "closed", item[c])
    /\ \/ /\ active
          /\ delivered' = Append(delivered, item[c])
          /\ UNCHANGED discarded
       \/ /\ ~active
          /\ discarded' = discarded \cup {item[c]}
          /\ UNCHANGED delivered
    /\ UNCHANGED <<active, buffer, writers, readers, on, count, withdrawn>>

-----------------------------------------------------------------------------
\* close() and cancelAllAwaiters().

\* Mutant: only the writers are resumed.
WaitingWriters == Items(writers)

Waiting == Items(writers) \cup Items(readers)

\* Every waiter is resumed with CancelledException on c's thread.
ResumeCancelled(c) ==
    /\ pc' = [d \in Coroutine |->
                IF d \in Waiting \cup {c} THEN "idle" ELSE pc[d]]
    /\ result' = [d \in Coroutine |->
                    IF d \in Waiting THEN "cancelled" ELSE result[d]]
    /\ on' = [d \in Coroutine |-> IF d \in Waiting THEN on[c] ELSE on[d]]
    /\ withdrawn' = withdrawn \cup ItemsOf(writers)

\* Mutant: the list of writers is not cleared.
CancelWaitersKeepWriters(c) ==
    /\ ResumeCancelled(c)
    /\ readers' = <<>>
    /\ UNCHANGED writers

CancelWaiters(c) ==
    /\ ResumeCancelled(c)
    /\ writers' = <<>>
    /\ readers' = <<>>

\* close(): the compare-and-swap; on a closed channel close() does nothing.
CloseStart(c) ==
    /\ CanStart(c)
    /\ active
    /\ active' = FALSE
    /\ pc' = [pc EXCEPT ![c] = "closing"]
    /\ UNCHANGED <<buffer, writers, readers, resuming, on, item, result, count,
                   delivered, withdrawn, discarded>>

Cleanup(c) ==
    /\ pc[c] = "closing"
    /\ MutexFree
    /\ CancelWaiters(c)
    /\ buffer' = <<>>
    /\ discarded' = discarded \cup Items(buffer)
    /\ UNCHANGED <<active, resuming, item, count, delivered>>

CancelAllAwaiters(c) ==
    /\ CanStart(c)
    /\ MutexFree
    /\ CancelWaiters(c)
    /\ UNCHANGED <<active, buffer, resuming, item, count, delivered,
                   discarded>>

-----------------------------------------------------------------------------
\* Start(c): the program calls an operation.  Step(c): a call goes on.

Start(c) ==
    \/ SendStart(c) \/ SendSyncStart(c) \/ Recv(c) \/ TryRecv(c)
    \/ CloseStart(c) \/ CancelAllAwaiters(c)

Step(c) ==
    \/ SendLocked(c) \/ PushWriter(c) \/ SendSyncLocked(c)
    \/ RecvActive(c) \/ PushReader(c)
    \/ ResumeWriter(c) \/ ResumeReader(c)
    \/ Cleanup(c)

Next == \E c \in Coroutine : Start(c) \/ Step(c)

Spec == Init /\ [][Next]_vars

\* A thread that is inside an operation keeps running.
FairSpec == Spec /\ \A c \in Coroutine : WF_vars(Step(c))

-----------------------------------------------------------------------------
\* Properties.

\* send() and recv() look at the lists twice, in critical sections of their
\* own, and other threads run in between.  Even so nobody parks while a
\* partner or room is there: a sender is parked only beside a full buffer and
\* no parked receiver, a receiver only beside an empty buffer.
NoMissedHandoff ==
    /\ writers # <<>> => Len(buffer) = Capacity /\ readers = <<>>
    /\ readers # <<>> => buffer = <<>> /\ writers = <<>>

Delivered == Items(delivered)

\* An item that reached the channel is in one place: returned to one receiver,
\* in the buffer, in one awaiter, or taken out of circulation once.
Places == <<Delivered, Items(buffer), InHand, withdrawn, discarded>>

NoRepeats(seq) ==
    \A j, k \in 1 .. Len(seq) : seq[j] = seq[k] => j = k

\* Whatever the threads do, no item is lost, copied or delivered twice by the
\* handovers between lists, buffer and awaiters.
EveryItemOnce ==
    /\ Delivered \cup Items(buffer) \cup InHand \cup withdrawn \cup discarded
           = 1 .. count
    /\ \A j, k \in 1 .. 5 : j # k => Places[j] \cap Places[k] = {}
    /\ NoRepeats(delivered)
    /\ NoRepeats(buffer)
    /\ \A c, d \in Coroutine :
          /\ c # d
          /\ pc[c] \in {"parkedWriter", "resumedReader"}
          /\ pc[d] \in {"parkedWriter", "resumedReader"}
          => item[c] # item[d]

\* A suspended coroutine can be reached by somebody who will resume it: it is
\* on exactly one list, once, and the awaiters on the lists are suspended.  An
\* awaiter that is on no list is never resumed, one that is on two is resumed
\* after its frame has moved on.
EveryWaiterOnOneList ==
    /\ NoRepeats(writers) /\ NoRepeats(readers) /\ NoRepeats(resuming)
    /\ Items(writers) = {c \in Coroutine : pc[c] = "parkedWriter"}
    /\ Items(readers) = {c \in Coroutine : pc[c] = "parkedReader"}
    /\ Items(resuming) = {c \in Coroutine :
                            pc[c] \in {"resumedWriter", "resumedReader"}}

\* Without a buffer a send() that returns normally has met its receiver.
SendMeetsReceiver ==
    Capacity = 0 /\ active =>
        \A c \in Coroutine : result[c] = "sent" /\ pc[c] = "idle" =>
            item[c] \in Delivered \cup InHand

\* A sender that got an exception may send the value again: it has not been
\* delivered and never will be.  (False between threads, when close() comes
\* between the handover and await_resume().)
FailedSendNotDelivered ==
    \A c \in Coroutine :
        pc[c] = "idle" /\ result[c] \in {"closed", "cancelled"} =>
            item[c] \notin Delivered

\* The same as progress: after close() every waiter is released for good.
CloseReleasesAll ==
    \A c \in Coroutine :
        ~active /\ pc[c] \in {"parkedWriter", "parkedReader"} ~> pc[c] = "idle"

\* The channel as what it promises: see ItemPool.
Pool == INSTANCE ItemPool WITH
            Ordered  <- Capacity = 0,
            open     <- active,
            accepted <- count,
            pending  <- Items(buffer) \cup InHand,
            taken    <- delivered,
            returned <- withdrawn

\* The channel implements the pool of items: whatever runs where, an accepted
\* item is taken at most once, and lost only when its sender is told so or the
\* channel was closed.  Without a buffer, items are taken in order.
ImplementsPool == Pool!PoolSpec
=============================================================================
