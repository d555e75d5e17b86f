# Verification of MCoroRpc

MCoroRpc is a C++20 coroutine library with an RPC framework on top: an event
loop over epoll, awaiters for I/O and time, Go-like channels, TCP streams, the
TinyPB wire format, an RPC server and client, and service discovery through
ZooKeeper. This directory holds TLA+ models of it, the configurations that
check them with TLC, and proofs checked by TLAPS. Paths below are relative to
`src/`.

    tlc -config channel_cap1.cfg MCChannel      # any .cfg, see "Runs"
    tlapm ChannelProofs.tla                     # and the other *Proofs modules

## 1. Inventory

For each component: its state, its operations, whom it talks to, what makes it
hard, and what makes it correct. *(M)* is modelled, *(P)* partly, *(-)* not.

**Channel** *(M)* - `include/coro/channel.hpp`. State: `isActive_` (atomic),
`buffer_`, the two lists `writers_` and `readers_` of suspended awaiters, all
three under `mutex_`; each awaiter has its value and a cancelled mark.
Operations: `send`, `sendSync`, `recv`, `tryRecv`, `cancelAllAwaiters`, `close`.
A partner is resumed *inline, under the mutex, on the thread that found it*;
`send` and `recv` look twice, in separate critical sections; `isActive_` is read
outside. Correct: items are neither lost nor doubled, hand-overs are not missed,
every suspended coroutine can be reached, `close` releases everybody.

**Epoll wrapper** *(M)* - `src/epoll.cc`. State: `m_event_map` (one waiter per
descriptor and direction), `m_wait_to_fd`; the kernel's interest list. Operations:
`add_reader`, `add_writer`, `cancel_wait`, `wait`. Edge triggered. Correct: the
three tables agree and no edge is lost.

**Eventloop** *(M)* - `src/event_loop.cc`. State: ready queue, callbacks by wait
id, wait ids by handle, the timer heap, `m_stop`. Operations: `call_soon`,
`call_at`/`call_later`, `add_reader`/`add_writer`, `cancel`, `cancel_wait`,
`stop`, and the phases of `run_once`. Called by every awaiter; resumes
coroutines through callbacks. Hard: ids that are queued when their coroutine is
cancelled or destroyed by an earlier callback, and the block in
`epoll_wait(-1)`. Correct: each suspension ends at most once, with its cause,
never after cancellation; nobody is stranded; the loop ends when all is done.

**I/O, sleep and timer awaiters** *(M)* - `include/net/ioawaiter.hpp`,
`include/coro/sleep.hpp`, `src/timer.cc`. State: the wait id (an int) and the
descriptor or the deadline. Correct: what suspends has registered, and a
destroyed awaiter has taken its registration back.

**Handle** *(P)*, **Task, Promise, TaskResult** *(M)* -
`include/coro/handle.hpp`, `src/handle.cc`, `include/coro/task.hpp`,
`include/coro/taskresult.hpp`. State: handle state, parent, result, the owning
`Task`. Operations: `schedule`, `co_await`, final suspend, `cancel`,
destruction. Hard: `schedule` does not leave UNSCHEDULE, so scheduling twice or
awaiting a started task queues the frame again; a parent may be gone when its
child ends. Correct: a frame is resumed only where it is suspended, and a
parent once, after its child.

**wait_for** *(M)* - `include/coro/wait_for.hpp`. A timer that sets a flag races
the awaited task, which is never cancelled. Correct: it says "timeout" exactly
when the deadline came first, and the timer does not outlive its flag.

**TcpStream, TcpBuffer** *(P)* - `src/tcpstream.cc`, `src/tcp_buffer.cc`. State:
read and write index, size; the descriptor. Correct: bytes come out once and in
order, indices stay ordered, reading ends at EAGAIN or at the end of the stream
and at nothing else.

**TcpService, TcpConnector** *(P)* - `accept` with and without timeout,
`connect`, `close` under a waiting `accept`. Correct: a connection that was
accepted has an owner, or is closed.

**TinyPB coder** *(P)* - `src/tinypb_coder.cc`. Encoding, and decoding from a
stream with partial and corrupt messages. Correct: messages come out once and
in order.

**RpcChannel** *(P)* - `include/rpc/rpc_channel.inl`. State: stream, connected,
stopped, request channel. Operations: `connect`, `reconnect`, `CallMethod`,
`CallMethodAsync`, `close`. Hard: `m_stream` across awaits; answers not matched
by `msg_id`; a late answer after a timeout. Correct: a call ends once, with its
own answer or a failure.

**RpcClient, load balancers** *(M)* - `src/rpc_client_impl.cc`. State: instances,
channels by address, failed addresses. Operations: `connectDirect`,
`connectWithDiscovery`, `updateInstances` (also from ZooKeeper's thread),
`getOrCreateChannel`, `callMethodAsync`, `disconnect`. Correct: a success is
the call's own and was executed once, every call ends, a newer list is not
overwritten by an older one.

**RpcProvider, RpcDispatcher** *(M)* - `src/rpc_provider.cc`. State: started,
stop, the client channel, the TCP service. The accept loop sends streams to a
Channel, worker coroutines receive and serve them. Correct: an accepted
connection is served by one worker and closed once; answers come in order;
`stop` ends the workers.

**ZkClient, ServiceDiscovery** *(P)* - `src/zkclient.cc`,
`src/rpc_provider.cc`. State: connected, the result of connecting, pending
operations, watchers. Completions run on ZooKeeper's thread. Correct: an
operation is freed once, after its waiter has read it; a change of the watched
node is reported at last.

**EventLoopPool, ObjectPool, RpcContext** *(-)*, logging, addresses, concepts,
exceptions *(-)*: see "Not modelled".

`PROJECT.json` lists the hazards of all of these at their lines, with the
properties that cover them.

## 2. How the modules fit together

| Module | Models | Extends or refines | Runs | Proofs |
|---|---|---|---|---|
| Channel | channels on several threads | refines ItemPool | `channel_*` | ChannelProofs |
| Epoll, EventLoop | the loop of one thread | EventLoop extends Epoll, refines Wakeups | `loop_*` | EventLoopProofs |
| Task | frames, awaiting, `wait_for` | takes of the loop its ready queue | `task`, `wait_for_deadline` | TaskProofs |
| TcpBuffer | the buffer as operators on a record | | | TcpBufferProofs |
| TcpStream | a connection, read as bytes or by the server | extends TcpBuffer | `stream` | TcpStreamProofs |
| RpcChannel | calls on shared streams | | | |
| RpcClient | pool, retries, instances | extends RpcChannel | `rpc` | RpcClientProofs |
| RpcProvider | accept loop, workers, dispatch | takes of Channel what one loop can see | `provider` | RpcProviderProofs |
| ZkClient | session, operations, watches | feeds `updateInstances` | `zk` | ZkClientProofs |

Each layer takes what the layer below promises and no more: RpcProvider uses
`send` and `recv` as atomic steps because on one loop nothing comes between the
two looks of Channel; TcpStream and RpcChannel wait for readiness as EventLoop
delivers it (`ReadyIoResumes`); RpcChannel's answers are whole messages, an
assumption about the network under which TcpStream shows that none is dropped; the timeouts of
RpcChannel and RpcProvider are the flag that Task shows `wait_for` to return.
RECURSIVE operators are used nowhere, parameters are constants with named
assumptions, and every operation is one action.

## 3. The models

### Channel

A coroutine is `idle`, in the middle of an operation, or parked on a list.
The steps are those the code makes visible to other threads: reads of
`isActive_`, critical sections of `mutex_`, and inline resumptions.

| Code | Actions |
|---|---|
| `send` | `SendStart` (test of `isActive_`), `SendLocked` (reader, buffer or neither), `PushWriter` (the second look and parking) |
| `sendSync` | `SendSyncStart`, `SendSyncLocked` |
| `recv` | `Recv` (writer, buffer or neither), `RecvActive` (test of `isActive_` between the sections), `PushReader` |
| `tryRecv` | `TryRecv` |
| `await_resume` of the awaiters | `ResumeWriter`, `ResumeReader` |
| `close`, `cancelAllAwaiters` | `CloseStart`, `Cleanup`, `CancelAllAwaiters` |

`resuming` is the list of waiters that the holder of the mutex has still to
resume; the mutex is free when it is empty. A resumed coroutine goes on in the
thread that resumed it (`on`), so a coroutine may start an operation only when
nothing else runs on its thread. `delivered`, `withdrawn`, `discarded` and
`count` are history. Items are numbers in the order in which they reached the
channel. The wrappers `Sender`, `Receiver` and `MPMC` only forward.
What is resumed inline
is the frame of `send` or `recv` itself: it returns, and its final awaiter
queues the caller on the loop of the thread that resumed it. So nothing that is
resumed under the mutex calls the channel again, and the caller moves to that
thread. The destructor is not
modelled.

`ItemPool` says what a channel is for: a bounded pool in which each item is
offered, then taken or dropped, once. `Channel` ends with the refinement mapping;
`ImplementsPool` is checked as a property, and proved. With capacity 0 the pool is ordered.

### Epoll and EventLoop

`Epoll` has the two tables of `src/epoll.cc` and, as an external part, the
kernel's interest list: what is registered, what is watched, what is ready
(`level`) and what has not been reported yet (`edge`). `EPOLL_CTL_ADD` and `MOD`
look at readiness again, `close(2)` drops the descriptor without telling the
class. `add_reader` and `add_writer` are one operator with the direction as its
parameter.

`EventLoop` extends it. `phase` is where `run_once` is:

| Code | Actions |
|---|---|
| `run_until_complete`, `run_once` up to its timeout | `RunOnce` |
| `execute_ready_callback` | `ExecuteCallback`, `SkipCancelled`, `ReadyDone` |
| `process_epoll_event` | `ProcessEpollEvent` |
| `process_expired_timeout` | `ProcessExpiredTimeout` |
| `schedule`, `call_soon` | `Schedule` |
| `ReadAwaiter`, `WriteAwaiter`, `add_reader`, `add_writer` | `AwaitIo`; their destructors are in `ExecuteCallback` and `Destroy` |
| `SleepAwaiter`, `Timer`, `call_at` | `Sleep`, `CancelSleep` |
| `Task::cancel`, `Eventloop::cancel`, `cancel_wait` | `Destroy` |
| `close` of a stream, `stop` | `Close`, `Stop` |
| final suspension of a task without a parent | `Return` |
| outside | `Peer`, `Tick`, `Reopen` |

Callbacks run until their coroutine suspends or returns, on the loop's thread;
only peers, the clock and `stop()` act in between. Choices the code leaves open
are nondeterministic: the order of the ids that one `epoll_wait` reports, which
timer of equal deadlines comes first, whether `epoll_wait` returns a little
before the first deadline (its timeout is cut down to milliseconds), and whether
a call drained its descriptor before it waits. Three constants admit what a
well-behaved program avoids: `Sharing` (two coroutines wait for one direction of
a descriptor), `Closing` (a descriptor is closed under a waiter) and
`CancellingSleep`. Wait id 0, which also means "none", goes to the first
scheduled coroutine, as in the code; the 64-bit id, which the awaiters keep in
an int, is bounded and does not wrap. `scheduleOn` from another thread is not
modelled.

`Wakeups` is what the loop promises a coroutine: one runs at a time, a
suspension ends at most once and for its cause, a cancelled one never.
EventLoop ends with the mapping (`Life` and `CauseIsThere`); `ImplementsWakeups` is
checked and proved.

### Task

`at` is where a frame is: not started (`initial`), running, suspended at a
child or outside (`io`), at its final suspension, or destroyed. The ready queue
holds callbacks of frames and of timers, in order, as the loop runs them.

| Code | Actions |
|---|---|
| the loop | `Run`, `RunTimer`, `Expire` (a deadline), `Wake` (I/O or a sleep) |
| `Task::schedule`, `CoroHandle::schedule` | `Start` with `Scheduled` |
| `co_await` of a task | `Await` with `Suspend`; a task that is done does not suspend |
| `co_await` of I/O or time | `AwaitIo` |
| `wait_for` | `WaitFor`, `WaitForReturns`; `Abort` is the timer's |
| `co_return`, an exception, the final awaiter | `Return` with `FinalSuspend` |
| `Task::cancel`, destructors | `Cancel` with `CallbacksOf` |

`Careful` admits programs that start or await a task once and cancel a task only
when it awaits no child that is alive; the library enforces neither. Without it
a frame is queued twice, and a child queues a parent that is gone.

A callback that is cancelled leaves its id in the queue, as `Dropped`, and
`execute_ready_callback` passes over ids without a callback (`Skip`). So a queue
only loses its head and gains at its end, which is also what the proofs are about.

### TcpBuffer and TcpStream

TcpBuffer translates `tcp_buffer.cc` function by function: a buffer is a record
of size, indices and bytes, stale ones included, since `decode` can read them.
TcpStream is one direction of a connection. A byte is `<<m, k>>`, byte k of
message m; the length, four bytes in the code, has two here, so that it can be
cut up.

| Code | Actions |
|---|---|
| `write`, `writeFromBuffer` | `WriteMessage`, `Send` (any number of bytes) |
| `readToBuffer` | `Recv`, `RecvZero`, `RecvAgain`, `Readable` |
| `read` | `Read` |
| `handleClient`, `decode` | `Received`, `Decode`, `Serve`, `DropRest` |

The socket takes and delivers any number of bytes, so `decode` may see a part of
a message; `cut` remembers that it has (`Received`). From then on it may read a
length of which some bytes have not come, take a stale byte for an END, and move the
read index one place behind the write index: then the buffer is in `Overrun` until
the rest is dropped, or `adjustBuffer` moves a negative number of bytes, with which
the program ends (`Breaks`, `broken`).

### RpcChannel and RpcClient

RpcChannel is `CallMethodAsync` for several calls, each a coroutine, on shared
streams: `CallMethodAsync` (the tests before the I/O), `Write`, `ReadAll` or
`ReadWaits` (whose awaiter displaces another one, as in Epoll), `Expire`,
`FinishUnanswered`, `Finish`, and `NullStream` wherever `m_stream` is used after
`close` has reset it. The server's end is external.

RpcClient adds `callMethodAsync` around it: `Select`, `Reuse`, `Create`,
`Connect`, `ConnectFails`, `ConnectLate` and `Got` (`getOrCreateChannel` and what
is made of its result), `Begin`, `Io`, `Succeed`, `Retry`, `Fail`; and from any thread
`UpdateInstances` and `Disconnect`. `NullStream` and `BeginNull` are dereferences
of null, with which the program ends (`Alive`). Channels are shared pointers: one that neither
the pool nor a call refers to is closed (`DropUnused`). `connectDirect` is an
initial list of instances, and a balancer any choice among the available ones.
`MaxEvents` bounds what disturbs: changes of the list, lost connections, connects
that fail or are late, timeouts of calls, and errors of the server.

### RpcProvider

All coroutines of the server run on one loop, so a step is what one of them does
between two suspensions. `acc` is `RpcProvider::start()`.

| Code | Actions |
|---|---|
| `RpcServer::start`, `RpcProvider::start` | `ServerStart`, `Begin`, `StartWorkers` |
| `accept` with its timeout | `AcceptReady`, `Accept`, `Expire`, `AcceptLate`, `Accepted`, `AcceptFails`, `AfterStop` |
| the channel of clients | `Send`, `Receive`, `Handed`, `CloseChannel` |
| the workers | `Loop` |
| `handleClient` | `StopServing`, `StartReading`, `ClientHasLeft`, `ReadRequests`, `ServeNext`, `ServeFails` |
| `dispatch` | `Faults`, `Dispatch` |
| `stop` of both | `Stop` |
| outside | `Connect`, `SendRequest`, `Leave` |

Registration in ZooKeeper happens before the workers start and its failure is
ignored, so it is part of `StartWorkers`. Requests are records of what
`dispatch` looks at: whether the name has a dot, the service, the method, and
whether the message parses.

### ZkClient

The requests of `create`, `getData`, `setData`, `deleteNode` and `getChildren`
are one protocol, whose steps other threads can come between: the test of
`m_connected` and the listing of a PendingOp (`Ask`), the call of the library
(`Send`, as `Create`, `Data`, `Delete` or `GetChildren`, or `Refused`), the wait
on the condition variable and the copy of the result (`Woken`), and the end of the
operation (`Done`). `UseFreed` is what happens when `cleanupPendingOps` (`Sweep`)
was there before. The discovery of `connectWithDiscovery` is the thread
`Discovery`: `Start`, `Started`, `Ask`, `GetChildren`, `NotConnected`, `Done`. The
library's thread runs `Callback`: `SessionEvent`, `ChildEvent`, `OpCompletion`,
`WatchChildrenCompletion`; a completion writes its result under the mutex of the
operation and notifies after it (`Notify`). `close` is `Close`, `CloseSession` and
`Closed`, before, in and after `zookeeper_close`. With the first use of an
operation that is deleted the behaviour ends (`Defined`). `m_zkHandle` is read
and written without a lock; each access is taken as atomic. The library and the
server are external: one session, answers in order, a watch that is told once
and before the answers that follow the change.

## 4. Runs

| Run | Shows | Bounds |
|---|---|---|
| `channel_cap1` | nothing lost or doubled, no missed hand-over, one list per waiter, implements ItemPool | 3 coroutines, 2 threads, 1 slot, 3 items |
| `channel_cap0` | rendezvous, implements the ordered pool | 3 coroutines, 2 threads, 3 items |
| `channel_one_thread` | on one loop `close` releases everybody; a failed `send` was not delivered | 3 coroutines, 2 items |
| `loop_wakeups` | books and kernel agree, no edge lost, nobody stranded, sleepers in order, implements Wakeups | 2 coroutines, 2 descriptors, 5 ids, times 0 and 1 |
| `loop_hostile` | no callback for a dead frame, even with shared and closed descriptors and cancelled sleeps | 3 coroutines, 1 descriptor, 5 ids |
| `loop_live` | ready I/O and due sleepers are resumed, the loop ends | 2 coroutines, 1 descriptor, 5 ids |
| `task` | frames are queued where they are suspended, parents resume, `wait_for` tells the truth and its timer does not outlive it | 4 frames, one of them `wait_for` |
| `wait_for_deadline` | *finding*: `wait_for` does not end at its deadline | as `task` |
| `stream` | no byte lost or repeated on its way, no reader stops early, and no request dropped, reordered or left until a part of a message is decoded | 2 messages of 5 bytes, buffers of 4 and 17, growing to 5 |
| `rpc` | a success is the call's own and was executed once; every call ends | 2 calls, 3 channels, 1 address, 1 retry, 2 disturbances of any kind |
| `provider` | one owner per connection, answers in order, everyone served, workers end | 2 connections, 2 workers, 1 slot, 2 requests |
| `zk` | who uses an operation after its deletion; waiters wake, the list becomes current | 1 address, 2 threads, ZooKeeper's and a closing one, 2 changes |

Why the bounds are enough. A race of the channel needs one coroutine between
its two looks, a partner and a third that closes or takes what the partner
left; the buffer and the lists fill and empty several times. In the loop two
coroutines suffice for every pair of directions on one descriptor and for two
deadlines, the second descriptor for entries that are dropped beside one that
stays, and a third coroutine, in `loop_hostile`, for one that destroys the
waiter whose id is queued. Five wait ids allow each coroutine to suspend twice.
In `task` the four frames are a main one, a `wait_for`, its child and one more,
so that a parent, a child and a canceller are always three. In `stream` the
buffer of 4 is smaller than a message, so that it grows in both roles, and then one
message fills it, so that `recv` is given no room; one of 17 holds both messages and is
rewound behind the first, so that the second comes over stale bytes, an END among
them, which is how the program gets to `broken`. A buffer that is overrun without
that takes 18 bytes and three messages; `TcpStreamProofs` covers it, and all other
sizes. In `rpc` two calls are enough to share, displace and
rob each other; three channels are one for each call and one in the pool. In
`provider` two connections and two workers let one worker wait in the channel
while the other serves, and one slot lets `send` fill the buffer and park. In
`zk` two changes are one before and one after the first list, which suffices for
an older list to be written last, or a change and the end of the session while
both threads have operations pending; `ZkClientProofs` covers more.

Symmetry is used for coroutines, threads and descriptors where only safety is
checked. Deadlock is not checked, since the bounds end every behaviour, and a
program whose coroutines wait for each other may stop.

**Fairness.** `channel_one_thread`: weak fairness of each coroutine's step inside
an operation: a thread that has entered an operation goes on, and nothing
obliges a program to call the channel. `loop_live`: weak fairness of the loop's
own steps (its thread runs), of the running coroutine (it suspends or returns,
since the calls it can make are bounded) and of the clock. Peers owe nothing,
and `epoll_wait(-1)` is not enabled without an event. `task` and
`wait_for_deadline`: the loop, the running frame, and the clock; what a frame
waits for outside may never come. `stream`: the reader's steps, and that what
was written is sent; a writer need not write. `rpc`: the steps of each call,
and answers of a server that is there; a connect that does not fail and is not
late succeeds, and timeouts need not come. `provider`: the steps of the loop, and that a client which has all its
answers leaves at last - a client that stays keeps its worker, which is the
design of the server; nothing obliges a client that waits for an answer.
`zk`: each thread, ZooKeeper's thread, and the server's answers; a thread
that waits need not wake before it is notified, and nobody need close.

## 5. Proofs

`ChannelProofs` proves, for any sets of coroutines and threads and any capacity
in `Nat` (`CapacityAssumption`):

* `TypeCorrect`: `Spec => []TypeOK`.
* `HandoffNeverMissed`: `Spec => []NoMissedHandoff`. A sender is parked only
  beside a full buffer and no parked receiver, a receiver only beside an empty
  buffer and no parked sender - although `send` and `recv` decide in two
  critical sections. The invariant is `Inv == TypeOK /\ NoMissedHandoff`; with
  the types it is inductive: a coroutine parks only in the section in which it
  has looked again (`PushWriter`, `PushReader`), a section that takes an item
  from a full buffer refills it from the oldest parked writer or leaves none,
  and `close` empties the three together. One lemma per part of a critical
  section (`HandToReaderInv`, `PutInBufferInv`, ...) is followed by one per kind
  of step (`StartInv`, `StepInv`).
* `WaiterOnOneList`: `Spec => []EveryWaiterOnOneList`. `StartEffect` and `StepEffect`
  reduce the actions to what they do to the three lists (a coroutine parks, the
  first of a list goes, lists move to `resuming`), and the rest of the proof sees only
  that (`WaitersEffect`).
* `ItemsOnce`: `Spec => []EveryItemOnce`, and `ChannelIsPool`:
  `Spec => ImplementsPool`. Where an item is (its holders: a parked writer, the
  buffer, a resumed reader, the discarded and the delivered) splits the items that
  were accepted; a step moves one item between holders, adds the next number, or
  moves all to the discarded. `OnceEffect` shows that, and that such a move is a
  step of ItemPool or none; `OrderEffect` that what is taken is the oldest where
  ItemPool is `ordered`.
* `SendMet`: `Spec => []SendMeetsReceiver`. The item of a send that is to return
  true, in a channel without a buffer, has been taken (`RendezvousInv`).
* `FailedSend`: `OneThread` implies `Spec => []FailedSendNotDelivered`. With two
  threads it is false. With one, a coroutine in the middle of an operation is alone
  (`Alone`), so nothing comes between the test of `isActive_` and the parking.

`EventLoopProofs` proves, for any coroutines, descriptors, ids and times
(`NobodyAssumption`, `MaxIdAssumption`, `MaxTimeAssumption`), first whatever the
program shares, closes and cancels:

* `NoDeadFrameResumed`: `Spec => []NoCallbackForDeadFrame`, and
  `AwaitersKnowTheirWaits`: `Spec => []AwaiterKnowsItsWait`. The invariant
  `FrameInv` adds that the ids of callbacks are new and unique, and that
  callbacks are charged: cancelling
  a handle takes back what is *charged* to it, so a callback that was not charged
  would outlive its frame. `RegisterInv`, `ExecuteCallbackInv`, `DestroyInv`,
  `CancelSleepInv` and `LeaveInv` are the ways the registries change.
* `TypeCorrect`: `Spec => []TypeOK`. The types of the queue, the heap and the
  entries (`RestTypeOK`) rest on `Fresh`: an id that is anywhere is below `nextId`.

Then for programs that avoid some of it:

* `BooksAgree`: `Spec => []WaitsMatchCallbacks` if `CancellingSleep = FALSE`
  (with it, the charge of a cancelled sleep stays).
* `NeverGivesUp`: `Spec => []ExitOnlyWhenIdle` if `Closing = FALSE`. Its invariant
  `ExitInv` says that registrations do not fail (`CtlAgrees`), that who is
  suspended is charged, and that coroutines run in the two passes only. With
  `Closing` a coroutine can be suspended and not charged: see section 6.
* `SleepersWakeInOrder`: `Spec => TimersInOrder` if `CancellingSleep = FALSE`. A
  sleeper is on the heap under its time or queued (`TimerBooks`); those queued are in
  the order of their times and before those on the heap (`SleepsInOrder`). Sleeps that
  expire are appended behind those of earlier rounds, and a late starter's time
  is not before `now`, which is why the order survives iterations.
* `NoEdgeLost`: `Spec => []NoLostEdge`, and `SuspendedIsWakeable`:
  `Spec => []SuspendedCanBeWoken`, for a program that does none of the three
  (`Polite`). `IoBooks` ties the entries to the waiters: the kernel watches what
  an entry says, each wait id of an entry is that of the one coroutine waiting there, and
  `m_wait_to_fd` leads to it. An entry that is added, modified or dropped touches one
  direction of one descriptor (`Leaves`, `AwaitIoBooks`); the kernel looks at the level
  again whenever the mask is set, so a waiter of the other direction loses no
  news; and ids are new, so one that is queued is no other's. A second
  waiter in the same entry, or a descriptor closed under its waiter, breaks
  these: see section 6.
* `LoopIsWakeups`: `Spec => ImplementsWakeups` for such a program. `LifeFacts` reads the
  life of a coroutine off its one callback: woken if its id is queued, waiting
  if not. Each action changes the life of one coroutine (`OneBecomes`), of those
  whose ids it queues (`QueuedWakes`, whose causes are there because the kernel reports
  what is ready and the heap what is due), or of none (`NobodyBecomes`).

`TcpBufferProofs` proves what the operations on a buffer do to its unread bytes,
for every size and content (`BlankAssumption`): growing keeps them
(`ResizeKeeps`), moving the read index drops some from the front, also when the
rest is moved to the front of the vector (`MoveReadDrops`, from `AdjustKeeps`
and `Split`), and receiving and writing append (`ReceiveAppends`,
`WriteAppends`). Each of them also says that the result is a buffer.

`TcpStreamProofs` proves, for any sizes of buffers, messages, reads and pieces
(`MessageAssumption`, `SizeAssumption`, `FrameAssumption`: a message is longer than its
START, length and END):

* `TypeCorrect`: `Spec => []TypeOK`, and `BytesIntact`: `Spec => []StreamIntact`, for
  both readers. The bytes taken, those in the read buffer, in the socket and in the write
  buffer are together what was written. `ByteInv` adds that both buffers are
  buffers, or the read buffer is overrun (`OneTooMany`, `DropOverrun`); each action
  moves a piece from the front of one sequence to the end of the next, which is one of
  the lemmas above. That what the server has taken has also become requests is
  not said here but by the next.
* `NoneDropped`: `Spec => []NoRequestDropped`. Until `cut`, all that the server has
  taken is whole messages that were decoded, and they are served in order, for any sizes and any number
  of messages that come together - `readme/todolist.md:227` fears that `decode` may
  leave some of these. The invariant `MessagesInv` says that what is consumed and what
  is written end where a message does (`Decoded`), that byte k of message m is where
  it should be (`WrittenInOrder`), that what is decoded follows what is served
  (`DecodedInOrder`), and that what is being decoded ends where a message does
  (`ComeWhole`, which is what `cut` would have noted). So `decode` finds a START, the
  whole length and an END of one message (`FirstMessage`, `DecodeTakesFirst`) as long as
  anything is left, and `DropRest` drops nothing. After a cut it is false.
* `OnlyRealEnds`: `Spec => []EndIsReal`, for both readers, cut or not: the reader
  that is told that nothing came is at the end. `EndInv` says that a buffer is rewound
  before a third of it has been read (`Roomy`), so that a full one has something to
  show, and that a call which has read something has something to show. What is in
  flight may be any number of messages (`InFlight`), for buffers of any size, so the
  buffers of both readers do get full.

`RpcClientProofs` proves `NullOnlyRobbed`: `Spec => []NullOnlyWhenRobbed`, for any
calls, channels, addresses, retries and disturbances (`NullAssumption`,
`ClientAssumption`). The property alone is not inductive. Its invariant says that a
call which is inside `CallMethodAsync` has a channel with a stream unless that
channel was closed under it (`Streams`), that a call makes a channel only when it
is not inside (`Placed`), and that a channel which is being made is nobody
else's (`MadeAlone`), so that the outcome of a connect changes no stream in use.
`DropKeeps` is the shared pointer: what a call holds is not closed with the last
reference of another.

It also proves `AnswerOwn`: `Spec => []AnswerIsOwn`, and `SuccessOnce`:
`Spec => []SuccessIsOnce`. The invariant, `Exchanges`, is about what is on its way
in a channel that is in step: nothing, or the request of its only user, or the
answer to that, or that answer in the buffer (`Orderly`, `OneUser`). A call that
has not failed has written one request at most (`WrittenOnce`) - `m_failed` is
never reset, so one that is repeated has failed for good. `Elsewhere` and
`OnStream` are what a step of one call leaves to the others; under them there is
one lemma for each action.

`TaskProofs` proves, for any frames:

* `TypeCorrect`, and `TimerAlive`: `Spec => []TimerFrameAlive`, whatever the program
  does, frames that are started twice or cancelled included. The invariant
  (`Timers`) says that the callback of a timer goes with its frame, however the
  frame ends.
* `QueuedRight`: `Careful` implies `Spec => []QueuedWhereSuspended`, and `VerdictTrue`:
  `Careful` implies `Spec => []VerdictIsTrue`. Both are false of programs that are
  not careful: a second start queues a frame that runs. The invariant relates each
  callback to where its frame is (`Queue`), each child to the parent that awaits it
  (`Tasks`, `Family`), and, for each `wait_for`, who came first of the task and the
  deadline to what is still queued (`Race`): the deadline that comes first
  schedules the parent once, and the task that returns later finds no
  continuation.

`RpcProviderProofs` proves, for any connections, workers, requests and
disturbances (`ConnAssumption`):

* `OwnedByOne`: `Spec => []OneOwner`. A connection is with the backlog, the accept
  loop, the channel of clients or one worker. The invariant says what is true
  of the accept loop and the workers at each of their places (`Types`, `Starts`,
  `Works`) and that those who hold a connection are different (`Owned`).
* `AnsweredInOrder`: `Spec => []AnswersInOrder`. The requests of a connection are, in
  order, those answered, those decoded, and those in the socket (`Asked`), and an
  answer is what `dispatch` returns for its request (`Told`). `Steps` reduces the
  actions to a few kinds; `AskedOfSent`, `AskedOfTaken`, `AskedOfAnswered` and
  `AskedOfEnded` are what each does to the three sequences.

`ZkClientProofs` proves `OnlySweptOrHasty`: `Spec => []OpsUsedAlive`, for any
threads, addresses and disturbances, without assumptions. The invariant says that
what is listed lives (`ListedAlive`), that an op deleted under its thread or its
notification was swept or its thread was hasty (`DeletedBy`), and that a thread
which was not swept has one request under way at most, waits for it, and has no
result before (`Awaited`). That one is about two queues, of requests and of
answers: `Flows` says that a step moves what is in them on, or drops it, and adds
nothing, and has a lemma for each way they change.

Every invariant and action property of the runs, and both refinements, are
theorems. Only model-checked is liveness under fairness (`CloseReleasesAll`,
`ReadyIoResumes`, `SleeperWakes`, `LoopEnds`, `ParentResumes`, `EveryRequestServed`,
`EveryCallEnds`, `EveryClientServed`, `WorkersEnd`, `WaitersWake`, `ListBecomesCurrent`),
which is beyond the prover, and the finding of `wait_for_deadline`, which is a
counterexample. So are ENABLED and induction over data; neither is needed.

## 6. What the models found

One of these has a run, `wait_for_deadline`: `accept(timeout)` without a client
does not end, since the awaited task is never cancelled; the test that asks for
it would hang.
The rest was met while modelling, and is in the models as the code has it.

*Channel.* `close` throws buffered items away (`channel.hpp:494`), where line 250
says that they can still be received. With two threads a receiver that passed
the `isActive` test parks after `close` has emptied the lists, and stays
(`:467`). `recv` serves parked writers before the buffer, so with a buffer an
item may overtake older ones. `send` on a closed channel returns normally and
drops its value, where `:55` documents an exception.

*Event loop.* `stop` only sets a flag: a loop blocked in `epoll_wait(-1)` does not
see it (`event_loop.cc:55`). `close` of a descriptor leaves its entry in
`m_event_map`; the next registration under the same number uses
`EPOLL_CTL_MOD`, fails, and the awaiter suspends all the same (`epoll.cc:49`,
`ioawaiter.hpp:48`). A cancelled sleep never resumes its coroutine, and its
charge keeps the loop alive (`timer.cc:45`). `call_soon` runs its callback in the
same round, where `event_loop.hpp:53` says the next; a second waiter for a
descriptor strands the first, which `readme/readme.md:98` calls intended.

*Tasks.* Scheduling a task twice, or awaiting one that was started, queues its
frame twice; cancelling a task whose child is alive leaves the child with the
address of a dead parent.

*Streams.* Messages that the socket cuts up are lost: `handleClient` drops what
`decode` has left (`rpc_provider.cc:351`, and `readme/todolist.md:227` says that
it should stay), `decode` reads lengths of which some bytes have not come, and
accepts an END one place behind the write index, a stale byte; then the read
index may pass the write index, or the program ends in `memmove`. `NoRequestDropped` and
`EveryRequestServed` therefore end with the first part of a message that is decoded
(`cut`). `readToBuffer` never grows a buffer of 4096 bytes or
more, so when more is in flight than fits the buffer itself cuts a message. `read(n)` waits for new bytes although unread ones are in
the buffer.

*RPC client.* The timeout of a call is its milliseconds divided by 1000
(`rpc_channel.inl:471`). An answer is never compared with the call's `msg_id`:
after a timeout the next call takes the late answer, and of two calls on one
channel one may take the other's; a reader that is displaced stays. `m_failed` is
never reset: a retry that succeeds is reported as a failure and its address is
not used again until the list changes, which with `connectDirect` is never. A
call whose first channel was null fails although the reconnection succeeded.
The channel of a retry may be null and is dereferenced
(`rpc_client_impl.cc:369`); a channel whose connection was refused is pooled; one
is pooled although its address has left the list.

*RPC server.* One failing `accept4` ends accepting for good. After `stop` the
`accept` that waits stays, where `rpc_provider.cc:464` says that its loop exits;
otherwise `start` goes on to a channel that was reset, or throws out of its
`send`. A worker about to receive finds a freed channel. A `stop` before `start`
has run is forgotten, and `m_started` is never reset. An exception of one method
drops the client's other requests. A connection accepted after the timeout is
closed unseen. `handleClient` declares `response` and `ctx` a second time in its
loop, so that it recycles nothing (`:347`).

*ZooKeeper.* When a session expires, or is closed with requests pending, the
operations are deleted under the threads that wait for them (`zkclient.cc:162`),
where line 151 says that they are marked as lost. A completion notifies after it
has released the mutex; a thread that sees `ready` by itself deletes the
operation, with its condition variable, under it (`:146`). A request that is listed when the session ends
is refused, and deleted twice (`:441`). `OpsUsedAlive` says that nothing else leads
to a use after deletion. After the first child event the
client asks for the list again and again, since each answer asks once more.
`setServiceWatcher` makes a task that is never scheduled (`rpc_provider.cc:647`);
the watch comes from the first `getChildren`. `disconnect` empties the list,
which a callback may fill again. A request blocks the thread of the loop.

## 7. Not modelled

* `EventloopPool`: a vector of loops and threads under a mutex; no program of the
  repository calls more of it than `init`. `stopAll` has the flaw of `stop`.
* `ObjectPool` and `RpcContext`: a vector under a mutex and a record of setters;
  an object is taken and put back at most once within one function.
* `scheduleOn` and `call_soon` from another thread.
* `TcpStream::readProtocolMessage`, which nothing calls; at the end of the stream
  it would not return.
* `RpcChannel::CallMethod`, `workerLoop` and `reconnect`: the worker that would
  empty the request queue is not started, as its line in `connect` is commented
  out, so a request that is queued is never sent.
* The fields within a TinyPB message, and sizes over which they overflow.
* A second `start` of ZkClient, which may find `m_connNotified` still set
  (`zkclient.cc:188`); watches of data, `ServiceDiscovery::discover` and the other
  queries that only read.
* Binding, address families, logging, concepts and exceptions, which keep no
  state.
