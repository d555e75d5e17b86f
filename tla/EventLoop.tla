----------------------------- MODULE EventLoop -----------------------------
(***************************************************************************)
(* One event loop (src/event_loop.cc) with the coroutines that wait in it: *)
(* for a descriptor (include/net/ioawaiter.hpp), for a timer               *)
(* (include/coro/sleep.hpp, src/timer.cc) or to be run for the first time  *)
(* (src/handle.cc).                                                        *)
(*                                                                         *)
(* The loop is one thread: between two steps of it only the peers of the   *)
(* descriptors, the clock and a stop() from another thread act.  A running *)
(* coroutine makes any calls it likes until it suspends or returns.        *)
(***************************************************************************)
EXTENDS Epoll, Sequences

CONSTANTS
    Coroutine,          \* coroutines of the program
    Nobody,             \* no coroutine
    MaxId,              \* bound on the wait ids given out
    MaxTime,            \* bound on the clock
    Sharing,            \* two coroutines may wait for the same thing
    Closing,            \* descriptors are closed while somebody waits
    CancellingSleep     \* SleepAwaiter::cancel() is called

ASSUME MaxIdAssumption == MaxId \in Nat \ {0}
ASSUME MaxTimeAssumption == MaxTime \in Nat
ASSUME NobodyAssumption == Nobody \notin Coroutine

VARIABLES
    nextId,     \* next_wait_id
    ready,      \* m_ready_queue
    callbacks,  \* m_wait_callback: which handle an id will resume
    coroWaits,  \* m_coro_waits, as a set of pairs of handle and id
    scheduled,  \* m_scheduled: a heap, here the set of its elements
    stop,       \* m_stop
    phase,      \* where run_once() is
    timeout,    \* its timeout for epoll_wait
    running,    \* the coroutine that is running
    co,         \* what each coroutine does or waits for
    waitId,     \* the wait id its awaiter remembers
    target,     \* the descriptor it waits for, or the time it sleeps until
    now,        \* the steady clock
    open        \* open descriptors

loopVars == <<nextId, ready, callbacks, coroWaits, scheduled, stop, phase,
              timeout, running, co, waitId, target, now, open>>
vars == <<loopVars, epollVars>>

\* A coroutine registers under its promise; a sleep under the Timer it owns.
Owner == {"promise", "timer"} \X Coroutine

Suspended == {"scheduled", "sleeping"} \cup Dir
State == {"new", "running", "done"} \cup Suspended

Phase == {"check", "ready1", "poll", "ready2", "expire", "exited"}

TypeOK ==
    /\ EpollTypeOK
    /\ nextId \in 1 .. MaxId
    /\ ready \in Seq(0 .. MaxId)
    /\ callbacks \subseteq [id : 0 .. MaxId, owner : Owner]
    /\ coroWaits \subseteq [id : 0 .. MaxId, owner : Owner]
    /\ scheduled \subseteq [id : 0 .. MaxId, when : Nat]
    /\ stop \in BOOLEAN
    /\ phase \in Phase
    /\ timeout \in {"zero", "finite", "infinite"}
    /\ running \in Coroutine \cup {Nobody}
    /\ co \in [Coroutine -> State]
    /\ \A c \in Coroutine : co[c] = "running" <=> c = running
    /\ waitId \in [Coroutine -> 0 .. MaxId]
    /\ target \in [Coroutine -> Fd \cup Nat]
    /\ now \in Nat
    /\ open \subseteq Fd

\* The program schedules its main coroutine and runs the loop; wait id 0, the
\* one that also means "none", is spent on that.
Init ==
    /\ EpollInit
    /\ nextId = 1
    /\ ready = <<0>>
    /\ \E c \in Coroutine :
         /\ callbacks = {[id |-> 0, owner |-> <<"promise", c>>]}
         /\ co = [d \in Coroutine |-> IF d = c THEN "scheduled" ELSE "new"]
    /\ coroWaits = callbacks
    /\ scheduled = {}
    /\ stop = FALSE
    /\ phase = "check"
    /\ timeout = "zero"
    /\ running = Nobody
    /\ waitId = [c \in Coroutine |-> NoWait]
    /\ target = [c \in Coroutine |-> 0]
    /\ now = 0
    /\ open = Fd

-----------------------------------------------------------------------------
\* Registering and cancelling: what the calls of the loop's interface have in
\* common.

\* The wait id is new, its callback and its owner are recorded.
Register(owner) ==
    /\ nextId < MaxId
    /\ nextId' = nextId + 1
    /\ callbacks' = callbacks \cup {[id |-> nextId, owner |-> owner]}
    /\ coroWaits' = coroWaits \cup {[id |-> nextId, owner |-> owner]}

\* Failed registration: the id is spent, the records are taken back.
RegisterFails ==
    /\ nextId < MaxId
    /\ nextId' = nextId + 1
    /\ UNCHANGED <<callbacks, coroWaits>>

WaitsOf(owner) == {w \in coroWaits : w.owner = owner}

\* Mutant: the callback stays.
CancelWaitsKeepCallbacks(ids) ==
    /\ scheduled' = {s \in scheduled : s.id \notin ids}
    /\ \/ \E id \in ids : /\ \E w \in waitToFd : w.id = id
                          /\ CancelWaiter(id)
       \/ /\ \A w \in waitToFd : w.id \notin ids
          /\ UNCHANGED <<eventMap, waitToFd, interest, registered, edge>>
    /\ UNCHANGED callbacks

\* The body of cancel_wait() for every id of a set.  In the states of this
\* module no more than one of them is known to epoll.
CancelWaits(ids) ==
    /\ callbacks' = {cb \in callbacks : cb.id \notin ids}
    /\ scheduled' = {s \in scheduled : s.id \notin ids}
    /\ \/ \E id \in ids : /\ \E w \in waitToFd : w.id = id
                          /\ CancelWaiter(id)
       \/ /\ \A w \in waitToFd : w.id \notin ids
          /\ UNCHANGED <<eventMap, waitToFd, interest, registered, edge>>

\* Mutant: cancel() leaves the ids charged to the handle.
KeepCharges(ws) == UNCHANGED coroWaits

Uncharge(ws) == coroWaits' = coroWaits \ ws

-----------------------------------------------------------------------------
\* run_once().

\* Mutant: descriptors and charges are forgotten.
IsStopByQueues == stop \/ (ready = <<>> /\ scheduled = {})

IsStop ==
    \/ stop
    \/ ready = <<>> /\ scheduled = {} /\ EpollIdle /\ coroWaits = {}

\* Mutant: the timers are forgotten.
TimeoutIgnoringTimers == IF ready # <<>> THEN "zero" ELSE "infinite"

Timeout ==
    IF ready # <<>> \/ \E s \in scheduled : s.when <= now THEN "zero"
    ELSE IF scheduled # {} THEN "finite" ELSE "infinite"

\* run_until_complete() tests is_stop() and run_once() fixes its timeout.
RunOnce ==
    /\ phase = "check"
    /\ \/ /\ IsStop
          /\ phase' = "exited"
          /\ UNCHANGED timeout
       \/ /\ ~IsStop
          /\ phase' = "ready1"
          /\ timeout' = Timeout
    /\ UNCHANGED <<nextId, ready, callbacks, coroWaits, scheduled, stop,
                   running, co, waitId, target, now, open, epollVars>>

\* The destructor of the awaiter that c leaves cancels its wait.
LeaveAwaiter(c) ==
    IF co[c] \in Dir /\ waitId[c] # NoWait
    THEN CancelWaiter(waitId[c])
    ELSE UNCHANGED <<eventMap, waitToFd, interest, registered, edge>>

\* execute_ready_callback(): one turn of its loop, the callback runs c.
ExecuteCallback ==
    /\ phase \in {"ready1", "ready2"}
    /\ running = Nobody
    /\ ready # <<>>
    /\ \E cb \in callbacks :
         LET c == cb.owner[2]
         IN  /\ cb.id = Head(ready)
             /\ callbacks' = callbacks \ {cb}
             /\ coroWaits' = coroWaits \ {cb}
             /\ running' = c
             /\ co' = [co EXCEPT ![c] = "running"]
             /\ LeaveAwaiter(c)
             /\ waitId' = [waitId EXCEPT ![c] = NoWait]
             /\ target' = [target EXCEPT ![c] = 0]
    /\ ready' = Tail(ready)
    /\ UNCHANGED <<nextId, scheduled, stop, phase, timeout, now,
                   open, level>>

\* The same for an id whose callback has been cancelled.
SkipCancelled ==
    /\ phase \in {"ready1", "ready2"}
    /\ running = Nobody
    /\ ready # <<>>
    /\ \A cb \in callbacks : cb.id # Head(ready)
    /\ ready' = Tail(ready)
    /\ UNCHANGED <<nextId, callbacks, coroWaits, scheduled, stop, phase,
                   timeout, running, co, waitId, target, now, open, epollVars>>

\* The queue is empty: the pass is over.
ReadyDone ==
    /\ phase \in {"ready1", "ready2"}
    /\ running = Nobody
    /\ ready = <<>>
    /\ phase' = IF phase = "ready1" THEN "poll" ELSE "expire"
    /\ UNCHANGED <<nextId, ready, callbacks, coroWaits, scheduled, stop,
                   timeout, running, co, waitId, target, now, open, epollVars>>

Orders(S) ==
    {f \in [1 .. Cardinality(S) -> S] :
        \A j, k \in 1 .. Cardinality(S) : f[j] = f[k] => j = k}

\* process_epoll_event(): epoll_wait returns because of an event, or because
\* its timeout has passed.  The timeout is cut down to milliseconds, so it may
\* pass before the first timer is due.
ProcessEpollEvent ==
    /\ phase = "poll"
    /\ timeout = "infinite" => Fired # {}
    /\ \E order \in Orders(FiredWaits) : ready' = ready \o order
    /\ ReportFired
    /\ phase' = "ready2"
    /\ UNCHANGED <<nextId, callbacks, coroWaits, scheduled, stop, timeout,
                   running, co, waitId, target, now, open>>

\* Mutant: a timer fires a tick early.
DueEarly == {s \in scheduled : s.when <= now + 1}

Due == {s \in scheduled : s.when <= now}

\* Mutant: the comparison of the heap is the wrong way round.
LatestFirst(order) ==
    \A j, k \in DOMAIN order : j < k => order[j].when >= order[k].when

EarliestFirst(order) ==
    \A j, k \in DOMAIN order : j < k => order[j].when <= order[k].when

\* process_expired_timeout(): the heap yields what is due, earliest first.
ProcessExpiredTimeout ==
    /\ phase = "expire"
    /\ \E order \in Orders(Due) :
         /\ EarliestFirst(order)
         /\ ready' = ready \o [k \in DOMAIN order |-> order[k].id]
    /\ scheduled' = scheduled \ Due
    /\ phase' = "check"
    /\ UNCHANGED <<nextId, callbacks, coroWaits, stop, timeout, running, co,
                   waitId, target, now, open, epollVars>>

-----------------------------------------------------------------------------
\* What the running coroutine does.

\* CoroHandle::schedule() of a new coroutine, call_soon().
Schedule(d) ==
    /\ running # Nobody
    /\ co[d] = "new"
    /\ Register(<<"promise", d>>)
    /\ ready' = Append(ready, nextId)
    /\ co' = [co EXCEPT ![d] = "scheduled"]
    /\ UNCHANGED <<scheduled, stop, phase, timeout, running, waitId, target,
                   now, open, epollVars>>

\* A read or write waits once the call has returned EAGAIN, that is, when the
\* descriptor is drained; accept() and connect() wait without a try.
Drain(fd, d) ==
    \/ UNCHANGED level
    \/ level' = [level EXCEPT ![fd] = @ \ {d}]

\* co_await ReadAwaiter{fd} or WriteAwaiter{fd}.  When the registration fails
\* the awaiter keeps wait id 0, and the coroutine is suspended all the same.
AwaitIo(fd, d) ==
    /\ running # Nobody
    /\ fd \in open
    /\ Sharing \/ \A c \in Coroutine : ~(co[c] = d /\ target[c] = fd)
    /\ Drain(fd, d)
    /\ \/ /\ CtlWorks(fd, open)
          /\ Register(<<"promise", running>>)
          /\ AddWaiter(fd, d, nextId)
          /\ waitId' = [waitId EXCEPT ![running] = nextId]
       \/ /\ ~CtlWorks(fd, open)
          /\ RegisterFails
          /\ AddWaiterFails(fd, d, nextId)
          /\ waitId' = [waitId EXCEPT ![running] = NoWait]
    /\ co' = [co EXCEPT ![running] = d]
    /\ target' = [target EXCEPT ![running] = fd]
    /\ running' = Nobody
    /\ UNCHANGED <<ready, scheduled, stop, phase, timeout, now, open>>

\* co_await SleepAwaiter: Timer::start(), call_at().
Sleep(delay) ==
    LET when == now + delay
    IN  /\ running # Nobody
        /\ when <= MaxTime
        /\ Register(<<"timer", running>>)
        /\ scheduled' = scheduled \cup {[id |-> nextId, when |-> when]}
        /\ waitId' = [waitId EXCEPT ![running] = nextId]
        /\ target' = [target EXCEPT ![running] = when]
        /\ co' = [co EXCEPT ![running] = "sleeping"]
        /\ running' = Nobody
        /\ UNCHANGED <<ready, stop, phase, timeout, now, open,
                       epollVars>>

\* Task::cancel() of a suspended coroutine: the loop cancels what the promise
\* waits for, and destroying the frame runs the destructors of the awaiter
\* (cancel_wait() of its wait id) and of the Timer (cancel() of its handle).
Destroy(d) ==
    LET mine == WaitsOf(<<"promise", d>>) \cup WaitsOf(<<"timer", d>>)
    IN  /\ running # Nobody
        /\ co[d] \in Suspended
        /\ CancelWaits({w.id : w \in mine})
        /\ Uncharge(mine)
        /\ co' = [co EXCEPT ![d] = "done"]
        /\ waitId' = [waitId EXCEPT ![d] = NoWait]
        /\ target' = [target EXCEPT ![d] = 0]
        /\ UNCHANGED <<nextId, ready, stop, phase, timeout, running, now, open,
                       level>>

\* SleepAwaiter::cancel(): Timer::cancel(), cancel_wait().
CancelSleep(d) ==
    /\ CancellingSleep
    /\ running # Nobody
    /\ co[d] = "sleeping"
    /\ waitId[d] # NoWait
    /\ CancelWaits({waitId[d]})
    /\ waitId' = [waitId EXCEPT ![d] = NoWait]
    /\ UNCHANGED <<nextId, ready, coroWaits, stop, phase, timeout, running, co,
                   target, now, open, level>>

\* TcpStream::close() and others: the descriptor goes, the loop is not told.
Close(fd) ==
    /\ Closing
    /\ running # Nobody
    /\ fd \in open
    /\ CloseFd(fd)
    /\ open' = open \ {fd}
    /\ UNCHANGED <<nextId, ready, callbacks, coroWaits, scheduled, stop, phase,
                   timeout, running, co, waitId, target, now>>

\* A new socket gets the number of a closed one.
Reopen(fd) ==
    /\ running # Nobody
    /\ fd \notin open
    /\ open' = open \cup {fd}
    /\ UNCHANGED <<nextId, ready, callbacks, coroWaits, scheduled, stop, phase,
                   timeout, running, co, waitId, target, now,
                   epollVars>>

\* Mutant: the frame is left behind as if it ran.
ReturnStillRunning ==
    /\ running # Nobody
    /\ running' = Nobody
    /\ UNCHANGED <<nextId, ready, callbacks, coroWaits, scheduled, stop, phase,
                   timeout, co, waitId, target, now, open, epollVars>>

\* The coroutine ends at its final suspension; it has no parent to queue.
Return ==
    /\ running # Nobody
    /\ co' = [co EXCEPT ![running] = "done"]
    /\ running' = Nobody
    /\ UNCHANGED <<nextId, ready, callbacks, coroWaits, scheduled, stop, phase,
                   timeout, waitId, target, now, open, epollVars>>

-----------------------------------------------------------------------------
\* What happens around the loop.

Peer(fd, d) ==
    /\ fd \in open
    /\ Arrive(fd, d)
    /\ UNCHANGED loopVars

Tick ==
    /\ now < MaxTime
    /\ now' = now + 1
    /\ UNCHANGED <<nextId, ready, callbacks, coroWaits, scheduled, stop, phase,
                   timeout, running, co, waitId, target, open,
                   epollVars>>

\* Eventloop::stop(), from any thread.
Stop ==
    /\ ~stop
    /\ stop' = TRUE
    /\ UNCHANGED <<nextId, ready, callbacks, coroWaits, scheduled, phase,
                   timeout, running, co, waitId, target, now, open, epollVars>>

-----------------------------------------------------------------------------
LoopStep ==
    \/ RunOnce \/ ExecuteCallback \/ SkipCancelled \/ ReadyDone
    \/ ProcessEpollEvent \/ ProcessExpiredTimeout

CoroutineStep ==
    \/ \E d \in Coroutine : Schedule(d) \/ Destroy(d) \/ CancelSleep(d)
    \/ \E fd \in Fd, d \in Dir : AwaitIo(fd, d)
    \/ \E fd \in Fd : Close(fd) \/ Reopen(fd)
    \/ \E delay \in 0 .. MaxTime : Sleep(delay)
    \/ Return

Around ==
    \/ \E fd \in Fd, d \in Dir : Peer(fd, d)
    \/ Tick
    \/ Stop

Next == LoopStep \/ CoroutineStep \/ Around

Spec == Init /\ [][Next]_vars

\* The thread of the loop runs, coroutines do not run for ever (MaxId bounds
\* the calls they make), and the clock goes on.
FairSpec ==
    Spec /\ WF_vars(LoopStep) /\ WF_vars(CoroutineStep) /\ WF_vars(Tick)

-----------------------------------------------------------------------------
\* Properties.

\* The books of the loop agree: an id is charged to a handle exactly as long as
\* its callback is there.  Six operations keep the two maps, and is_stop()
\* never becomes true if a charge stays behind.
WaitsMatchCallbacks == coroWaits = callbacks

\* A destroyed or finished coroutine has no callback left: running one would
\* resume a freed frame.  Whatever the order of cancelling and expiring is.
NoCallbackForDeadFrame ==
    \A cb \in callbacks : co[cb.owner[2]] \in Suspended

\* Whatever the program does to descriptors and sleeps, a coroutine has at most
\* one callback, and an awaiter that has one knows its id: its destructor can
\* take the callback back before the frame is gone.
AwaiterKnowsItsWait ==
    /\ \A a, b \in callbacks : a.owner[2] = b.owner[2] => a = b
    /\ \A cb \in callbacks :
         co[cb.owner[2]] # "scheduled" => cb.id = waitId[cb.owner[2]]

\* Where the wake-up of a suspended coroutine comes from.
HasSource(c, cb) ==
    LET queued == cb.id \in {ready[k] : k \in 1 .. Len(ready)}
    IN  \/ co[c] = "scheduled" /\ queued
        \/ /\ co[c] = "sleeping"
           /\ queued \/ [id |-> cb.id, when |-> target[c]] \in scheduled
        \/ /\ co[c] \in Dir
           /\ cb.id = waitId[c]
           /\ eventMap[target[c]].wait[co[c]] = cb.id

\* A suspended coroutine can always be woken: it has one callback, and the id
\* of that is queued, on the heap, or in the entry of its descriptor.  Needs
\* that nobody shares or closes descriptors and no sleep is cancelled.
SuspendedCanBeWoken ==
    \A c \in Coroutine : co[c] \in Suspended =>
        /\ Cardinality({cb \in callbacks : cb.owner[2] = c}) = 1
        /\ \A cb \in callbacks : cb.owner[2] = c => HasSource(c, cb)

\* No readiness is lost by edge triggering, although entries are modified and
\* dropped all the time: while somebody waits for a descriptor that is ready,
\* the kernel still has the news or the wait id is queued.
NoLostEdge ==
    \A c \in Coroutine : co[c] \in Dir /\ co[c] \in level[target[c]] =>
        \/ target[c] \in Fired
        \/ waitId[c] \in {ready[k] : k \in 1 .. Len(ready)}

\* run_until_complete() does not give up on a coroutine: unless it was told to
\* stop, it returns only when nothing is suspended in the loop.
ExitOnlyWhenIdle ==
    phase = "exited" /\ ~stop =>
        \A c \in Coroutine : co[c] \notin Suspended

\* A coroutine wakes from a sleep only when no other one still sleeps towards
\* an earlier time, across iterations and late starters.
TimersInOrder ==
    [][\A c, d \in Coroutine :
         co[c] = "sleeping" /\ co'[c] = "running" /\ co[d] = "sleeping"
             => target[c] <= target[d]]_vars

\* Whoever waits for a descriptor that is ready is resumed, unless the loop is
\* stopped - however entries are modified and dropped meanwhile.
ReadyIoResumes ==
    \A c \in Coroutine :
        co[c] \in Dir /\ co[c] \in level[target[c]]
            ~> co[c] \notin Dir \/ stop

\* Whoever sleeps wakes up, unless the loop is stopped: it never blocks in
\* epoll_wait() beyond a deadline.
SleeperWakes ==
    \A c \in Coroutine :
        co[c] = "sleeping" ~> co[c] # "sleeping" \/ stop

\* The loop ends when all coroutines have: no charge and no descriptor of theirs
\* is left to keep is_stop() false.
LoopEnds ==
    (\A c \in Coroutine : co[c] = "done") ~> phase = "exited"

-----------------------------------------------------------------------------
\* The loop as what it promises: see Wakeups.

Queued(c) ==
    \E k \in 1 .. Len(ready), cb \in callbacks :
        cb.id = ready[k] /\ cb.owner[2] = c

Life(c) ==
    CASE co[c] \in {"new", "running", "done"} -> co[c]
      [] co[c] \in Suspended /\ Queued(c)     -> "woken"
      [] OTHER                                -> "waiting"

CauseIsThere(c) ==
    \/ co[c] = "sleeping" /\ target[c] <= now
    \/ co[c] \in Dir /\ co[c] \in level[target[c]]

Loop == INSTANCE Wakeups WITH
            life <- [c \in Coroutine |-> Life(c)],
            due  <- {c \in Coroutine : CauseIsThere(c)}

\* The loop implements wake-ups.
ImplementsWakeups == Loop!WakeupsSpec
=============================================================================
