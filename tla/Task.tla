-------------------------------- MODULE Task --------------------------------
(***************************************************************************)
(* Coroutine frames as tasks (include/coro/task.hpp, src/handle.cc): they  *)
(* are started, awaited by a parent, end at their final suspension, are    *)
(* cancelled; and wait_for() (include/coro/wait_for.hpp), which lets a     *)
(* timer (src/timer.cc) race a child.  Of the loop only the ready queue    *)
(* matters here; what wakes I/O and timers is in EventLoop.                *)
(***************************************************************************)
EXTENDS Naturals, Sequences, FiniteSets

CONSTANTS
    Frame,      \* coroutine frames
    Main,       \* the frame that the program schedules first
    Waiter,     \* the frames whose body is wait_for()
    NoFrame,    \* a null handle
    Careful     \* tasks are started once, and not cancelled above a child

ASSUME FrameAssumption ==
    Main \in Frame /\ Waiter \subseteq Frame \ {Main} /\ NoFrame \notin Frame

VARIABLES
    at,         \* where each frame is
    state,      \* m_state of its promise
    parent,     \* m_parent
    child,      \* the frame it awaits, or did last; the task of a wait_for()
    result,     \* m_result
    ready,      \* callbacks queued in the loop: of frames and of timers
    running,    \* the frame that runs
    timer,      \* the Timer of a wait_for()
    fired,      \* its flag timeout_fired
    verdict,    \* what it returned, if it has
    first       \* history: whether the child or the timer came first

vars == <<at, state, parent, child, result, ready, running, timer, fired,
          verdict, first>>
frameVars == <<at, state, parent, child, result>>
waitVars == <<timer, fired, verdict, first>>

Verdict == [ok : BOOLEAN, isTimeout : BOOLEAN]

\* An id in the ready queue whose callback has been cancelled.
Dropped == <<"dropped", NoFrame>>

Entry == {"frame", "timer"} \X Frame \cup {Dropped}

TypeOK ==
    /\ at \in [Frame -> {"initial", "running", "child", "io", "final", "gone"}]
    /\ state \in [Frame -> {"UNSCHEDULE", "SCHEDULE", "SUSPEND"}]
    /\ parent \in [Frame -> Frame \cup {NoFrame}]
    /\ child \in [Frame -> Frame \cup {NoFrame}]
    /\ result \in [Frame -> {"none", "value", "exception"}]
    /\ ready \in Seq(Entry)
    /\ running \in Frame \cup {NoFrame}
    /\ \A f \in Frame : at[f] = "running" <=> running = f
    /\ timer \in [Waiter -> {"unborn", "armed", "queued", "over"}]
    /\ fired \in [Waiter -> BOOLEAN]
    /\ verdict \in [Waiter -> SUBSET Verdict]
    /\ first \in [Waiter -> {"none", "child", "timer"}]

Init ==
    /\ at = [f \in Frame |-> "initial"]
    /\ state = [f \in Frame |-> "UNSCHEDULE"]
    /\ parent = [f \in Frame |-> NoFrame]
    /\ \E task \in [Waiter -> Frame \ (Waiter \cup {Main})] :
         /\ \A v, w \in Waiter : task[v] = task[w] => v = w
         /\ child = [f \in Frame |-> IF f \in Waiter THEN task[f] ELSE NoFrame]
    /\ result = [f \in Frame |-> "none"]
    /\ ready = <<<<"frame", Main>>>>
    /\ running = NoFrame
    /\ timer = [w \in Waiter |-> "unborn"]
    /\ fired = [w \in Waiter |-> FALSE]
    /\ verdict = [w \in Waiter |-> {}]
    /\ first = [w \in Waiter |-> "none"]

Queued(entry) == \E k \in DOMAIN ready : ready[k] = entry

\* The ids of cancelled callbacks stay in the queue.
Without(entries) ==
    [k \in DOMAIN ready |->
        IF ready[k] \in entries THEN Dropped ELSE ready[k]]

\* The task was moved into a wait_for() that has not run yet.
Reserved(f) == \E w \in Waiter : timer[w] = "unborn" /\ child[w] = f

\* What a program that keeps to the rules starts or awaits: a new task of its.
Fresh(f) ==
    /\ at[f] = "initial"
    /\ ~Queued(<<"frame", f>>)
    /\ ~Reserved(f)

-----------------------------------------------------------------------------
\* The loop.

\* A callback of a frame resumes it where it is suspended.
Run ==
    /\ running = NoFrame
    /\ ready # <<>> /\ Head(ready)[1] = "frame"
    /\ LET f == Head(ready)[2]
       IN  running' = f /\ at' = [at EXCEPT ![f] = "running"]
    /\ ready' = Tail(ready)
    /\ UNCHANGED <<state, parent, child, result, waitVars>>

\* A Timer runs its callback, which tests completed.
RunTimer ==
    /\ running = NoFrame
    /\ ready # <<>> /\ Head(ready)[1] = "timer"
    /\ LET w == Head(ready)[2]
       IN  /\ timer' = [timer EXCEPT ![w] = "over"]
           /\ fired' = [fired EXCEPT ![w] = @ \/ verdict[w] = {}]
    /\ ready' = Tail(ready)
    /\ UNCHANGED <<frameVars, running, verdict, first>>

\* An id without a callback is passed over.
Skip ==
    /\ running = NoFrame
    /\ ready # <<>> /\ Head(ready) = Dropped
    /\ ready' = Tail(ready)
    /\ UNCHANGED <<frameVars, running, waitVars>>

\* The deadline of a timer passes: its callback is queued.
Expire(w) ==
    /\ timer[w] = "armed"
    /\ timer' = [timer EXCEPT ![w] = "queued"]
    /\ ready' = Append(ready, <<"timer", w>>)
    /\ first' = [first EXCEPT ![w] = IF @ = "none" THEN "timer" ELSE @]
    /\ UNCHANGED <<frameVars, running, fired, verdict>>

\* What a frame waits for outside arrives.
Wake(f) ==
    /\ at[f] = "io"
    /\ ~Queued(<<"frame", f>>)
    /\ ready' = Append(ready, <<"frame", f>>)
    /\ UNCHANGED <<frameVars, running, waitVars>>

-----------------------------------------------------------------------------
\* What the running frame does.

\* Mutant: the state is not looked at.
ScheduledAlways(f) == Append(ready, <<"frame", f>>)

\* CoroHandle::schedule() tests the state and leaves it as it is.
Scheduled(f) ==
    IF state[f] = "UNSCHEDULE" THEN Append(ready, <<"frame", f>>) ELSE ready

\* Task::schedule().
Start(f) ==
    /\ running \notin Waiter \cup {NoFrame}
    /\ at[f] \notin {"gone", "running", "final"}
    /\ Careful => Fresh(f)
    /\ ready' = Scheduled(f)
    /\ UNCHANGED <<frameVars, running, waitVars>>

\* A task that has awaited a child is no longer UNSCHEDULE: it may be awaited
\* although it has been started.
MayAwait(f) == Fresh(f) \/ state[f] # "UNSCHEDULE"

\* AwaiterBase::await_suspend(): r is suspended, f gets a parent and is queued.
Suspend(r, f) ==
    /\ at[f] \notin {"running", "final", "gone"}
    /\ parent[f] = NoFrame
    /\ at' = [at EXCEPT ![r] = "child"]
    /\ state' = [state EXCEPT ![r] = "SUSPEND"]
    /\ child' = [child EXCEPT ![r] = f]
    /\ parent' = [parent EXCEPT ![f] = r]
    /\ running' = NoFrame
    /\ ready' = Scheduled(f)
    /\ UNCHANGED result

\* co_await of a task.  One that is done is ready at once.
Await(f) ==
    /\ running \notin Waiter \cup {NoFrame}
    /\ Careful => MayAwait(f)
    /\ Suspend(running, f)
    /\ UNCHANGED waitVars

\* co_await of an awaiter of I/O or time, which leaves the state alone.
AwaitIo ==
    /\ running \notin Waiter \cup {NoFrame}
    /\ at' = [at EXCEPT ![running] = "io"]
    /\ running' = NoFrame
    /\ UNCHANGED <<state, parent, child, result, ready, waitVars>>

\* wait_for() starts its timer and awaits its task.
WaitFor ==
    /\ running \in Waiter
    /\ timer[running] = "unborn"
    /\ timer' = [timer EXCEPT ![running] = "armed"]
    /\ Suspend(running, child[running])
    /\ UNCHANGED <<fired, verdict, first>>

\* Mutant: the parent is queued in front.
FinalSuspendInFront(f) ==
    LET p == parent[f]
    IN  IF p = NoFrame
        THEN UNCHANGED <<state, ready>>
        ELSE /\ state' = [state EXCEPT ![p] = "SCHEDULE"]
             /\ ready' = <<<<"frame", p>>>> \o ready

\* Mutant: a parent is resumed by its state alone.
FinalSuspendBySchedule(f) ==
    /\ UNCHANGED state
    /\ ready' = IF parent[f] = NoFrame THEN ready ELSE Scheduled(parent[f])

\* FinalAwaiter::await_suspend(): the parent is queued by its address.
FinalSuspend(f) ==
    LET p == parent[f]
    IN  IF p = NoFrame
        THEN UNCHANGED <<state, ready>>
        ELSE /\ state' = [state EXCEPT ![p] = "SCHEDULE"]
             /\ ready' = Append(ready, <<"frame", p>>)

\* co_return or an exception that leaves the body.
Return(outcome) ==
    /\ running \notin Waiter \cup {NoFrame}
    /\ result' = [result EXCEPT ![running] = outcome]
    /\ at' = [at EXCEPT ![running] = "final"]
    /\ FinalSuspend(running)
    /\ first' = [w \in Waiter |->
                    IF first[w] = "none" /\ child[w] = running
                    THEN "child" ELSE first[w]]
    /\ running' = NoFrame
    /\ UNCHANGED <<parent, child, timer, fired, verdict>>

\* Timer::abort(): a queued callback is dropped with its registration.
Abort(w) == timer' = [timer EXCEPT ![w] = "over"]

\* wait_for() goes on after its task: the exception is swallowed.
WaitForReturns ==
    LET w == running
        v == [ok |-> result[child[w]] = "value", isTimeout |-> fired[w]]
    IN  /\ w \in Waiter
        /\ timer[w] # "unborn"
        /\ Abort(w)
        /\ verdict' = [verdict EXCEPT ![w] = {v}]
        /\ result' = [result EXCEPT ![w] = "value"]
        /\ at' = [at EXCEPT ![w] = "final"]
        /\ IF parent[w] = NoFrame
           THEN ready' = Without({<<"timer", w>>}) /\ UNCHANGED state
           ELSE /\ state' = [state EXCEPT ![parent[w]] = "SCHEDULE"]
                /\ ready' = Append(Without({<<"timer", w>>}),
                                   <<"frame", parent[w]>>)
        /\ running' = NoFrame
        /\ UNCHANGED <<parent, child, fired, first>>

\* Mutant: destroying the frame leaves its queued callback behind.
CallbacksOfPromise(f) == {<<"frame", f>>}

\* What the loop drops with the frame: cancel() of its promise's id and, as the
\* destructors run, of the Timer it owns.
CallbacksOf(f) == {<<"frame", f>>, <<"timer", f>>}

\* A child keeps the address of its parent.
MayCancel(f) ==
    /\ at[f] = "child" => at[child[f]] = "gone"
    /\ ~Reserved(f)

\* Task::cancel(): nothing is told to the parent, or to a child.
Cancel(f) ==
    /\ running # NoFrame
    /\ at[f] \in {"initial", "io", "child"}
    /\ Careful => MayCancel(f)
    /\ at' = [at EXCEPT ![f] = "gone"]
    /\ ready' = Without(CallbacksOf(f))
    /\ timer' = IF f \in Waiter THEN [timer EXCEPT ![f] = "over"] ELSE timer
    /\ UNCHANGED <<state, parent, child, result, running, fired, verdict, first>>

-----------------------------------------------------------------------------
LoopStep == Run \/ RunTimer \/ Skip

FrameStep ==
    \/ \E f \in Frame : Start(f) \/ Await(f) \/ Cancel(f)
    \/ \E outcome \in {"value", "exception"} : Return(outcome)
    \/ AwaitIo
    \/ WaitFor \/ WaitForReturns

Next ==
    \/ LoopStep
    \/ FrameStep
    \/ \E w \in Waiter : Expire(w)
    \/ \E f \in Frame : Wake(f)

Spec == Init /\ [][Next]_vars

\* The thread of the loop runs, a running frame suspends or ends, and clocks go
\* on; what a frame waits for outside may never come.
FairSpec ==
    /\ Spec
    /\ WF_vars(LoopStep)
    /\ WF_vars(FrameStep)
    /\ \A w \in Waiter : WF_vars(Expire(w))

-----------------------------------------------------------------------------
\* Properties.

\* A frame is queued at most once, and only where resuming it is right: before
\* its start, at its I/O, or behind a child that has ended with a result.
\* schedule(), three awaiters and the final suspension all queue frames, and a
\* frame resumed in any other place would run with a wrong or freed awaiter.
QueuedWhereSuspended ==
    \A j, k \in DOMAIN ready : ready[j][1] = "frame" =>
        LET f == ready[j][2]
        IN  /\ ready[j] = ready[k] => j = k
            /\ \/ at[f] \in {"initial", "io"}
               \/ /\ at[f] = "child"
                  /\ at[child[f]] = "final" /\ result[child[f]] # "none"

\* The callback of a timer writes locals of wait_for(): whatever is cancelled
\* and whenever the timer expires, that frame has not ended or been destroyed.
TimerFrameAlive ==
    \A w \in Waiter :
        timer[w] \in {"armed", "queued"} \/ Queued(<<"timer", w>>) =>
            at[w] \in {"child", "running"} /\ verdict[w] = {}

\* wait_for() reports a timeout exactly if its deadline passed before the child
\* ended - although neither looks at a clock: it rests on the order of the
\* callbacks in the ready queue.  And it is ok exactly if the child returned.
VerdictIsTrue ==
    \A w \in Waiter : \A v \in verdict[w] :
        /\ v.isTimeout <=> first[w] = "timer"
        /\ v.ok <=> result[child[w]] = "value"

\* A child that ends resumes its parent, unless that is cancelled.
ParentResumes ==
    \A p \in Frame :
        at[p] = "child" /\ at[child[p]] = "final" ~> at[p] # "child"

-----------------------------------------------------------------------------
\* What a test says: wait_for() is over soon after its deadline (accept(50ms)
\* without a client throws within 500 ms).
WaitForEndsAtDeadline ==
    \A w \in Waiter :
        at[w] = "child" /\ fired[w] ~> at[w] # "child"
=============================================================================
