-------------------------- MODULE EventLoopProofs --------------------------
(***************************************************************************)
(* Theorems about EventLoop, for every number of coroutines, descriptors   *)
(* and wait ids.                                                           *)
(***************************************************************************)
EXTENDS EventLoop, SequenceTheorems, FiniteSetTheorems, TLAPS

\* The variables that say who waits with which id.
frameVars == <<nextId, callbacks, coroWaits, running, co, waitId>>

FrameTypeOK ==
    /\ nextId \in Nat \ {0}
    /\ callbacks \subseteq [id : Nat, owner : Owner]
    /\ coroWaits \subseteq [id : Nat, owner : Owner]
    /\ running \in Coroutine \cup {Nobody}
    /\ co \in [Coroutine -> State]
    /\ waitId \in [Coroutine -> Nat]
    /\ \A c \in Coroutine : co[c] = "running" <=> c = running

\* Ids are new, so no two callbacks share one; every callback is charged to
\* its handle, so that cancelling the handle finds it.
IdsAreOwned ==
    /\ \A a, b \in callbacks : a.id = b.id => a = b
    /\ \A cb \in callbacks : cb.id < nextId
    /\ callbacks \subseteq coroWaits

FrameInv ==
    FrameTypeOK /\ IdsAreOwned /\ NoCallbackForDeadFrame /\ AwaiterKnowsItsWait

LEMMA InitFrameInv == Init => FrameInv
<1> SUFFICES ASSUME Init PROVE FrameInv
  OBVIOUS
<1>1. PICK c \in Coroutine :
        /\ callbacks = {[id |-> 0, owner |-> <<"promise", c>>]}
        /\ co = [d \in Coroutine |-> IF d = c THEN "scheduled" ELSE "new"]
  BY DEF Init
<1>2. FrameTypeOK
  BY <1>1, NobodyAssumption
  DEF Init, FrameTypeOK, Owner, State, Suspended, NoWait
<1>3. IdsAreOwned /\ NoCallbackForDeadFrame /\ AwaiterKnowsItsWait
  BY <1>1
  DEF Init, IdsAreOwned, NoCallbackForDeadFrame, AwaiterKnowsItsWait, Suspended
<1>. QED  BY <1>2, <1>3 DEF FrameInv

LEMMA OwnerType ==
    ASSUME FrameInv, NEW w \in coroWaits
    PROVE  /\ w.id \in Nat
           /\ w.owner \in Owner
           /\ w.owner[2] \in Coroutine
           /\ w.owner = <<"promise", w.owner[2]>> \/ w.owner = <<"timer", w.owner[2]>>
  BY DEF FrameInv, FrameTypeOK, Owner

\* A coroutine that is not suspended has no callback and may get one: under
\* the next id, with its awaiter told of it unless it is merely scheduled.
LEMMA RegisterInv ==
    ASSUME FrameInv,
           NEW c \in Coroutine, co[c] \notin Suspended,
           NEW owner \in {<<"promise", c>>, <<"timer", c>>},
           Register(owner),
           NEW st \in Suspended, co' = [co EXCEPT ![c] = st],
           \/ st = "scheduled" /\ waitId' = waitId /\ co[c] # "running"
                               /\ running' = running
           \/ waitId' = [waitId EXCEPT ![c] = nextId] /\ c = running
                               /\ running' = Nobody
    PROVE  FrameInv'
<1> DEFINE new == [id |-> nextId, owner |-> owner]
<1>1. /\ owner \in Owner /\ owner[2] = c
      /\ nextId \in Nat /\ nextId' = nextId + 1
      /\ new \in [id : Nat, owner : Owner] /\ new.id = nextId /\ new.owner = owner
  BY DEF Owner, Register, FrameInv, FrameTypeOK
<1>2. callbacks' = callbacks \cup {new} /\ coroWaits' = coroWaits \cup {new}
  BY DEF Register
<1>3. \A cb \in callbacks : cb.owner[2] # c /\ cb.owner[2] \in Coroutine
  BY OwnerType DEF FrameInv, NoCallbackForDeadFrame, IdsAreOwned
<1>4. FrameTypeOK'
  <2>1. nextId' \in Nat \ {0} /\ waitId' \in [Coroutine -> Nat]
    BY <1>1 DEF FrameInv, FrameTypeOK
  <2>2. /\ callbacks' \subseteq [id : Nat, owner : Owner]
        /\ coroWaits' \subseteq [id : Nat, owner : Owner]
    BY <1>1, <1>2 DEF FrameInv, FrameTypeOK
  <2>3. running' \in Coroutine \cup {Nobody} /\ co' \in [Coroutine -> State]
    BY DEF FrameInv, FrameTypeOK, State
  <2>4. \A d \in Coroutine : co'[d] = "running" <=> d = running'
    BY NobodyAssumption DEF FrameInv, FrameTypeOK, Suspended, Dir
  <2>. QED  BY <2>1, <2>2, <2>3, <2>4 DEF FrameTypeOK
<1>5. IdsAreOwned'
  BY <1>1, <1>2, OwnerType DEF FrameInv, IdsAreOwned
<1>6. NoCallbackForDeadFrame'
  BY <1>1, <1>2, <1>3 DEF FrameInv, FrameTypeOK, NoCallbackForDeadFrame
<1>7. AwaiterKnowsItsWait'
  BY <1>1, <1>2, <1>3 DEF FrameInv, FrameTypeOK, AwaiterKnowsItsWait
<1>. QED  BY <1>4, <1>5, <1>6, <1>7 DEF FrameInv

\* Calling a callback takes it back, with its charge, before the frame runs.
LEMMA ExecuteCallbackInv == FrameInv /\ ExecuteCallback => FrameInv'
<1> SUFFICES ASSUME FrameInv, ExecuteCallback PROVE FrameInv'
  OBVIOUS
<1>1. PICK cb \in callbacks :
        /\ callbacks' = callbacks \ {cb}
        /\ coroWaits' = coroWaits \ {cb}
        /\ running' = cb.owner[2]
        /\ co' = [co EXCEPT ![cb.owner[2]] = "running"]
        /\ waitId' = [waitId EXCEPT ![cb.owner[2]] = NoWait]
  BY DEF ExecuteCallback
<1> DEFINE c == cb.owner[2]
<1>2. c \in Coroutine /\ running = Nobody /\ nextId' = nextId
  BY OwnerType DEF ExecuteCallback, FrameInv, IdsAreOwned
<1>3. \A other \in callbacks' : other.owner[2] # c /\ other.owner[2] \in Coroutine
  BY <1>1, OwnerType DEF FrameInv, AwaiterKnowsItsWait, IdsAreOwned
<1>4. FrameTypeOK'
  BY <1>1, <1>2, NobodyAssumption
  DEF FrameInv, FrameTypeOK, State, NoWait
<1>5. IdsAreOwned'
  BY <1>1, <1>2 DEF FrameInv, IdsAreOwned
<1>6. NoCallbackForDeadFrame'
  BY <1>1, <1>3 DEF FrameInv, FrameTypeOK, NoCallbackForDeadFrame
<1>7. AwaiterKnowsItsWait'
  BY <1>1, <1>3 DEF FrameInv, FrameTypeOK, AwaiterKnowsItsWait
<1>. QED  BY <1>4, <1>5, <1>6, <1>7 DEF FrameInv

\* Cancelling every id charged to a coroutine leaves it without a callback.
LEMMA DestroyInv ==
    ASSUME FrameInv, NEW d \in Coroutine, Destroy(d)
    PROVE  FrameInv'
<1> DEFINE mine == WaitsOf(<<"promise", d>>) \cup WaitsOf(<<"timer", d>>)
<1>1. /\ callbacks' = {cb \in callbacks : cb.id \notin {w.id : w \in mine}}
      /\ coroWaits' = coroWaits \ mine
      /\ co' = [co EXCEPT ![d] = "done"]
      /\ waitId' = [waitId EXCEPT ![d] = NoWait]
      /\ nextId' = nextId /\ running' = running
      /\ co[d] \in Suspended
  BY DEF Destroy, CancelWaits, Uncharge
<1>2. \A cb \in callbacks' : cb \in callbacks /\ cb \in coroWaits'
                             /\ cb.owner[2] # d /\ cb.owner[2] \in Coroutine
  <2> SUFFICES ASSUME NEW cb \in callbacks, cb.id \notin {w.id : w \in mine}
               PROVE  cb \in coroWaits' /\ cb.owner[2] # d
                      /\ cb.owner[2] \in Coroutine
    BY <1>1
  <2>1. cb \in coroWaits /\ cb \notin mine
    BY DEF FrameInv, IdsAreOwned
  <2>2. cb.owner # <<"promise", d>> /\ cb.owner # <<"timer", d>>
    BY <2>1 DEF WaitsOf
  <2>. QED  BY <1>1, <2>1, <2>2, OwnerType
<1>3. FrameTypeOK'
  <2>1. d # running
    BY <1>1 DEF FrameInv, FrameTypeOK, Suspended, Dir
  <2>. QED  BY <1>1, <2>1 DEF FrameInv, FrameTypeOK, State, NoWait
<1>4. IdsAreOwned'
  BY <1>1, <1>2 DEF FrameInv, IdsAreOwned
<1>5. NoCallbackForDeadFrame'
  BY <1>1, <1>2 DEF FrameInv, FrameTypeOK, NoCallbackForDeadFrame
<1>6. AwaiterKnowsItsWait'
  BY <1>1, <1>2 DEF FrameInv, FrameTypeOK, AwaiterKnowsItsWait
<1>. QED  BY <1>3, <1>4, <1>5, <1>6 DEF FrameInv

\* A cancelled sleep has no callback any more, so its awaiter may forget it.
LEMMA CancelSleepInv ==
    ASSUME FrameInv, NEW d \in Coroutine, CancelSleep(d)
    PROVE  FrameInv'
<1>1. /\ callbacks' = {cb \in callbacks : cb.id # waitId[d]}
      /\ co[d] = "sleeping"
      /\ waitId' = [waitId EXCEPT ![d] = NoWait]
      /\ nextId' = nextId /\ running' = running
      /\ co' = co /\ coroWaits' = coroWaits
  BY DEF CancelSleep, CancelWaits
<1>2. \A cb \in callbacks' : cb \in callbacks /\ cb.owner[2] # d
                             /\ cb.owner[2] \in Coroutine
  BY <1>1, OwnerType DEF FrameInv, AwaiterKnowsItsWait, IdsAreOwned
<1>3. FrameTypeOK'
  BY <1>1 DEF FrameInv, FrameTypeOK, NoWait
<1>4. IdsAreOwned'
  BY <1>1 DEF FrameInv, IdsAreOwned
<1>5. NoCallbackForDeadFrame'
  BY <1>1, <1>2 DEF FrameInv, NoCallbackForDeadFrame
<1>6. AwaiterKnowsItsWait'
  BY <1>1, <1>2 DEF FrameInv, FrameTypeOK, AwaiterKnowsItsWait
<1>. QED  BY <1>3, <1>4, <1>5, <1>6 DEF FrameInv

\* The running coroutine has no callback, so it may end or be left suspended
\* by a registration that fails.
LEMMA LeaveInv ==
    ASSUME FrameInv, running # Nobody, running' = Nobody,
           callbacks' = callbacks, coroWaits' = coroWaits,
           nextId' \in {nextId, nextId + 1},
           NEW st \in State \ {"running"}, co' = [co EXCEPT ![running] = st],
           waitId' = waitId \/ waitId' = [waitId EXCEPT ![running] = NoWait]
    PROVE  FrameInv'
<1>1. running \in Coroutine /\ co[running] \notin Suspended /\ nextId \in Nat
  BY DEF FrameInv, FrameTypeOK, Suspended, Dir
<1>2. \A cb \in callbacks : cb.owner[2] # running /\ cb.owner[2] \in Coroutine
  BY <1>1, OwnerType DEF FrameInv, NoCallbackForDeadFrame, IdsAreOwned
<1>3. FrameTypeOK'
  BY <1>1, NobodyAssumption DEF FrameInv, FrameTypeOK, NoWait
<1>4. IdsAreOwned'
  BY <1>1, OwnerType DEF FrameInv, IdsAreOwned
<1>5. NoCallbackForDeadFrame'
  BY <1>1, <1>2 DEF FrameInv, FrameTypeOK, NoCallbackForDeadFrame
<1>6. AwaiterKnowsItsWait'
  BY <1>1, <1>2 DEF FrameInv, FrameTypeOK, AwaiterKnowsItsWait
<1>. QED  BY <1>3, <1>4, <1>5, <1>6 DEF FrameInv

LEMMA UnchangedInv == FrameInv /\ UNCHANGED frameVars => FrameInv'
  BY DEF frameVars, FrameInv, FrameTypeOK, IdsAreOwned, NoCallbackForDeadFrame,
         AwaiterKnowsItsWait

LEMMA LoopStepInv == FrameInv /\ LoopStep => FrameInv'
<1> SUFFICES ASSUME FrameInv, LoopStep PROVE FrameInv'
  OBVIOUS
<1>1. CASE ExecuteCallback
  BY <1>1, ExecuteCallbackInv
<1>2. CASE RunOnce \/ SkipCancelled \/ ReadyDone \/ ProcessEpollEvent
           \/ ProcessExpiredTimeout
  <2>1. UNCHANGED frameVars
    BY <1>2 DEF RunOnce, SkipCancelled, ReadyDone, ProcessEpollEvent,
                ProcessExpiredTimeout, frameVars
  <2>. QED  BY <2>1, UnchangedInv
<1>. QED  BY <1>1, <1>2 DEF LoopStep

LEMMA ScheduleInv ==
    ASSUME FrameInv, NEW d \in Coroutine, Schedule(d)
    PROVE  FrameInv'
<1>1. /\ co[d] = "new" /\ Register(<<"promise", d>>)
      /\ co' = [co EXCEPT ![d] = "scheduled"]
      /\ waitId' = waitId /\ running' = running
  BY DEF Schedule
<1>2. "new" \notin Suspended /\ "scheduled" \in Suspended
  BY DEF Suspended, Dir
<1>. QED  BY <1>1, <1>2, RegisterInv

LEMMA AwaitIoInv ==
    ASSUME FrameInv, NEW fd \in Fd, NEW d \in Dir, AwaitIo(fd, d)
    PROVE  FrameInv'
<1>1. /\ running # Nobody /\ running' = Nobody
      /\ running \in Coroutine /\ co[running] \notin Suspended
      /\ co' = [co EXCEPT ![running] = d]
  BY DEF AwaitIo, FrameInv, FrameTypeOK, Suspended, Dir
<1>2. d \in Suspended /\ d \in State \ {"running"}
  BY DEF Suspended, State, Dir
<1>3. CASE /\ Register(<<"promise", running>>)
           /\ waitId' = [waitId EXCEPT ![running] = nextId]
  BY <1>1, <1>2, <1>3, RegisterInv
<1>4. CASE RegisterFails /\ waitId' = [waitId EXCEPT ![running] = NoWait]
  BY <1>1, <1>2, <1>4, LeaveInv DEF RegisterFails
<1>. QED  BY <1>3, <1>4 DEF AwaitIo

LEMMA SleepInv ==
    ASSUME FrameInv, NEW delay \in 0 .. MaxTime, Sleep(delay)
    PROVE  FrameInv'
<1>1. /\ running # Nobody /\ running' = Nobody
      /\ running \in Coroutine /\ co[running] \notin Suspended
      /\ co' = [co EXCEPT ![running] = "sleeping"]
      /\ Register(<<"timer", running>>)
      /\ waitId' = [waitId EXCEPT ![running] = nextId]
  BY DEF Sleep, FrameInv, FrameTypeOK, Suspended, Dir
<1>2. "sleeping" \in Suspended
  BY DEF Suspended
<1>. QED  BY <1>1, <1>2, RegisterInv

LEMMA CoroutineStepInv == FrameInv /\ CoroutineStep => FrameInv'
<1> SUFFICES ASSUME FrameInv, CoroutineStep PROVE FrameInv'
  OBVIOUS
<1>1. CASE \E d \in Coroutine : Schedule(d) \/ Destroy(d) \/ CancelSleep(d)
  BY <1>1, ScheduleInv, DestroyInv, CancelSleepInv
<1>2. CASE \E fd \in Fd, d \in Dir : AwaitIo(fd, d)
  BY <1>2, AwaitIoInv
<1>3. CASE \E fd \in Fd : Close(fd) \/ Reopen(fd)
  <2>1. UNCHANGED frameVars
    BY <1>3 DEF Close, Reopen, frameVars
  <2>. QED  BY <2>1, UnchangedInv
<1>4. CASE \E delay \in 0 .. MaxTime : Sleep(delay)
  BY <1>4, SleepInv
<1>5. CASE Return
  <2>1. /\ running # Nobody /\ running' = Nobody
        /\ callbacks' = callbacks /\ coroWaits' = coroWaits
        /\ nextId' = nextId /\ waitId' = waitId
        /\ co' = [co EXCEPT ![running] = "done"]
    BY <1>5 DEF Return
  <2>2. "done" \in State \ {"running"}
    BY DEF State
  <2>. QED  BY <2>1, <2>2, LeaveInv
<1>. QED  BY <1>1, <1>2, <1>3, <1>4, <1>5 DEF CoroutineStep

LEMMA NextFrameInv == FrameInv /\ [Next]_vars => FrameInv'
<1> SUFFICES ASSUME FrameInv, [Next]_vars PROVE FrameInv'
  OBVIOUS
<1>1. CASE LoopStep
  BY <1>1, LoopStepInv
<1>2. CASE CoroutineStep
  BY <1>2, CoroutineStepInv
<1>3. CASE Around \/ UNCHANGED vars
  <2>1. UNCHANGED frameVars
    BY <1>3 DEF Around, Peer, Tick, Stop, vars, loopVars, frameVars
  <2>. QED  BY <2>1, UnchangedInv
<1>. QED  BY <1>1, <1>2, <1>3 DEF Next

LEMMA FrameSafety == Spec => []FrameInv
  BY InitFrameInv, NextFrameInv, PTL DEF Spec

\* Running a callback never resumes a frame that has been destroyed or has
\* finished: whatever the program shares, closes or cancels, and in whatever
\* order epoll and the timers report, a dead frame's callback is gone.
THEOREM NoDeadFrameResumed == Spec => []NoCallbackForDeadFrame
<1>1. FrameInv => NoCallbackForDeadFrame
  BY DEF FrameInv
<1>. QED  BY <1>1, FrameSafety, PTL

\* An awaiter always knows the one wait id its callback is registered under:
\* what its destructor cancels is what would resume it.
THEOREM AwaitersKnowTheirWaits == Spec => []AwaiterKnowsItsWait
<1>1. FrameInv => AwaiterKnowsItsWait
  BY DEF FrameInv
<1>. QED  BY <1>1, FrameSafety, PTL

-----------------------------------------------------------------------------
LEMMA WaitsMatchStep ==
    ASSUME CancellingSleep = FALSE, FrameInv, WaitsMatchCallbacks, [Next]_vars
    PROVE  WaitsMatchCallbacks'
<1>1. CASE ExecuteCallback
  BY <1>1 DEF ExecuteCallback, WaitsMatchCallbacks
<1>2. ASSUME NEW d \in Coroutine, Destroy(d) PROVE WaitsMatchCallbacks'
  <2> DEFINE mine == WaitsOf(<<"promise", d>>) \cup WaitsOf(<<"timer", d>>)
  <2>1. /\ callbacks' = {cb \in callbacks : cb.id \notin {w.id : w \in mine}}
        /\ coroWaits' = coroWaits \ mine
    BY <1>2 DEF Destroy, CancelWaits, Uncharge
  <2>2. mine \subseteq callbacks
    BY DEF WaitsOf, WaitsMatchCallbacks
  <2>3. \A a, b \in callbacks : a.id = b.id => a = b
    BY DEF FrameInv, IdsAreOwned
  <2>4. callbacks' = callbacks \ mine
    BY <2>1, <2>2, <2>3
  <2>. QED  BY <2>1, <2>4 DEF WaitsMatchCallbacks
<1>3. ASSUME NEW d \in Coroutine, Schedule(d) PROVE WaitsMatchCallbacks'
  BY <1>3 DEF Schedule, Register, WaitsMatchCallbacks
<1>4. ASSUME NEW fd \in Fd, NEW d \in Dir, AwaitIo(fd, d)
      PROVE  WaitsMatchCallbacks'
  BY <1>4 DEF AwaitIo, Register, RegisterFails, WaitsMatchCallbacks
<1>5. ASSUME NEW delay \in 0 .. MaxTime, Sleep(delay)
      PROVE  WaitsMatchCallbacks'
  BY <1>5 DEF Sleep, Register, WaitsMatchCallbacks
<1>6. ASSUME NEW d \in Coroutine, CancelSleep(d) PROVE FALSE
  BY <1>6 DEF CancelSleep
<1>7. CASE \/ RunOnce \/ SkipCancelled \/ ReadyDone \/ ProcessEpollEvent
           \/ ProcessExpiredTimeout \/ Return \/ Around \/ UNCHANGED vars
           \/ \E fd \in Fd : Close(fd) \/ Reopen(fd)
  BY <1>7
  DEF RunOnce, SkipCancelled, ReadyDone, ProcessEpollEvent,
      ProcessExpiredTimeout, Return, Around, Peer, Tick, Stop, vars, loopVars,
      Close, Reopen, WaitsMatchCallbacks
<1>. QED
  BY <1>1, <1>2, <1>3, <1>4, <1>5, <1>6, <1>7 DEF Next, LoopStep, CoroutineStep

\* The books agree: an id stays charged to a handle exactly as long as its
\* callback is registered, if no sleep is cancelled through its awaiter.
THEOREM BooksAgree ==
    ASSUME CancellingSleep = FALSE
    PROVE  Spec => []WaitsMatchCallbacks
<1>1. Init => WaitsMatchCallbacks
  BY DEF Init, WaitsMatchCallbacks
<1>2. FrameInv /\ WaitsMatchCallbacks /\ [Next]_vars => WaitsMatchCallbacks'
  BY WaitsMatchStep
<1>. QED  BY <1>1, <1>2, FrameSafety, PTL DEF Spec

-----------------------------------------------------------------------------
\* As long as no descriptor is closed, the choice between EPOLL_CTL_ADD and
\* EPOLL_CTL_MOD is the right one and no registration fails.
CtlAgrees ==
    /\ open = Fd
    /\ eventMap \in [Fd -> [present : BOOLEAN, wait : [Dir -> Nat],
                            events : SUBSET Dir]]
    /\ waitToFd \subseteq [id : Nat, fd : Fd]
    /\ registered \subseteq Fd
    /\ \A fd \in Fd : eventMap[fd].events = {} <=> fd \notin registered

\* Whoever is suspended is charged with something, which is_stop() sees.
SuspendedIsCharged ==
    \A c \in Coroutine :
        co[c] \in Suspended => \E w \in coroWaits : w.owner[2] = c

RunsInReadyPhase == running # Nobody => phase \in {"ready1", "ready2"}

ExitInv ==
    CtlAgrees /\ SuspendedIsCharged /\ RunsInReadyPhase /\ ExitOnlyWhenIdle

LEMMA AddWaiterCtl ==
    ASSUME CtlAgrees, NEW fd \in Fd, NEW d \in Dir, NEW id \in Nat,
           AddWaiter(fd, d, id), open' = open
    PROVE  CtlAgrees'
<1>1. WithEvent(fd, d) \in SUBSET Dir /\ WithEvent(fd, d) # {}
  BY DEF WithEvent, CtlAgrees
<1> DEFINE old == eventMap[fd]
           new == Entry([old.wait EXCEPT ![d] = id], WithEvent(fd, d))
<1>2. new \in [present : BOOLEAN, wait : [Dir -> Nat], events : SUBSET Dir]
  <2>1. old.wait \in [Dir -> Nat]
    BY DEF CtlAgrees
  <2>2. new.wait \in [Dir -> Nat]
    BY <2>1 DEF Entry
  <2>. QED  BY <1>1, <2>2 DEF Entry
<1>3. eventMap' = [eventMap EXCEPT ![fd] = new]
  BY DEF AddWaiter
<1>4. registered' = registered \cup {fd}
  BY DEF AddWaiter, Watch
<1>5. waitToFd' \subseteq [id : Nat, fd : Fd]
  BY DEF AddWaiter, CtlAgrees
<1>. QED  BY <1>1, <1>2, <1>3, <1>4, <1>5 DEF Entry, CtlAgrees

LEMMA CancelWaiterCtl ==
    ASSUME CtlAgrees, NEW id, CancelWaiter(id), open' = open
    PROVE  CtlAgrees'
<1>1. waitToFd' \subseteq [id : Nat, fd : Fd]
  BY DEF CancelWaiter, ForgetWaiter, CtlAgrees
<1>2. CASE UNCHANGED <<eventMap, registered>>
  BY <1>1, <1>2 DEF CtlAgrees
<1>3. ASSUME NEW fd \in Fd, DropStaleWaiter(id, fd) PROVE CtlAgrees'
  BY <1>1, <1>3 DEF DropStaleWaiter, Entry, CtlAgrees
<1>4. ASSUME NEW fd \in Fd, DropLastWaiter(id, fd) PROVE CtlAgrees'
  BY <1>1, <1>4 DEF DropLastWaiter, Unwatch, NoEntry, NoWait, CtlAgrees
<1>5. ASSUME NEW fd \in Fd, DropOneWaiter(id, fd) PROVE CtlAgrees'
  <2>1. Remaining(fd, id) \in SUBSET Dir /\ Remaining(fd, id) # {}
    BY <1>5 DEF DropOneWaiter, Remaining, CtlAgrees
  <2>2. fd \in registered
    BY <2>1 DEF Remaining, CtlAgrees
  <2>3. registered' = registered
    BY <1>5, <2>2 DEF DropOneWaiter, Watch
  <2> DEFINE kept == [d \in Dir |-> IF eventMap[fd].wait[d] = id THEN NoWait
                                    ELSE eventMap[fd].wait[d]]
  <2>4. kept \in [Dir -> Nat]
    BY DEF CtlAgrees, NoWait
  <2>5. eventMap' = [eventMap EXCEPT ![fd] = Entry(kept, Remaining(fd, id))]
    BY <1>5 DEF DropOneWaiter
  <2>. QED  BY <1>1, <2>1, <2>2, <2>3, <2>4, <2>5 DEF Entry, CtlAgrees
<1>. QED
  BY <1>2, <1>3, <1>4, <1>5 DEF CancelWaiter, ForgetWaiter, CtlAgrees

LEMMA CtlStep ==
    ASSUME Closing = FALSE, FrameInv, CtlAgrees, [Next]_vars
    PROVE  CtlAgrees'
<1>1. CASE UNCHANGED <<open, eventMap, waitToFd, registered>>
  BY <1>1 DEF CtlAgrees
<1>2. ASSUME NEW id, CancelWaiter(id), open' = open PROVE CtlAgrees'
  BY <1>2, CancelWaiterCtl
<1>3. CASE ExecuteCallback
  BY <1>1, <1>2, <1>3 DEF ExecuteCallback, LeaveAwaiter
<1>4. ASSUME NEW d \in Coroutine, Destroy(d) \/ CancelSleep(d)
      PROVE  CtlAgrees'
  BY <1>1, <1>2, <1>4 DEF Destroy, CancelSleep, CancelWaits
<1>5. ASSUME NEW fd \in Fd, NEW d \in Dir, AwaitIo(fd, d) PROVE CtlAgrees'
  <2>1. AddWaiter(fd, d, nextId) /\ open' = open
    BY <1>5 DEF AwaitIo, CtlWorks, CtlAgrees
  <2>2. nextId \in Nat
    BY DEF FrameInv, FrameTypeOK
  <2>. QED  BY <2>1, <2>2, AddWaiterCtl
<1>6. ASSUME NEW fd \in Fd, Reopen(fd) PROVE FALSE
  BY <1>6 DEF Reopen, CtlAgrees
<1>7. ASSUME NEW fd \in Fd, Close(fd) PROVE FALSE
  BY <1>7 DEF Close
<1>8. ASSUME NEW d \in Coroutine, Schedule(d) PROVE CtlAgrees'
  BY <1>1, <1>8 DEF Schedule, epollVars
<1>9. ASSUME NEW delay \in 0 .. MaxTime, Sleep(delay) PROVE CtlAgrees'
  BY <1>1, <1>9 DEF Sleep, epollVars
<1>10. CASE \/ RunOnce \/ SkipCancelled \/ ReadyDone \/ ProcessEpollEvent
            \/ ProcessExpiredTimeout \/ Return \/ Around \/ UNCHANGED vars
  BY <1>1, <1>10
  DEF RunOnce, SkipCancelled, ReadyDone, ProcessEpollEvent, ReportFired,
      ProcessExpiredTimeout, Return, Around, Peer, Arrive, Tick, Stop, vars,
      loopVars, epollVars
<1>. QED
  BY <1>3, <1>4, <1>5, <1>6, <1>7, <1>8, <1>9, <1>10
  DEF Next, LoopStep, CoroutineStep

\* Losing a charge is losing the suspension, and gaining a suspension is
\* gaining a charge.
LEMMA ChargedStep ==
    ASSUME Closing = FALSE, FrameInv, CtlAgrees, SuspendedIsCharged,
           [Next]_vars
    PROVE  SuspendedIsCharged'
<1>1. CASE coroWaits' = coroWaits /\ co' = co
  BY <1>1 DEF SuspendedIsCharged
<1>2. ASSUME NEW c \in Coroutine, NEW st \in State \ Suspended,
             co' = [co EXCEPT ![c] = st],
             \A w \in coroWaits : w.owner[2] # c => w \in coroWaits'
      PROVE  SuspendedIsCharged'
  BY <1>2 DEF FrameInv, FrameTypeOK, SuspendedIsCharged
<1>3. ASSUME NEW c \in Coroutine, NEW st \in Suspended,
             co' = [co EXCEPT ![c] = st],
             NEW owner, owner[2] = c, Register(owner)
      PROVE  SuspendedIsCharged'
  <2>1. /\ coroWaits' = coroWaits \cup {[id |-> nextId, owner |-> owner]}
        /\ [id |-> nextId, owner |-> owner].owner[2] = c
    BY <1>3 DEF Register
  <2>2. \E w \in coroWaits' : w.owner[2] = c
    BY <2>1
  <2>3. \A d \in Coroutine : d # c => co'[d] = co[d]
    BY <1>3 DEF FrameInv, FrameTypeOK
  <2>. QED  BY <2>1, <2>2, <2>3 DEF SuspendedIsCharged
<1>4. {"running", "done"} \subseteq State \ Suspended
  BY DEF State, Suspended, Dir
<1>5. CASE ExecuteCallback
  <2>1. PICK cb \in callbacks : /\ coroWaits' = coroWaits \ {cb}
                                /\ co' = [co EXCEPT ![cb.owner[2]] = "running"]
    BY <1>5 DEF ExecuteCallback
  <2>2. cb.owner[2] \in Coroutine
    BY OwnerType DEF FrameInv, IdsAreOwned
  <2>. QED  BY <1>2, <1>4, <2>1, <2>2
<1>6. ASSUME NEW d \in Coroutine, Destroy(d) PROVE SuspendedIsCharged'
  <2>1. \A w \in coroWaits : w.owner[2] # d => w \in coroWaits'
    BY <1>6 DEF Destroy, Uncharge, WaitsOf
  <2>. QED  BY <1>2, <1>4, <1>6, <2>1 DEF Destroy
<1>7. ASSUME NEW d \in Coroutine, CancelSleep(d) PROVE SuspendedIsCharged'
  BY <1>1, <1>7 DEF CancelSleep
<1>8. ASSUME NEW d \in Coroutine, Schedule(d) PROVE SuspendedIsCharged'
  <2>1. "scheduled" \in Suspended /\ <<"promise", d>>[2] = d
    BY DEF Suspended
  <2>2. Register(<<"promise", d>>) /\ co' = [co EXCEPT ![d] = "scheduled"]
    BY <1>8 DEF Schedule
  <2>. QED  BY <1>3, <2>1, <2>2
<1>9. ASSUME NEW fd \in Fd, NEW d \in Dir, AwaitIo(fd, d)
      PROVE  SuspendedIsCharged'
  <2>1. /\ Register(<<"promise", running>>) /\ <<"promise", running>>[2] = running
        /\ co' = [co EXCEPT ![running] = d]
    BY <1>9 DEF AwaitIo, CtlWorks, CtlAgrees
  <2>2. d \in Suspended /\ running \in Coroutine
    BY <1>9 DEF AwaitIo, Suspended, FrameInv, FrameTypeOK
  <2>. QED  BY <1>3, <2>1, <2>2
<1>10. ASSUME NEW delay \in 0 .. MaxTime, Sleep(delay)
       PROVE  SuspendedIsCharged'
  <2>1. /\ Register(<<"timer", running>>) /\ <<"timer", running>>[2] = running
        /\ co' = [co EXCEPT ![running] = "sleeping"]
    BY <1>10 DEF Sleep
  <2>2. "sleeping" \in Suspended /\ running \in Coroutine
    BY <1>10 DEF Sleep, Suspended, FrameInv, FrameTypeOK
  <2>. QED  BY <1>3, <2>1, <2>2
<1>11. CASE Return
  <2>1. /\ running \in Coroutine /\ coroWaits' = coroWaits
        /\ co' = [co EXCEPT ![running] = "done"]
    BY <1>11 DEF Return, FrameInv, FrameTypeOK
  <2>. QED  BY <1>2, <1>4, <2>1
<1>12. CASE \/ RunOnce \/ SkipCancelled \/ ReadyDone \/ ProcessEpollEvent
            \/ ProcessExpiredTimeout \/ Around \/ UNCHANGED vars
            \/ \E fd \in Fd : Close(fd) \/ Reopen(fd)
  BY <1>1, <1>12
  DEF RunOnce, SkipCancelled, ReadyDone, ProcessEpollEvent,
      ProcessExpiredTimeout, Around, Peer, Tick, Stop, vars, loopVars, Close,
      Reopen
<1>. QED
  BY <1>5, <1>6, <1>7, <1>8, <1>9, <1>10, <1>11, <1>12
  DEF Next, LoopStep, CoroutineStep

\* Coroutines run between the callbacks of a pass and nowhere else.
LEMMA PhaseStep ==
    ASSUME RunsInReadyPhase, [Next]_vars PROVE RunsInReadyPhase'
<1>1. CASE LoopStep
  BY <1>1
  DEF LoopStep, RunOnce, ExecuteCallback, SkipCancelled, ReadyDone,
      ProcessEpollEvent, ProcessExpiredTimeout, RunsInReadyPhase
<1>2. CASE CoroutineStep
  BY <1>2
  DEF CoroutineStep, Schedule, Destroy, CancelSleep, AwaitIo, Close, Reopen,
      Sleep, Return, RunsInReadyPhase
<1>3. CASE Around \/ UNCHANGED vars
  BY <1>3 DEF Around, Peer, Tick, Stop, vars, loopVars, RunsInReadyPhase
<1>. QED  BY <1>1, <1>2, <1>3 DEF Next

LEMMA ExitStep ==
    ASSUME SuspendedIsCharged, RunsInReadyPhase, ExitOnlyWhenIdle,
           [Next]_vars
    PROVE  ExitOnlyWhenIdle'
<1>1. CASE RunOnce
  <2>1. co' = co /\ stop' = stop
    BY <1>1 DEF RunOnce
  <2>2. phase' = "exited" => stop \/ coroWaits = {}
    BY <1>1 DEF RunOnce, IsStop
  <2>. QED  BY <2>1, <2>2 DEF SuspendedIsCharged, ExitOnlyWhenIdle
<1>2. CASE phase' # "exited"
  BY <1>2 DEF ExitOnlyWhenIdle
<1>3. CASE LoopStep /\ ~RunOnce
  BY <1>2, <1>3
  DEF LoopStep, ExecuteCallback, SkipCancelled, ReadyDone, ProcessEpollEvent,
      ProcessExpiredTimeout
<1>4. CASE CoroutineStep
  <2>1. running # Nobody /\ phase' = phase
    BY <1>4
    DEF CoroutineStep, Schedule, Destroy, CancelSleep, AwaitIo, Close, Reopen,
        Sleep, Return
  <2>. QED  BY <1>2, <2>1 DEF RunsInReadyPhase
<1>5. CASE Around \/ UNCHANGED vars
  BY <1>5 DEF Around, Peer, Tick, Stop, vars, loopVars, ExitOnlyWhenIdle
<1>. QED  BY <1>1, <1>3, <1>4, <1>5 DEF Next

LEMMA InitExitInv == Init => ExitInv
<1> SUFFICES ASSUME Init PROVE ExitInv
  OBVIOUS
<1>1. CtlAgrees
  BY DEF Init, EpollInit, NoEntry, NoWait, CtlAgrees
<1>2. PICK c \in Coroutine :
        /\ coroWaits = {[id |-> 0, owner |-> <<"promise", c>>]}
        /\ co = [d \in Coroutine |-> IF d = c THEN "scheduled" ELSE "new"]
  BY DEF Init
<1>3. SuspendedIsCharged
  BY <1>2 DEF SuspendedIsCharged, Suspended, Dir
<1>4. RunsInReadyPhase /\ ExitOnlyWhenIdle
  BY DEF Init, RunsInReadyPhase, ExitOnlyWhenIdle
<1>. QED  BY <1>1, <1>3, <1>4 DEF ExitInv

\* run_until_complete() never gives up on a suspended coroutine, unless it was
\* told to stop, if no descriptor is closed under the loop.
THEOREM NeverGivesUp ==
    ASSUME Closing = FALSE
    PROVE  Spec => []ExitOnlyWhenIdle
<1>1. FrameInv /\ ExitInv /\ [Next]_vars => ExitInv'
  BY CtlStep, ChargedStep, PhaseStep, ExitStep DEF ExitInv
<1>2. ExitInv => ExitOnlyWhenIdle
  BY DEF ExitInv
<1>. QED  BY <1>1, <1>2, InitExitInv, FrameSafety, PTL DEF Spec

-----------------------------------------------------------------------------
\* The queue and the heap.

InQueue == {ready[k] : k \in 1 .. Len(ready)}

Sleeps(cb) == co[cb.owner[2]] = "sleeping"

RestTypeOK ==
    /\ EpollTypeOK
    /\ nextId <= MaxId
    /\ ready \in Seq(Nat)
    /\ scheduled \subseteq [id : Nat, when : Nat]
    /\ IsFiniteSet(scheduled)
    /\ stop \in BOOLEAN
    /\ phase \in Phase
    /\ timeout \in {"zero", "finite", "infinite"}
    /\ target \in [Coroutine -> Fd \cup Nat]
    /\ now \in Nat
    /\ open \subseteq Fd

\* Every id that is anywhere has been given out, so that the next one is new.
Fresh ==
    /\ \A k \in 1 .. Len(ready) : ready[k] < nextId
    /\ \A s \in scheduled : s.id < nextId
    /\ \A w \in coroWaits : w.id < nextId
    /\ \A fd \in Fd, d \in Dir : eventMap[fd].wait[d] < nextId
    /\ \A c \in Coroutine : waitId[c] < nextId

\* The callback of a coroutine that is to be run, or sleeps, is on its way; an
\* id on the heap is that of a sleep until then.  The ids in the entries of
\* descriptors are no sleeper's.
TimerBooks ==
    /\ \A cb \in callbacks :
         co[cb.owner[2]] = "scheduled" => cb.id \in InQueue
    /\ \A cb \in callbacks : Sleeps(cb) =>
         /\ cb.id # NoWait /\ target[cb.owner[2]] \in Nat
         /\ \/ cb.id \in InQueue
            \/ [id |-> cb.id, when |-> target[cb.owner[2]]] \in scheduled
         /\ \A fd \in Fd, d \in Dir : eventMap[fd].wait[d] # cb.id
    /\ \A cb \in callbacks, s \in scheduled :
         s.id = cb.id => Sleeps(cb) /\ target[cb.owner[2]] = s.when

\* The sleeps that are over are queued in the order of their times, and before
\* those that are not.
SleepsInOrder ==
    /\ \A a, b \in callbacks, j, k \in 1 .. Len(ready) :
         /\ Sleeps(a) /\ Sleeps(b) /\ j < k
         /\ ready[j] = a.id /\ ready[k] = b.id
         => target[a.owner[2]] <= target[b.owner[2]]
    /\ \A a \in callbacks : Sleeps(a) /\ a.id \in InQueue =>
         /\ target[a.owner[2]] <= now
         /\ \A s \in scheduled : target[a.owner[2]] <= s.when

LoopInv ==
    FrameInv /\ RestTypeOK /\ Fresh /\ TimerBooks /\ SleepsInOrder

LEMMA CallbackType ==
    ASSUME FrameInv, NEW cb \in callbacks
    PROVE  /\ cb.id \in Nat /\ cb.id < nextId /\ nextId \in Nat
           /\ cb.owner[2] \in Coroutine
           /\ cb = [id |-> cb.id, owner |-> cb.owner]
  BY OwnerType DEF FrameInv, FrameTypeOK, IdsAreOwned

\* An order of a finite set is a sequence that has all of its elements.
LEMMA OrderIsOnto ==
    ASSUME NEW S, IsFiniteSet(S), NEW f \in Orders(S)
    PROVE  /\ f \in Seq(S)
           /\ Len(f) = Cardinality(S) /\ DOMAIN f = 1 .. Len(f)
           /\ Len(f) \in Nat
           /\ \A x \in S : \E k \in 1 .. Len(f) : f[k] = x
<1> DEFINE n == Cardinality(S)
<1>1. n \in Nat
  BY FS_CardinalityType
<1>2. /\ f \in [1 .. n -> S]
      /\ \A j, k \in 1 .. n : f[j] = f[k] => j = k
  BY DEF Orders
<1>3. f \in Seq(S) /\ Len(f) = n /\ DOMAIN f = 1 .. n
  BY <1>1, <1>2
<1>4. f \in Injection(1 .. n, S)
  BY <1>2 DEF Injection, IsInjective
<1>5. Cardinality(1 .. n) = n
  BY <1>1, FS_Interval
<1>6. f \in Surjection(1 .. n, S)
  BY <1>4, <1>5, FS_Injection
<1>7. \A x \in S : \E k \in 1 .. n : f[k] = x
  BY <1>6 DEF Surjection
<1>. QED  BY <1>1, <1>3, <1>7

-----------------------------------------------------------------------------
\* The entries of the descriptors: their types, and which ids get into them.

\* Whether the waits of an entry are those it had, but for some that are gone
\* and some that are now id.
WaitsChange(id) ==
    \A fd \in Fd, d \in Dir :
        eventMap'[fd].wait[d] \in {eventMap[fd].wait[d], NoWait, id}

LEMMA CancelWaiterType ==
    ASSUME EpollTypeOK, NEW id, CancelWaiter(id), level' = level
    PROVE  EpollTypeOK' /\ WaitsChange(NoWait)
<1>1. waitToFd' \subseteq [id : Nat, fd : Fd]
  BY DEF CancelWaiter, ForgetWaiter, EpollTypeOK
<1>2. CASE UNCHANGED <<eventMap, interest, registered, edge>>
  BY <1>1, <1>2 DEF EpollTypeOK, WaitsChange
<1>3. ASSUME NEW fd \in Fd, DropStaleWaiter(id, fd)
      PROVE  EpollTypeOK' /\ WaitsChange(NoWait)
  <2>1. /\ eventMap' = [eventMap EXCEPT ![fd] =
                          Entry(eventMap[fd].wait, eventMap[fd].events)]
        /\ UNCHANGED <<interest, registered, edge>>
    BY <1>3 DEF DropStaleWaiter
  <2>. QED  BY <1>1, <2>1 DEF Entry, EpollTypeOK, WaitsChange
<1>4. ASSUME NEW fd \in Fd, DropLastWaiter(id, fd)
      PROVE  EpollTypeOK' /\ WaitsChange(NoWait)
  <2>1. /\ eventMap' = [eventMap EXCEPT ![fd] = NoEntry]
        /\ registered' = registered \ {fd}
        /\ interest' = [interest EXCEPT ![fd] = {}]
        /\ edge' = [edge EXCEPT ![fd] = {}]
    BY <1>4 DEF DropLastWaiter, Unwatch
  <2>2. NoEntry \in [present : BOOLEAN, wait : [Dir -> Nat], events : SUBSET Dir]
        /\ \A d \in Dir : NoEntry.wait[d] = NoWait
    BY DEF NoEntry, NoWait
  <2>. QED  BY <1>1, <2>1, <2>2 DEF EpollTypeOK, WaitsChange
<1>5. ASSUME NEW fd \in Fd, DropOneWaiter(id, fd)
      PROVE  EpollTypeOK' /\ WaitsChange(NoWait)
  <2> DEFINE kept == [d \in Dir |-> IF eventMap[fd].wait[d] = id THEN NoWait
                                    ELSE eventMap[fd].wait[d]]
             left == Remaining(fd, id)
             new == Entry(kept, left)
  <2>1. eventMap' = [eventMap EXCEPT ![fd] = new]
    BY <1>5 DEF DropOneWaiter
  <2>2. left \in SUBSET Dir
    BY DEF Remaining, EpollTypeOK
  <2>3. kept \in [Dir -> Nat]
    BY DEF EpollTypeOK, NoWait
  <2>4. new.wait = kept
        /\ new \in [present : BOOLEAN, wait : [Dir -> Nat], events : SUBSET Dir]
    BY <2>2, <2>3 DEF Entry
  <2>5. \/ UNCHANGED <<interest, registered, edge>>
        \/ /\ registered' = registered \cup {fd}
           /\ interest' = [interest EXCEPT ![fd] = left]
           /\ edge' = [edge EXCEPT ![fd] = level[fd]]
    BY <1>5 DEF DropOneWaiter, Watch
  <2>6. EpollTypeOK'
    <3> HIDE DEF kept, left, new
    <3>. QED  BY <1>1, <2>1, <2>2, <2>4, <2>5 DEF EpollTypeOK
  <2>7. WaitsChange(NoWait)
    <3>1. \A d \in Dir : kept[d] \in {eventMap[fd].wait[d], NoWait}
      OBVIOUS
    <3> HIDE DEF kept, left, new
    <3>. QED  BY <2>1, <2>4, <3>1 DEF EpollTypeOK, WaitsChange
  <2>. QED  BY <2>6, <2>7
<1>. QED
  BY <1>2, <1>3, <1>4, <1>5 DEF CancelWaiter, ForgetWaiter, EpollTypeOK

LEMMA AddWaiterType ==
    ASSUME EpollTypeOK, NEW fd \in Fd, NEW d \in Dir, NEW id \in Nat,
           level' \in [Fd -> SUBSET Dir],
           AddWaiter(fd, d, id) \/ AddWaiterFails(fd, d, id)
    PROVE  EpollTypeOK' /\ WaitsChange(id)
<1>1. CASE AddWaiter(fd, d, id)
  <2> DEFINE wait == [eventMap[fd].wait EXCEPT ![d] = id]
             events == WithEvent(fd, d)
             new == Entry(wait, events)
  <2>1. /\ eventMap' = [eventMap EXCEPT ![fd] = new]
        /\ registered' = registered \cup {fd}
        /\ interest' = [interest EXCEPT ![fd] = events]
        /\ edge' = [edge EXCEPT ![fd] = level[fd]]
    BY <1>1 DEF AddWaiter, Watch
  <2>2. waitToFd' \subseteq [id : Nat, fd : Fd]
    BY <1>1 DEF AddWaiter, EpollTypeOK
  <2>3. events \in SUBSET Dir
    BY DEF WithEvent, EpollTypeOK
  <2>4. wait \in [Dir -> Nat]
        /\ \A e \in Dir : wait[e] \in {eventMap[fd].wait[e], id}
    BY DEF EpollTypeOK
  <2>5. new.wait = wait
        /\ new \in [present : BOOLEAN, wait : [Dir -> Nat], events : SUBSET Dir]
    BY <2>3, <2>4 DEF Entry
  <2> HIDE DEF wait, events, new
  <2>6. EpollTypeOK'
    BY <2>1, <2>2, <2>3, <2>5 DEF EpollTypeOK
  <2>7. WaitsChange(id)
    BY <2>1, <2>4, <2>5 DEF EpollTypeOK, WaitsChange
  <2>. QED  BY <2>6, <2>7
<1>2. CASE AddWaiterFails(fd, d, id)
  <2>1. /\ eventMap' = [eventMap EXCEPT ![fd] = NoEntry]
        /\ waitToFd' \subseteq waitToFd
        /\ UNCHANGED <<interest, registered, edge>>
    BY <1>2 DEF AddWaiterFails
  <2>2. NoEntry \in [present : BOOLEAN, wait : [Dir -> Nat], events : SUBSET Dir]
        /\ \A e \in Dir : NoEntry.wait[e] = NoWait
    BY DEF NoEntry, NoWait
  <2>. QED  BY <2>1, <2>2 DEF EpollTypeOK, WaitsChange
<1>. QED  BY <1>1, <1>2

\* Only a coroutine that starts to wait for a descriptor puts an id into an
\* entry, and it is a new one.
LEMMA EpollStep ==
    ASSUME FrameInv, EpollTypeOK, [Next]_vars
    PROVE  /\ EpollTypeOK'
           /\ \/ WaitsChange(NoWait)
              \/ \E fd \in Fd, d \in Dir : AwaitIo(fd, d) /\ WaitsChange(nextId)
<1> DEFINE Goal == EpollTypeOK' /\ WaitsChange(NoWait)
<1>1. ASSUME UNCHANGED epollVars PROVE Goal
  BY <1>1 DEF epollVars, EpollTypeOK, WaitsChange
<1>2. ASSUME NEW id, CancelWaiter(id), level' = level PROVE Goal
  BY <1>2, CancelWaiterType
<1>3. ASSUME NEW ids, CancelWaits(ids), level' = level PROVE Goal
  BY <1>1, <1>2, <1>3 DEF CancelWaits, epollVars
<1>4. ASSUME ExecuteCallback PROVE Goal
  BY <1>1, <1>2, <1>4 DEF ExecuteCallback, LeaveAwaiter, epollVars
<1>5. ASSUME NEW d \in Coroutine, Destroy(d) \/ CancelSleep(d) PROVE Goal
  BY <1>3, <1>5 DEF Destroy, CancelSleep
<1>6. ASSUME NEW fd \in Fd, NEW d \in Dir, AwaitIo(fd, d)
      PROVE  EpollTypeOK' /\ WaitsChange(nextId)
  <2>1. nextId \in Nat
    BY DEF FrameInv, FrameTypeOK
  <2>2. AddWaiter(fd, d, nextId) \/ AddWaiterFails(fd, d, nextId)
    BY <1>6 DEF AwaitIo
  <2>3. level' \in [Fd -> SUBSET Dir]
    BY <1>6 DEF AwaitIo, Drain, EpollTypeOK
  <2>. QED  BY <2>1, <2>2, <2>3, AddWaiterType
<1>7. ASSUME NEW fd \in Fd, Close(fd) PROVE Goal
  BY <1>7 DEF Close, CloseFd, EpollTypeOK, WaitsChange
<1>8. ASSUME NEW fd \in Fd, NEW d \in Dir, Peer(fd, d) PROVE Goal
  BY <1>8 DEF Peer, Arrive, EpollTypeOK, WaitsChange
<1>9. ASSUME ProcessEpollEvent PROVE Goal
  BY <1>9 DEF ProcessEpollEvent, ReportFired, EpollTypeOK, WaitsChange
<1>10. ASSUME \/ RunOnce \/ SkipCancelled \/ ReadyDone
              \/ ProcessExpiredTimeout \/ Return \/ Tick \/ Stop
              \/ UNCHANGED vars
              \/ \E d \in Coroutine : Schedule(d)
              \/ \E delay \in 0 .. MaxTime : Sleep(delay)
              \/ \E fd \in Fd : Reopen(fd)
       PROVE  Goal
  <2>1. UNCHANGED epollVars
    BY <1>10
    DEF RunOnce, SkipCancelled, ReadyDone, ProcessExpiredTimeout, Return, Tick,
        Stop, vars, Schedule, Sleep, Reopen
  <2>. QED  BY <1>1, <2>1
<1>. QED
  BY <1>4, <1>5, <1>6, <1>7, <1>8, <1>9, <1>10
  DEF Next, LoopStep, CoroutineStep, Around

-----------------------------------------------------------------------------
\* The types of the rest.

LEMMA FiredWaitsFinite ==
    ASSUME FrameInv, RestTypeOK, Fresh
    PROVE  /\ IsFiniteSet(FiredWaits)
           /\ FiredWaits \subseteq Nat \ {NoWait}
           /\ \A id \in FiredWaits : id < nextId
<1>1. \A id \in FiredWaits : \E fd \in Fd, d \in Dir : id = eventMap[fd].wait[d]
  BY DEF FiredWaits, Fired, Reported, RestTypeOK, EpollTypeOK
<1>2. FiredWaits \subseteq Nat \ {NoWait}
  <2>1. \A fd \in Fd, d \in Dir : eventMap[fd].wait[d] \in Nat
    BY DEF RestTypeOK, EpollTypeOK
  <2>2. NoWait \notin FiredWaits
    BY DEF FiredWaits
  <2>. QED  BY <1>1, <2>1, <2>2
<1>3. \A id \in FiredWaits : id < nextId
  BY <1>1 DEF Fresh
<1>4. nextId \in Nat
  BY DEF FrameInv, FrameTypeOK
<1>5. \A id \in FiredWaits : id <= nextId
  BY <1>2, <1>3, <1>4
<1>6. FiredWaits \in SUBSET Nat
  BY <1>2
<1>7. IsFiniteSet(FiredWaits)
  BY <1>4, <1>5, <1>6, FS_BoundedSetOfNaturals
<1>. QED  BY <1>2, <1>3, <1>7

LEMMA DueFinite == RestTypeOK => IsFiniteSet(Due) /\ Due \subseteq scheduled
  BY FS_Subset DEF RestTypeOK, Due

\* What the two calls that fill the queue append to it.
LEMMA EpollQueues ==
    ASSUME FrameInv, RestTypeOK, Fresh, ProcessEpollEvent
    PROVE  \E q \in Seq(Nat) :
             /\ ready' = ready \o q
             /\ \A k \in 1 .. Len(q) : q[k] \in FiredWaits
             /\ \A id \in FiredWaits : \E k \in 1 .. Len(q) : q[k] = id
<1>1. PICK q \in Orders(FiredWaits) : ready' = ready \o q
  BY DEF ProcessEpollEvent
<1>2. /\ q \in Seq(FiredWaits) /\ Len(q) \in Nat
      /\ \A id \in FiredWaits : \E k \in 1 .. Len(q) : q[k] = id
  BY OrderIsOnto, FiredWaitsFinite
<1>3. q \in Seq(Nat) /\ \A k \in 1 .. Len(q) : q[k] \in FiredWaits
  BY <1>2, FiredWaitsFinite, ElementOfSeq, SeqMonotonic
<1>. QED  BY <1>1, <1>2, <1>3

LEMMA TimersQueue ==
    ASSUME RestTypeOK, ProcessExpiredTimeout
    PROVE  \E order \in Seq(Due), q \in Seq(Nat) :
             /\ ready' = ready \o q
             /\ EarliestFirst(order)
             /\ Len(q) = Len(order) /\ DOMAIN order = 1 .. Len(q)
             /\ \A k \in 1 .. Len(q) : order[k] \in Due /\ q[k] = order[k].id
             /\ \A s \in Due : \E k \in 1 .. Len(q) : order[k] = s
<1>1. PICK order \in Orders(Due) :
        /\ EarliestFirst(order)
        /\ ready' = ready \o [k \in DOMAIN order |-> order[k].id]
  BY DEF ProcessExpiredTimeout
<1>2. /\ order \in Seq(Due) /\ Len(order) \in Nat
      /\ DOMAIN order = 1 .. Len(order)
      /\ \A s \in Due : \E k \in 1 .. Len(order) : order[k] = s
  BY OrderIsOnto, DueFinite
<1> DEFINE q == [k \in 1 .. Len(order) |-> order[k].id]
<1>3. \A k \in 1 .. Len(order) : order[k] \in Due
  BY <1>2, ElementOfSeq
<1>4. \A k \in 1 .. Len(order) : order[k].id \in Nat
  BY <1>3 DEF Due, RestTypeOK
<1>5. q \in Seq(Nat) /\ Len(q) = Len(order)
  BY <1>2, <1>4
<1>6. ready' = ready \o q
  BY <1>1, <1>2
<1>7. \A k \in 1 .. Len(order) : q[k] = order[k].id
  OBVIOUS
<1> HIDE DEF q
<1> USE <1>2, <1>5
<1> WITNESS order \in Seq(Due), q \in Seq(Nat)
<1>. QED  BY <1>1, <1>2, <1>3, <1>5, <1>6, <1>7

LEMMA QueueType ==
    ASSUME FrameInv, RestTypeOK, Fresh, [Next]_vars
    PROVE  /\ ready' \in Seq(Nat)
           /\ \A k \in 1 .. Len(ready') : ready'[k] < nextId'
<1>0. /\ ready \in Seq(Nat) /\ nextId \in Nat
      /\ Len(ready) \in Nat
      /\ \A k \in 1 .. Len(ready) : ready[k] \in Nat /\ ready[k] < nextId
  BY LenProperties, ElementOfSeq DEF RestTypeOK, Fresh, FrameInv, FrameTypeOK
<1>1. CASE ready' = ready /\ nextId' \in {nextId, nextId + 1}
  BY <1>0, <1>1
<1>2. CASE ready # <<>> /\ ready' = Tail(ready) /\ nextId' = nextId
  <2>1. /\ ready' \in Seq(Nat) /\ Len(ready') = Len(ready) - 1
        /\ \A k \in 1 .. Len(ready') : ready'[k] = ready[k + 1]
    BY <1>0, <1>2, HeadTailProperties
  <2>. QED  BY <1>0, <1>2, <2>1
<1>3. CASE ready' = Append(ready, nextId) /\ nextId' = nextId + 1
  <2>1. /\ ready' \in Seq(Nat) /\ Len(ready') = Len(ready) + 1
        /\ \A k \in 1 .. Len(ready') :
             ready'[k] = IF k <= Len(ready) THEN ready[k] ELSE nextId
    BY <1>0, <1>3
  <2>. QED  BY <1>0, <1>3, <2>1
<1>4. ASSUME nextId' = nextId,
             NEW q \in Seq(Nat), ready' = ready \o q,
             \A k \in 1 .. Len(q) : q[k] < nextId
      PROVE  /\ ready' \in Seq(Nat)
             /\ \A k \in 1 .. Len(ready') : ready'[k] < nextId'
  <2>1. /\ ready' \in Seq(Nat) /\ Len(ready') = Len(ready) + Len(q)
        /\ Len(q) \in Nat
        /\ \A k \in 1 .. Len(ready') :
             ready'[k] = IF k <= Len(ready) THEN ready[k] ELSE q[k - Len(ready)]
    BY <1>0, <1>4, ConcatProperties, LenProperties
  <2>2. ASSUME NEW k \in 1 .. Len(ready') PROVE ready'[k] < nextId'
    <3>1. CASE k <= Len(ready)
      BY <1>0, <1>4, <2>1, <3>1
    <3>2. CASE k > Len(ready)
      <4>1. k - Len(ready) \in 1 .. Len(q)
        BY <1>0, <2>1, <3>2
      <4>. QED  BY <1>0, <1>4, <2>1, <3>2, <4>1
    <3>. QED  BY <1>0, <2>1, <3>1, <3>2
  <2>. QED  BY <2>1, <2>2
<1>5. CASE ProcessEpollEvent
  <2>1. nextId' = nextId
    BY <1>5 DEF ProcessEpollEvent
  <2>. QED  BY <1>4, <1>5, <2>1, EpollQueues, FiredWaitsFinite
<1>6. CASE ProcessExpiredTimeout
  <2>1. nextId' = nextId
    BY <1>6 DEF ProcessExpiredTimeout
  <2>2. PICK order \in Seq(Due), q \in Seq(Nat) :
          /\ ready' = ready \o q
          /\ \A k \in 1 .. Len(q) : order[k] \in Due /\ q[k] = order[k].id
    BY <1>6, TimersQueue
  <2>3. \A k \in 1 .. Len(q) : q[k] < nextId
    BY <2>2 DEF Due, Fresh
  <2>. QED  BY <1>4, <2>1, <2>2, <2>3
<1>7. CASE ExecuteCallback \/ SkipCancelled
  BY <1>2, <1>7 DEF ExecuteCallback, SkipCancelled
<1>8. CASE \E d \in Coroutine : Schedule(d)
  BY <1>3, <1>8 DEF Schedule, Register
<1>9. CASE \/ RunOnce \/ ReadyDone \/ Around \/ Return \/ UNCHANGED vars
           \/ \E d \in Coroutine : Destroy(d) \/ CancelSleep(d)
           \/ \E fd \in Fd, d \in Dir : AwaitIo(fd, d)
           \/ \E fd \in Fd : Close(fd) \/ Reopen(fd)
           \/ \E delay \in 0 .. MaxTime : Sleep(delay)
  BY <1>1, <1>9
  DEF RunOnce, ReadyDone, Around, Peer, Tick, Stop, Return, vars, loopVars,
      Destroy, CancelSleep, AwaitIo, Register, RegisterFails, Close, Reopen,
      Sleep
<1>. QED
  BY <1>5, <1>6, <1>7, <1>8, <1>9 DEF Next, LoopStep, CoroutineStep

\* The heap: only a sleep puts something on it.
LEMMA HeapType ==
    ASSUME FrameInv, RestTypeOK, Fresh, [Next]_vars
    PROVE  /\ scheduled' \subseteq [id : Nat, when : Nat]
           /\ IsFiniteSet(scheduled')
           /\ \A s \in scheduled' : s.id < nextId'
<1>0. /\ scheduled \subseteq [id : Nat, when : Nat] /\ IsFiniteSet(scheduled)
      /\ \A s \in scheduled : s.id < nextId
      /\ nextId \in Nat
  BY DEF RestTypeOK, Fresh, FrameInv, FrameTypeOK
<1>1. ASSUME scheduled' \subseteq scheduled, nextId' \in {nextId, nextId + 1}
      PROVE  /\ scheduled' \subseteq [id : Nat, when : Nat]
             /\ IsFiniteSet(scheduled')
             /\ \A s \in scheduled' : s.id < nextId'
  <2>1. IsFiniteSet(scheduled')
    BY <1>0, <1>1, FS_Subset
  <2>2. \A s \in scheduled' : s.id \in Nat /\ s.id < nextId
    BY <1>0, <1>1
  <2>3. \A s \in scheduled' : s.id < nextId'
    BY <1>0, <1>1, <2>2
  <2>. QED  BY <1>0, <1>1, <2>1, <2>3
<1>2. ASSUME NEW delay \in 0 .. MaxTime, Sleep(delay)
      PROVE  /\ scheduled' \subseteq [id : Nat, when : Nat]
             /\ IsFiniteSet(scheduled')
             /\ \A s \in scheduled' : s.id < nextId'
  <2>1. now + delay \in Nat
    BY MaxTimeAssumption DEF RestTypeOK
  <2> DEFINE new == [id |-> nextId, when |-> now + delay]
  <2>2. scheduled' = scheduled \cup {new} /\ nextId' = nextId + 1
    BY <1>2 DEF Sleep, Register
  <2>3. new \in [id : Nat, when : Nat] /\ new.id = nextId
    BY <1>0, <2>1
  <2> HIDE DEF new
  <2>4. IsFiniteSet(scheduled')
    BY <1>0, <2>2, FS_AddElement
  <2>5. \A s \in scheduled' : s.id \in Nat /\ s.id <= nextId
    BY <1>0, <2>2, <2>3
  <2>. QED  BY <1>0, <2>2, <2>3, <2>4, <2>5
<1>3. CASE \E d \in Coroutine : Destroy(d) \/ CancelSleep(d)
  <2>1. scheduled' \subseteq scheduled /\ nextId' = nextId
    BY <1>3 DEF Destroy, CancelSleep, CancelWaits
  <2>. QED  BY <1>1, <2>1
<1>4. CASE \/ RunOnce \/ ReadyDone \/ Around \/ Return \/ UNCHANGED vars
           \/ ExecuteCallback \/ SkipCancelled \/ ProcessEpollEvent
           \/ ProcessExpiredTimeout
           \/ \E d \in Coroutine : Schedule(d)
           \/ \E fd \in Fd, d \in Dir : AwaitIo(fd, d)
           \/ \E fd \in Fd : Close(fd) \/ Reopen(fd)
  <2>1. scheduled' \subseteq scheduled /\ nextId' \in {nextId, nextId + 1}
    BY <1>4
    DEF RunOnce, ReadyDone, Around, Peer, Tick, Stop, Return, vars, loopVars,
        ExecuteCallback, SkipCancelled, ProcessEpollEvent,
        ProcessExpiredTimeout, Schedule, AwaitIo, Register, RegisterFails,
        Close, Reopen
  <2>. QED  BY <1>1, <2>1
<1>. QED  BY <1>2, <1>3, <1>4 DEF Next, LoopStep, CoroutineStep

LEMMA RestType ==
    ASSUME FrameInv, RestTypeOK, Fresh, [Next]_vars
    PROVE  RestTypeOK'
<1>1. EpollTypeOK'
  BY EpollStep DEF RestTypeOK
<1>2. /\ ready' \in Seq(Nat) /\ scheduled' \subseteq [id : Nat, when : Nat]
      /\ IsFiniteSet(scheduled')
  BY QueueType, HeapType
<1>3. nextId' <= MaxId
  <2>1. \/ nextId' = nextId
        \/ nextId < MaxId /\ nextId' = nextId + 1
    BY DEF Next, LoopStep, CoroutineStep, Around, RunOnce, ReadyDone, Peer,
           Tick, Stop, Return, vars, loopVars, ExecuteCallback, SkipCancelled,
           ProcessEpollEvent, ProcessExpiredTimeout, Schedule, AwaitIo,
           Register, RegisterFails, Close, Reopen, Destroy, CancelSleep, Sleep
  <2>. QED  BY <2>1, MaxIdAssumption DEF RestTypeOK, FrameInv, FrameTypeOK
<1>4. /\ stop' \in BOOLEAN /\ phase' \in Phase
      /\ timeout' \in {"zero", "finite", "infinite"}
  BY DEF RestTypeOK, Phase, Timeout, Next, LoopStep, CoroutineStep, Around,
         RunOnce, ReadyDone, Peer, Tick, Stop, Return, vars, loopVars,
         ExecuteCallback, SkipCancelled, ProcessEpollEvent,
         ProcessExpiredTimeout, Schedule, AwaitIo, Close, Reopen, Destroy,
         CancelSleep, Sleep
<1>5. now' \in Nat /\ open' \subseteq Fd
  <2>1. now' \in {now, now + 1}
    BY DEF Next, LoopStep, CoroutineStep, Around,
           RunOnce, ReadyDone, Peer, Tick, Stop, Return, vars, loopVars,
           ExecuteCallback, SkipCancelled, ProcessEpollEvent,
           ProcessExpiredTimeout, Schedule, AwaitIo, Close, Reopen, Destroy,
           CancelSleep, Sleep
  <2>2. open' = open \/ \E fd \in Fd : open' \in {open \ {fd}, open \cup {fd}}
    BY DEF Next, LoopStep, CoroutineStep, Around,
           RunOnce, ReadyDone, Peer, Tick, Stop, Return, vars, loopVars,
           ExecuteCallback, SkipCancelled, ProcessEpollEvent,
           ProcessExpiredTimeout, Schedule, AwaitIo, Close, Reopen, Destroy,
           CancelSleep, Sleep
  <2>. QED  BY <2>1, <2>2 DEF RestTypeOK
<1>6. target' \in [Coroutine -> Fd \cup Nat]
  <2>1. \/ target' = target
        \/ \E c \in Coroutine, t \in Fd \cup Nat : target' = [target EXCEPT ![c] = t]
    <3>1. ASSUME NEW delay \in 0 .. MaxTime, Sleep(delay)
          PROVE  \E c \in Coroutine, t \in Fd \cup Nat :
                    target' = [target EXCEPT ![c] = t]
      <4>1. now + delay \in Nat /\ running \in Coroutine
        BY <3>1, MaxTimeAssumption DEF RestTypeOK, Sleep, FrameInv, FrameTypeOK
      <4>. QED  BY <3>1, <4>1 DEF Sleep
    <3>2. CASE ExecuteCallback
      <4>1. PICK cb \in callbacks : target' = [target EXCEPT ![cb.owner[2]] = 0]
        BY <3>2 DEF ExecuteCallback
      <4>. QED  BY <4>1, CallbackType
    <3>3. ASSUME NEW fd \in Fd, NEW d \in Dir, AwaitIo(fd, d)
          PROVE  \E c \in Coroutine, t \in Fd \cup Nat :
                    target' = [target EXCEPT ![c] = t]
      <4>1. running \in Coroutine
        BY <3>3 DEF AwaitIo, FrameInv, FrameTypeOK
      <4>. QED  BY <3>3, <4>1 DEF AwaitIo
    <3>4. ASSUME NEW d \in Coroutine, Destroy(d)
          PROVE  \E c \in Coroutine, t \in Fd \cup Nat :
                    target' = [target EXCEPT ![c] = t]
      BY <3>4 DEF Destroy
    <3>5. CASE \/ RunOnce \/ ReadyDone \/ Around \/ Return \/ UNCHANGED vars
               \/ SkipCancelled \/ ProcessEpollEvent \/ ProcessExpiredTimeout
               \/ \E d \in Coroutine : Schedule(d) \/ CancelSleep(d)
               \/ \E fd \in Fd : Close(fd) \/ Reopen(fd)
      BY <3>5
      DEF RunOnce, ReadyDone, Around, Peer, Tick, Stop, Return, vars, loopVars,
          SkipCancelled, ProcessEpollEvent, ProcessExpiredTimeout, Schedule,
          CancelSleep, Close, Reopen
    <3>. QED
      BY <3>1, <3>2, <3>3, <3>4, <3>5 DEF Next, LoopStep, CoroutineStep
  <2>. QED  BY <2>1 DEF RestTypeOK
<1>. QED  BY <1>1, <1>2, <1>3, <1>4, <1>5, <1>6 DEF RestTypeOK

LEMMA FreshStep ==
    ASSUME FrameInv, RestTypeOK, Fresh, [Next]_vars
    PROVE  Fresh'
<1>0. nextId \in Nat \ {0} /\ nextId' \in {nextId, nextId + 1}
  BY DEF FrameInv, FrameTypeOK, Next, LoopStep, CoroutineStep, Around, RunOnce,
         ReadyDone, Peer, Tick, Stop, Return, vars, loopVars, ExecuteCallback,
         SkipCancelled, ProcessEpollEvent, ProcessExpiredTimeout, Schedule,
         AwaitIo, Register, RegisterFails, Close, Reopen, Destroy, CancelSleep,
         Sleep
<1>1. \A fd \in Fd, d \in Dir : eventMap'[fd].wait[d] < nextId'
  <2>1. \A fd \in Fd, d \in Dir :
          eventMap[fd].wait[d] \in Nat /\ eventMap[fd].wait[d] < nextId
    BY DEF RestTypeOK, EpollTypeOK, Fresh
  <2>2. CASE WaitsChange(NoWait)
    BY <1>0, <2>1, <2>2 DEF WaitsChange, NoWait
  <2>3. ASSUME NEW fd \in Fd, NEW d \in Dir, AwaitIo(fd, d), WaitsChange(nextId)
        PROVE  \A f \in Fd, e \in Dir : eventMap'[f].wait[e] < nextId'
    <3>1. nextId' = nextId + 1
      BY <2>3 DEF AwaitIo, Register, RegisterFails
    <3>. QED  BY <1>0, <2>1, <2>3, <3>1 DEF WaitsChange, NoWait
  <2>. QED  BY <2>2, <2>3, EpollStep DEF RestTypeOK
<1>2. \A w \in coroWaits' : w.id < nextId'
  <2>1. \A w \in coroWaits : w.id \in Nat /\ w.id < nextId
    BY DEF FrameInv, FrameTypeOK, Fresh
  <2>2. CASE coroWaits' \subseteq coroWaits
    BY <1>0, <2>1, <2>2
  <2>3. ASSUME NEW owner, Register(owner)
        PROVE  \A w \in coroWaits' : w.id < nextId'
    BY <1>0, <2>1, <2>3 DEF Register
  <2>4. CASE \/ \E d \in Coroutine : Schedule(d)
             \/ \E fd \in Fd, d \in Dir : AwaitIo(fd, d)
             \/ \E delay \in 0 .. MaxTime : Sleep(delay)
    BY <2>2, <2>3, <2>4 DEF Schedule, AwaitIo, Sleep, RegisterFails
  <2>5. CASE \/ LoopStep \/ Around \/ Return \/ UNCHANGED vars
             \/ \E d \in Coroutine : Destroy(d) \/ CancelSleep(d)
             \/ \E fd \in Fd : Close(fd) \/ Reopen(fd)
    BY <2>2, <2>5
    DEF LoopStep, RunOnce, ReadyDone, Around, Peer, Tick, Stop, Return, vars,
        loopVars, ExecuteCallback, SkipCancelled, ProcessEpollEvent,
        ProcessExpiredTimeout, Destroy, Uncharge, CancelSleep, Close, Reopen
  <2>. QED  BY <2>4, <2>5 DEF Next, CoroutineStep
<1>3. \A c \in Coroutine : waitId'[c] < nextId'
  <2>1. /\ waitId \in [Coroutine -> Nat]
        /\ \A c \in Coroutine : waitId[c] \in Nat /\ waitId[c] < nextId
    BY DEF FrameInv, FrameTypeOK, Fresh
  <2>2. CASE waitId' = waitId
    BY <1>0, <2>1, <2>2
  <2>3. ASSUME NEW c, waitId' = [waitId EXCEPT ![c] = NoWait]
        PROVE  \A d \in Coroutine : waitId'[d] < nextId'
    BY <1>0, <2>1, <2>3 DEF NoWait
  <2>4. ASSUME NEW c, waitId' = [waitId EXCEPT ![c] = nextId],
               nextId' = nextId + 1
        PROVE  \A d \in Coroutine : waitId'[d] < nextId'
    BY <1>0, <2>1, <2>4
  <2>5. CASE LoopStep \/ Around \/ Return \/ UNCHANGED vars
    BY <2>2, <2>3, <2>5
    DEF LoopStep, RunOnce, ReadyDone, Around, Peer, Tick, Stop, Return, vars,
        loopVars, ExecuteCallback, SkipCancelled, ProcessEpollEvent,
        ProcessExpiredTimeout
  <2>6. CASE \/ \E d \in Coroutine : Schedule(d) \/ Destroy(d) \/ CancelSleep(d)
             \/ \E fd \in Fd, d \in Dir : AwaitIo(fd, d)
             \/ \E delay \in 0 .. MaxTime : Sleep(delay)
             \/ \E fd \in Fd : Close(fd) \/ Reopen(fd)
    BY <2>2, <2>3, <2>4, <2>6
    DEF Schedule, Destroy, CancelSleep, AwaitIo, Register, Sleep, Close, Reopen
  <2>. QED  BY <2>5, <2>6 DEF Next, CoroutineStep
<1>. QED  BY <1>1, <1>2, <1>3, QueueType, HeapType DEF Fresh

LEMMA InitTypes == Init => RestTypeOK /\ Fresh
<1> SUFFICES ASSUME Init PROVE RestTypeOK /\ Fresh
  OBVIOUS
<1>1. EpollTypeOK
  BY DEF Init, EpollInit, NoEntry, NoWait, EpollTypeOK
<1>2. ready = <<0>> /\ ready \in Seq(Nat) /\ Len(ready) = 1
  BY DEF Init
<1>3. IsFiniteSet(scheduled)
  BY FS_EmptySet DEF Init
<1>4. /\ nextId <= MaxId
      /\ scheduled = {} /\ stop \in BOOLEAN
      /\ phase \in Phase /\ timeout \in {"zero", "finite", "infinite"}
      /\ target \in [Coroutine -> Fd \cup Nat] /\ now \in Nat /\ open \subseteq Fd
  <2>1. nextId <= MaxId
    BY MaxIdAssumption DEF Init
  <2>2. target \in [Coroutine -> Fd \cup Nat] /\ now \in Nat
    BY DEF Init
  <2>3. /\ scheduled = {} /\ stop \in BOOLEAN /\ open \subseteq Fd
        /\ phase \in Phase /\ timeout \in {"zero", "finite", "infinite"}
    BY DEF Init, Phase
  <2>. QED  BY <2>1, <2>2, <2>3
<1>6. RestTypeOK
  BY <1>1, <1>2, <1>3, <1>4 DEF RestTypeOK
<1>5. Fresh
  BY <1>2 DEF Init, EpollInit, NoEntry, NoWait, Fresh
<1>. QED  BY <1>5, <1>6

LEMMA TypeSafety == Spec => [](FrameInv /\ RestTypeOK /\ Fresh)
<1>1. FrameInv /\ RestTypeOK /\ Fresh /\ [Next]_vars => RestTypeOK' /\ Fresh'
  BY RestType, FreshStep
<1>. QED  BY <1>1, InitTypes, FrameSafety, PTL DEF Spec

\* The loop and its epoll stay type correct, whatever the program shares,
\* closes and cancels; the ids in the queue, on the heap and in the entries
\* are ids that have been given out.
THEOREM TypeCorrect == Spec => []TypeOK
<1> SUFFICES FrameInv /\ RestTypeOK /\ Fresh => TypeOK
  BY TypeSafety, PTL
<1> SUFFICES ASSUME FrameInv, RestTypeOK, Fresh PROVE TypeOK
  OBVIOUS
<1>1. nextId \in Nat \ {0} /\ nextId <= MaxId /\ MaxId \in Nat
  BY MaxIdAssumption DEF FrameInv, FrameTypeOK, RestTypeOK
<1>2. ready \in Seq(0 .. MaxId)
  <2>1. /\ ready \in Seq(Nat) /\ Len(ready) \in Nat
        /\ ready \in [1 .. Len(ready) -> Nat]
    BY LenProperties DEF RestTypeOK
  <2>2. \A k \in 1 .. Len(ready) : ready[k] \in 0 .. MaxId
    BY <1>1, <2>1 DEF Fresh
  <2>3. ready = [k \in 1 .. Len(ready) |-> ready[k]]
    BY <2>1
  <2>4. [k \in 1 .. Len(ready) |-> ready[k]] \in Seq(0 .. MaxId)
    BY <2>1, <2>2
  <2>. QED  BY <2>3, <2>4
<1>3. /\ callbacks \subseteq [id : 0 .. MaxId, owner : Owner]
      /\ coroWaits \subseteq [id : 0 .. MaxId, owner : Owner]
  BY <1>1 DEF FrameInv, FrameTypeOK, IdsAreOwned, Fresh
<1>4. scheduled \subseteq [id : 0 .. MaxId, when : Nat]
  BY <1>1 DEF RestTypeOK, Fresh
<1>5. waitId \in [Coroutine -> 0 .. MaxId]
  BY <1>1 DEF FrameInv, FrameTypeOK, Fresh
<1>. QED
  BY <1>1, <1>2, <1>3, <1>4, <1>5
  DEF TypeOK, RestTypeOK, FrameInv, FrameTypeOK

-----------------------------------------------------------------------------
\* Timers.

\* Steps in which nobody gets a callback, an id or a sleep, and the queue loses
\* at most an id at its head that is no callback's any more.
NobodyRegisters ==
    /\ callbacks' \subseteq callbacks
    /\ scheduled' \subseteq scheduled
    /\ \A cb \in callbacks' :
         /\ co'[cb.owner[2]] = co[cb.owner[2]]
         /\ target'[cb.owner[2]] = target[cb.owner[2]]
         /\ \A s \in scheduled : s.id = cb.id => s \in scheduled'
    /\ \/ ready' = ready
       \/ /\ ready # <<>> /\ ready' = Tail(ready)
          /\ \A cb \in callbacks' : cb.id # Head(ready)
    /\ now' \in {now, now + 1}
    /\ WaitsChange(NoWait)

\* The queue after its head has been taken.
LEMMA QueueTail ==
    ASSUME ready \in Seq(Nat), ready # <<>>, ready' = Tail(ready)
    PROVE  /\ Len(ready) \in Nat
           /\ \A k \in 1 .. Len(ready') :
                k + 1 \in 1 .. Len(ready) /\ ready'[k] = ready[k + 1]
           /\ \A k \in 1 .. Len(ready) :
                ready[k] # Head(ready) =>
                    k - 1 \in 1 .. Len(ready') /\ ready'[k - 1] = ready[k]
<1>1. /\ Len(ready') = Len(ready) - 1 /\ Len(ready) \in Nat
      /\ \A k \in 1 .. Len(ready') : ready'[k] = ready[k + 1]
      /\ Head(ready) = ready[1]
  BY HeadTailProperties, LenProperties
<1>. QED  BY <1>1

\* The queue after ids have been appended.
LEMMA QueueAppended ==
    ASSUME ready \in Seq(Nat), NEW q \in Seq(Nat), ready' = ready \o q
    PROVE  /\ Len(ready) \in Nat /\ Len(q) \in Nat
           /\ \A k \in 1 .. Len(ready) :
                k \in 1 .. Len(ready') /\ ready'[k] = ready[k]
           /\ \A k \in 1 .. Len(q) : Len(ready) + k \in 1 .. Len(ready')
                                     /\ ready'[Len(ready) + k] = q[k]
           /\ \A k \in 1 .. Len(ready') :
                \/ k \in 1 .. Len(ready) /\ ready'[k] = ready[k]
                \/ /\ k > Len(ready) /\ k - Len(ready) \in 1 .. Len(q)
                   /\ ready'[k] = q[k - Len(ready)]
<1>1. /\ Len(ready') = Len(ready) + Len(q)
      /\ Len(ready) \in Nat /\ Len(q) \in Nat
      /\ \A k \in 1 .. Len(ready') :
           ready'[k] = IF k <= Len(ready) THEN ready[k] ELSE q[k - Len(ready)]
  BY ConcatProperties, LenProperties
<1>2. \A k \in 1 .. Len(q) : Len(ready) + k \in 1 .. Len(ready')
                             /\ ready'[Len(ready) + k] = q[k]
  BY <1>1
<1>. QED  BY <1>1, <1>2

LEMMA NobodyRegistersKeeps ==
    ASSUME LoopInv, NobodyRegisters
    PROVE  TimerBooks' /\ SleepsInOrder'
<1>0. /\ ready \in Seq(Nat) /\ now \in Nat
      /\ \A s \in scheduled : s.when \in Nat
  BY DEF LoopInv, RestTypeOK
<1>1. \A cb \in callbacks' :
        /\ cb \in callbacks /\ Sleeps(cb)' = Sleeps(cb)
        /\ co'[cb.owner[2]] = co[cb.owner[2]]
        /\ target'[cb.owner[2]] = target[cb.owner[2]]
  BY DEF NobodyRegisters, Sleeps
<1>2. \A cb \in callbacks' : cb.id \in InQueue' <=> cb.id \in InQueue
  <2>1. CASE ready' = ready
    BY <2>1 DEF InQueue
  <2>2. CASE /\ ready # <<>> /\ ready' = Tail(ready)
             /\ \A cb \in callbacks' : cb.id # Head(ready)
    <3>1. /\ \A k \in 1 .. Len(ready') :
               k + 1 \in 1 .. Len(ready) /\ ready'[k] = ready[k + 1]
          /\ \A k \in 1 .. Len(ready) :
               ready[k] # Head(ready) =>
                   k - 1 \in 1 .. Len(ready') /\ ready'[k - 1] = ready[k]
      BY <1>0, <2>2, QueueTail
    <3>2. \A id \in InQueue' : id \in InQueue
      BY <3>1 DEF InQueue
    <3>3. \A id \in InQueue : id # Head(ready) => id \in InQueue'
      BY <3>1 DEF InQueue
    <3>. QED  BY <2>2, <3>2, <3>3
  <2>. QED  BY <2>1, <2>2 DEF NobodyRegisters
<1>3. TimerBooks'
  <2>1. \A cb \in callbacks' :
          co'[cb.owner[2]] = "scheduled" => cb.id \in InQueue'
    BY <1>1, <1>2 DEF LoopInv, TimerBooks
  <2>2. ASSUME NEW cb \in callbacks', Sleeps(cb)'
        PROVE  /\ cb.id # NoWait /\ target'[cb.owner[2]] \in Nat
               /\ \/ cb.id \in InQueue'
                  \/ [id |-> cb.id, when |-> target'[cb.owner[2]]] \in scheduled'
               /\ \A fd \in Fd, d \in Dir : eventMap'[fd].wait[d] # cb.id
    <3>1. /\ cb.id # NoWait /\ target[cb.owner[2]] \in Nat
          /\ \/ cb.id \in InQueue
             \/ [id |-> cb.id, when |-> target[cb.owner[2]]] \in scheduled
          /\ \A fd \in Fd, d \in Dir : eventMap[fd].wait[d] # cb.id
      BY <1>1, <2>2 DEF LoopInv, TimerBooks
    <3>2. \A fd \in Fd, d \in Dir : eventMap'[fd].wait[d] # cb.id
      BY <3>1 DEF NobodyRegisters, WaitsChange
    <3>. QED  BY <1>1, <1>2, <3>1, <3>2 DEF NobodyRegisters
  <2>3. \A cb \in callbacks', s \in scheduled' :
          s.id = cb.id => Sleeps(cb)' /\ target'[cb.owner[2]] = s.when
    BY <1>1 DEF LoopInv, TimerBooks, NobodyRegisters
  <2>. QED  BY <2>1, <2>2, <2>3 DEF TimerBooks
<1>4. SleepsInOrder'
  <2>1. ASSUME NEW a \in callbacks', NEW b \in callbacks',
               NEW j \in 1 .. Len(ready'), NEW k \in 1 .. Len(ready'),
               Sleeps(a)', Sleeps(b)', j < k, ready'[j] = a.id, ready'[k] = b.id
        PROVE  target'[a.owner[2]] <= target'[b.owner[2]]
    <3>1. \E l, m \in 1 .. Len(ready) :
            l < m /\ ready[l] = a.id /\ ready[m] = b.id
      <4>1. CASE ready' = ready
        BY <2>1, <4>1
      <4>2. CASE ready # <<>> /\ ready' = Tail(ready)
        <5>1. /\ j + 1 \in 1 .. Len(ready) /\ ready[j + 1] = a.id
              /\ k + 1 \in 1 .. Len(ready) /\ ready[k + 1] = b.id
          BY <1>0, <2>1, <4>2, QueueTail
        <5>2. j + 1 < k + 1
          BY <2>1
        <5>. QED  BY <5>1, <5>2
      <4>. QED  BY <4>1, <4>2 DEF NobodyRegisters
    <3>. QED  BY <1>1, <2>1, <3>1 DEF LoopInv, SleepsInOrder
  <2>2. ASSUME NEW a \in callbacks', Sleeps(a)', a.id \in InQueue'
        PROVE  /\ target'[a.owner[2]] <= now'
               /\ \A s \in scheduled' : target'[a.owner[2]] <= s.when
    <3>1. /\ target[a.owner[2]] <= now /\ target[a.owner[2]] \in Nat
          /\ \A s \in scheduled : target[a.owner[2]] <= s.when
      BY <1>1, <1>2, <2>2 DEF LoopInv, SleepsInOrder, TimerBooks
    <3>2. now' >= now /\ now' \in Nat
      BY <1>0 DEF NobodyRegisters
    <3>. QED  BY <1>0, <1>1, <2>2, <3>1, <3>2 DEF NobodyRegisters
  <2>. QED  BY <2>1, <2>2 DEF SleepsInOrder
<1>. QED  BY <1>3, <1>4

\* Which steps these are.
LEMMA NobodyRegistersSteps ==
    ASSUME LoopInv, [Next]_vars,
           ~ \E d \in Coroutine : Schedule(d),
           ~ \E fd \in Fd, d \in Dir : AwaitIo(fd, d),
           ~ \E delay \in 0 .. MaxTime : Sleep(delay),
           ~ ProcessEpollEvent, ~ ProcessExpiredTimeout
    PROVE  NobodyRegisters
<1>0. WaitsChange(NoWait)
  BY EpollStep DEF LoopInv, RestTypeOK
<1>1. CASE ExecuteCallback
  <2>1. PICK cb \in callbacks :
          /\ cb.id = Head(ready)
          /\ callbacks' = callbacks \ {cb}
          /\ co' = [co EXCEPT ![cb.owner[2]] = "running"]
          /\ target' = [target EXCEPT ![cb.owner[2]] = 0]
    BY <1>1 DEF ExecuteCallback
  <2>2. /\ ready # <<>> /\ ready' = Tail(ready)
        /\ scheduled' = scheduled /\ now' = now
    BY <1>1 DEF ExecuteCallback
  <2>3. \A other \in callbacks' :
          other.owner[2] # cb.owner[2] /\ other.id # cb.id
          /\ other.owner[2] \in Coroutine
    BY <2>1, CallbackType DEF LoopInv, FrameInv, AwaiterKnowsItsWait, IdsAreOwned
  <2>4. co \in [Coroutine -> State] /\ target \in [Coroutine -> Fd \cup Nat]
    BY DEF LoopInv, FrameInv, FrameTypeOK, RestTypeOK
  <2>. QED  BY <1>0, <2>1, <2>2, <2>3, <2>4 DEF NobodyRegisters
<1>2. ASSUME NEW d \in Coroutine, Destroy(d) PROVE NobodyRegisters
  <2> DEFINE mine == WaitsOf(<<"promise", d>>) \cup WaitsOf(<<"timer", d>>)
  <2>1. /\ callbacks' = {cb \in callbacks : cb.id \notin {w.id : w \in mine}}
        /\ scheduled' = {s \in scheduled : s.id \notin {w.id : w \in mine}}
        /\ co' = [co EXCEPT ![d] = "done"]
        /\ target' = [target EXCEPT ![d] = 0]
        /\ ready' = ready /\ now' = now
    BY <1>2 DEF Destroy, CancelWaits
  <2>2. \A cb \in callbacks' : cb.owner[2] # d /\ cb.owner[2] \in Coroutine
    <3> SUFFICES ASSUME NEW cb \in callbacks, cb.id \notin {w.id : w \in mine}
                 PROVE  cb.owner[2] # d /\ cb.owner[2] \in Coroutine
      BY <2>1
    <3>1. cb \in coroWaits /\ cb \notin mine
      BY DEF LoopInv, FrameInv, IdsAreOwned
    <3>2. cb.owner # <<"promise", d>> /\ cb.owner # <<"timer", d>>
      BY <3>1 DEF WaitsOf
    <3>. QED  BY <3>1, <3>2, OwnerType DEF LoopInv
  <2>3. co \in [Coroutine -> State] /\ target \in [Coroutine -> Fd \cup Nat]
    BY DEF LoopInv, FrameInv, FrameTypeOK, RestTypeOK
  <2>4. \A cb \in callbacks', s \in scheduled : s.id = cb.id => s \in scheduled'
    BY <2>1
  <2> HIDE DEF mine
  <2>. QED  BY <1>0, <2>1, <2>2, <2>3, <2>4 DEF NobodyRegisters
<1>3. ASSUME NEW d \in Coroutine, CancelSleep(d) PROVE NobodyRegisters
  BY <1>0, <1>3 DEF CancelSleep, CancelWaits, NobodyRegisters
<1>4. CASE SkipCancelled
  BY <1>0, <1>4 DEF SkipCancelled, NobodyRegisters
<1>5. CASE Return
  <2>1. \A cb \in callbacks : cb.owner[2] # running /\ cb.owner[2] \in Coroutine
    BY CallbackType
    DEF LoopInv, FrameInv, FrameTypeOK, NoCallbackForDeadFrame, Suspended, Dir
  <2>2. co \in [Coroutine -> State]
    BY DEF LoopInv, FrameInv, FrameTypeOK
  <2>. QED  BY <1>0, <1>5, <2>1, <2>2 DEF Return, NobodyRegisters
<1>6. CASE \/ RunOnce \/ ReadyDone \/ Around \/ UNCHANGED vars
           \/ \E fd \in Fd : Close(fd) \/ Reopen(fd)
  BY <1>0, <1>6
  DEF RunOnce, ReadyDone, Around, Peer, Tick, Stop, vars, loopVars, Close,
      Reopen, NobodyRegisters
<1>. QED
  BY <1>1, <1>2, <1>3, <1>4, <1>5, <1>6 DEF Next, LoopStep, CoroutineStep

\* A coroutine that has no callback is given one, and its awaiter is told.
LEMMA RegisterKeeps ==
    ASSUME LoopInv, NEW c \in Coroutine, co[c] \notin Suspended,
           NEW owner, owner[2] = c, Register(owner),
           NEW st, co' = [co EXCEPT ![c] = st],
           NEW t, target' = [target EXCEPT ![c] = t] \/ target' = target
    PROVE  /\ nextId \in Nat \ {0}
           /\ \A cb \in callbacks :
                /\ cb.id # nextId /\ cb.owner[2] \in Coroutine
                /\ Sleeps(cb)' = Sleeps(cb)
                /\ co'[cb.owner[2]] = co[cb.owner[2]]
                /\ target'[cb.owner[2]] = target[cb.owner[2]]
           /\ \A cb \in callbacks' :
                \/ cb \in callbacks
                \/ cb.id = nextId /\ cb.owner[2] = c /\ co'[cb.owner[2]] = st
           /\ \A fd \in Fd, d \in Dir : eventMap[fd].wait[d] # nextId
           /\ \A s \in scheduled : s.id # nextId
           /\ \A k \in 1 .. Len(ready) : ready[k] # nextId
<1>1. nextId \in Nat \ {0}
  BY DEF LoopInv, FrameInv, FrameTypeOK
<1>2. \A cb \in callbacks :
        cb.id # nextId /\ cb.owner[2] \in Coroutine /\ cb.owner[2] # c
  BY CallbackType DEF LoopInv, FrameInv, NoCallbackForDeadFrame
<1>3. co \in [Coroutine -> State] /\ target \in [Coroutine -> Fd \cup Nat]
  BY DEF LoopInv, FrameInv, FrameTypeOK, RestTypeOK
<1>4. \A cb \in callbacks : /\ co'[cb.owner[2]] = co[cb.owner[2]]
                            /\ target'[cb.owner[2]] = target[cb.owner[2]]
  BY <1>2, <1>3
<1>5. \A cb \in callbacks' :
        \/ cb \in callbacks
        \/ cb.id = nextId /\ cb.owner[2] = c /\ co'[cb.owner[2]] = st
  BY <1>3 DEF Register
<1>6. /\ \A fd \in Fd, d \in Dir : eventMap[fd].wait[d] # nextId
      /\ \A s \in scheduled : s.id # nextId
      /\ \A k \in 1 .. Len(ready) : ready[k] # nextId
  BY <1>1 DEF LoopInv, Fresh
<1>. QED  BY <1>1, <1>2, <1>4, <1>5, <1>6 DEF Sleeps

LEMMA ScheduleKeeps ==
    ASSUME LoopInv, NEW d \in Coroutine, Schedule(d)
    PROVE  TimerBooks' /\ SleepsInOrder'
<1>0. /\ Register(<<"promise", d>>) /\ <<"promise", d>>[2] = d
      /\ co[d] = "new" /\ co[d] \notin Suspended
      /\ co' = [co EXCEPT ![d] = "scheduled"]
      /\ target' = target /\ scheduled' = scheduled /\ now' = now
      /\ eventMap' = eventMap
      /\ ready' = Append(ready, nextId)
  BY DEF Schedule, Suspended, Dir, epollVars
<1>1. /\ nextId \in Nat \ {0}
      /\ \A cb \in callbacks :
           /\ cb.id # nextId /\ cb.owner[2] \in Coroutine
           /\ Sleeps(cb)' = Sleeps(cb)
           /\ co'[cb.owner[2]] = co[cb.owner[2]]
           /\ target'[cb.owner[2]] = target[cb.owner[2]]
      /\ \A cb \in callbacks' :
           \/ cb \in callbacks
           \/ /\ cb.id = nextId /\ cb.owner[2] = d
              /\ co'[cb.owner[2]] = "scheduled"
      /\ \A s \in scheduled : s.id # nextId
  BY <1>0, RegisterKeeps
<1>2. /\ Len(ready) \in Nat /\ Len(ready') = Len(ready) + 1
      /\ \A k \in 1 .. Len(ready') :
           ready'[k] = IF k <= Len(ready) THEN ready[k] ELSE nextId
  BY <1>0, <1>1, LenProperties DEF LoopInv, RestTypeOK
<1>3. nextId \in InQueue' /\ \A id \in InQueue : id \in InQueue'
  BY <1>1, <1>2 DEF InQueue
<1>4. \A cb \in callbacks' : Sleeps(cb)' =>
        cb \in callbacks /\ Sleeps(cb) /\ cb.id # nextId
  BY <1>1 DEF Sleeps
<1>5. \A cb \in callbacks : cb.id \in InQueue' => cb.id \in InQueue
  BY <1>1, <1>2 DEF InQueue
<1>6. TimerBooks'
  <2>1. \A cb \in callbacks' :
          co'[cb.owner[2]] = "scheduled" => cb.id \in InQueue'
    BY <1>1, <1>3 DEF LoopInv, TimerBooks
  <2>2. \A cb \in callbacks' : Sleeps(cb)' =>
          /\ cb.id # NoWait /\ target'[cb.owner[2]] \in Nat
          /\ \/ cb.id \in InQueue'
             \/ [id |-> cb.id, when |-> target'[cb.owner[2]]] \in scheduled'
          /\ \A fd \in Fd, e \in Dir : eventMap'[fd].wait[e] # cb.id
    BY <1>0, <1>1, <1>3, <1>4 DEF LoopInv, TimerBooks
  <2>3. \A cb \in callbacks', s \in scheduled' :
          s.id = cb.id => Sleeps(cb)' /\ target'[cb.owner[2]] = s.when
    BY <1>0, <1>1 DEF LoopInv, TimerBooks
  <2>. QED  BY <2>1, <2>2, <2>3 DEF TimerBooks
<1>7. SleepsInOrder'
  <2>1. ASSUME NEW a \in callbacks', NEW b \in callbacks',
               NEW j \in 1 .. Len(ready'), NEW k \in 1 .. Len(ready'),
               Sleeps(a)', Sleeps(b)', j < k, ready'[j] = a.id, ready'[k] = b.id
        PROVE  target'[a.owner[2]] <= target'[b.owner[2]]
    <3>1. /\ a \in callbacks /\ Sleeps(a) /\ a.id # nextId
          /\ b \in callbacks /\ Sleeps(b) /\ b.id # nextId
      BY <1>4, <2>1
    <3>2. /\ j \in 1 .. Len(ready) /\ ready[j] = a.id
          /\ k \in 1 .. Len(ready) /\ ready[k] = b.id
      BY <1>2, <2>1, <3>1
    <3>. QED  BY <1>1, <2>1, <3>1, <3>2 DEF LoopInv, SleepsInOrder
  <2>2. ASSUME NEW a \in callbacks', Sleeps(a)', a.id \in InQueue'
        PROVE  /\ target'[a.owner[2]] <= now'
               /\ \A s \in scheduled' : target'[a.owner[2]] <= s.when
    BY <1>0, <1>1, <1>4, <1>5, <2>2 DEF LoopInv, SleepsInOrder
  <2>. QED  BY <2>1, <2>2 DEF SleepsInOrder
<1>. QED  BY <1>6, <1>7

LEMMA AwaitIoKeeps ==
    ASSUME LoopInv, NEW fd \in Fd, NEW d \in Dir, AwaitIo(fd, d)
    PROVE  TimerBooks' /\ SleepsInOrder'
<1>0. /\ running \in Coroutine /\ co[running] \notin Suspended
      /\ co' = [co EXCEPT ![running] = d]
      /\ target' = [target EXCEPT ![running] = fd]
      /\ ready' = ready /\ scheduled' = scheduled /\ now' = now
      /\ d # "scheduled" /\ d # "sleeping"
      /\ co \in [Coroutine -> State] /\ target \in [Coroutine -> Fd \cup Nat]
  BY DEF AwaitIo, LoopInv, FrameInv, FrameTypeOK, RestTypeOK, Suspended, Dir
<1>1. /\ \A cb \in callbacks :
           /\ cb.id # nextId
           /\ Sleeps(cb)' = Sleeps(cb)
           /\ co'[cb.owner[2]] = co[cb.owner[2]]
           /\ target'[cb.owner[2]] = target[cb.owner[2]]
      /\ \A cb \in callbacks' :
           \/ cb \in callbacks
           \/ cb.id = nextId /\ co'[cb.owner[2]] = d
      /\ \A s \in scheduled : s.id # nextId
  <2>1. CASE Register(<<"promise", running>>)
    <3>1. <<"promise", running>>[2] = running
      OBVIOUS
    <3>2. /\ running \in Coroutine /\ co[running] \notin Suspended
          /\ co' = [co EXCEPT ![running] = d]
          /\ target' = [target EXCEPT ![running] = fd]
      BY <1>0
    <3>3. /\ \A cb \in callbacks :
               /\ cb.id # nextId
               /\ Sleeps(cb)' = Sleeps(cb)
               /\ co'[cb.owner[2]] = co[cb.owner[2]]
               /\ target'[cb.owner[2]] = target[cb.owner[2]]
          /\ \A s \in scheduled : s.id # nextId
      BY <2>1, <3>1, <3>2, RegisterKeeps
    <3>4. \A cb \in callbacks' :
            cb \in callbacks \/ (cb.id = nextId /\ co'[cb.owner[2]] = d)
      BY <1>0, <2>1, <3>2 DEF Register
    <3>. QED  BY <3>3, <3>4
  <2>2. CASE RegisterFails
    <3>1. \A cb \in callbacks :
            cb.id # nextId /\ cb.owner[2] \in Coroutine /\ cb.owner[2] # running
      BY <1>0, CallbackType DEF LoopInv, FrameInv, NoCallbackForDeadFrame
    <3>2. \A s \in scheduled : s.id # nextId
      BY DEF LoopInv, Fresh, FrameInv, FrameTypeOK, RestTypeOK
    <3>. QED  BY <1>0, <2>2, <3>1, <3>2 DEF RegisterFails, Sleeps
  <2>. QED  BY <2>1, <2>2 DEF AwaitIo
<1>2. \A f \in Fd, e \in Dir :
        eventMap'[f].wait[e] \in {eventMap[f].wait[e], NoWait, nextId}
  BY EpollStep DEF LoopInv, RestTypeOK, WaitsChange, Next, CoroutineStep
<1>3. \A cb \in callbacks' : /\ Sleeps(cb)' => cb \in callbacks /\ Sleeps(cb)
                             /\ co'[cb.owner[2]] = "scheduled" => cb \in callbacks
  BY <1>0, <1>1 DEF Sleeps
<1>4. InQueue' = InQueue
  BY <1>0 DEF InQueue
<1>5. TimerBooks'
  <2>1. \A cb \in callbacks' :
          co'[cb.owner[2]] = "scheduled" => cb.id \in InQueue'
    BY <1>1, <1>3, <1>4 DEF LoopInv, TimerBooks
  <2>2. \A cb \in callbacks' : Sleeps(cb)' =>
          /\ cb.id # NoWait /\ target'[cb.owner[2]] \in Nat
          /\ \/ cb.id \in InQueue'
             \/ [id |-> cb.id, when |-> target'[cb.owner[2]]] \in scheduled'
          /\ \A f \in Fd, e \in Dir : eventMap'[f].wait[e] # cb.id
    BY <1>0, <1>1, <1>2, <1>3, <1>4 DEF LoopInv, TimerBooks
  <2>3. \A cb \in callbacks', s \in scheduled' :
          s.id = cb.id => Sleeps(cb)' /\ target'[cb.owner[2]] = s.when
    BY <1>0, <1>1 DEF LoopInv, TimerBooks
  <2>. QED  BY <2>1, <2>2, <2>3 DEF TimerBooks
<1>6. SleepsInOrder'
  <2>1. \A a, b \in callbacks', j, k \in 1 .. Len(ready') :
          /\ Sleeps(a)' /\ Sleeps(b)' /\ j < k
          /\ ready'[j] = a.id /\ ready'[k] = b.id
          => target'[a.owner[2]] <= target'[b.owner[2]]
    BY <1>0, <1>1, <1>3 DEF LoopInv, SleepsInOrder
  <2>2. \A a \in callbacks' : Sleeps(a)' /\ a.id \in InQueue' =>
          /\ target'[a.owner[2]] <= now'
          /\ \A s \in scheduled' : target'[a.owner[2]] <= s.when
    BY <1>0, <1>1, <1>3, <1>4 DEF LoopInv, SleepsInOrder
  <2>. QED  BY <2>1, <2>2 DEF SleepsInOrder
<1>. QED  BY <1>5, <1>6

\* A new sleep ends no earlier than now, so it is no earlier than what is
\* queued.
LEMMA SleepKeeps ==
    ASSUME LoopInv, NEW delay \in 0 .. MaxTime, Sleep(delay)
    PROVE  TimerBooks' /\ SleepsInOrder'
<1> DEFINE when == now + delay
           new == [id |-> nextId, when |-> when]
<1>0. /\ running \in Coroutine /\ co[running] \notin Suspended
      /\ Register(<<"timer", running>>) /\ <<"timer", running>>[2] = running
      /\ co' = [co EXCEPT ![running] = "sleeping"]
      /\ target' = [target EXCEPT ![running] = when]
      /\ scheduled' = scheduled \cup {new}
      /\ ready' = ready /\ now' = now /\ eventMap' = eventMap
  BY DEF Sleep, LoopInv, FrameInv, FrameTypeOK, Suspended, Dir, epollVars
<1>1. /\ nextId \in Nat \ {0}
      /\ \A cb \in callbacks :
           /\ cb.id # nextId /\ cb.owner[2] \in Coroutine
           /\ Sleeps(cb)' = Sleeps(cb)
           /\ co'[cb.owner[2]] = co[cb.owner[2]]
           /\ target'[cb.owner[2]] = target[cb.owner[2]]
      /\ \A cb \in callbacks' :
           \/ cb \in callbacks
           \/ /\ cb.id = nextId /\ cb.owner[2] = running
              /\ co'[cb.owner[2]] = "sleeping"
      /\ \A fd \in Fd, d \in Dir : eventMap[fd].wait[d] # nextId
      /\ \A s \in scheduled : s.id # nextId
      /\ \A k \in 1 .. Len(ready) : ready[k] # nextId
  BY <1>0, RegisterKeeps
<1>2. /\ now \in Nat /\ when \in Nat /\ when >= now
      /\ target'[running] = when /\ new.id = nextId /\ new.when = when
  BY <1>0, MaxTimeAssumption DEF LoopInv, RestTypeOK
<1>3. \A cb \in callbacks' :
        \/ cb \in callbacks
        \/ /\ cb.id = nextId /\ target'[cb.owner[2]] = when
           /\ Sleeps(cb)' /\ co'[cb.owner[2]] # "scheduled"
  BY <1>1, <1>2 DEF Sleeps
<1>4. InQueue' = InQueue /\ nextId \notin InQueue
  BY <1>0, <1>1 DEF InQueue
<1> HIDE DEF new, when
<1>5. TimerBooks'
  <2>1. \A cb \in callbacks' :
          co'[cb.owner[2]] = "scheduled" => cb.id \in InQueue'
    BY <1>1, <1>3, <1>4 DEF LoopInv, TimerBooks
  <2>2. ASSUME NEW cb \in callbacks', Sleeps(cb)'
        PROVE  /\ cb.id # NoWait /\ target'[cb.owner[2]] \in Nat
               /\ \/ cb.id \in InQueue'
                  \/ [id |-> cb.id, when |-> target'[cb.owner[2]]] \in scheduled'
               /\ \A fd \in Fd, d \in Dir : eventMap'[fd].wait[d] # cb.id
    <3>1. CASE cb \in callbacks
      BY <1>0, <1>1, <1>4, <2>2, <3>1 DEF LoopInv, TimerBooks
    <3>2. CASE cb.id = nextId /\ target'[cb.owner[2]] = when
      <4>1. [id |-> cb.id, when |-> target'[cb.owner[2]]] \in scheduled'
        BY <1>0, <3>2 DEF new
      <4>. QED  BY <1>0, <1>1, <1>2, <3>2, <4>1 DEF NoWait
    <3>. QED  BY <1>3, <3>1, <3>2
  <2>3. ASSUME NEW cb \in callbacks', NEW s \in scheduled', s.id = cb.id
        PROVE  Sleeps(cb)' /\ target'[cb.owner[2]] = s.when
    <3>1. CASE cb \in callbacks
      BY <1>0, <1>1, <1>2, <2>3, <3>1 DEF LoopInv, TimerBooks
    <3>2. CASE cb.id = nextId /\ target'[cb.owner[2]] = when /\ Sleeps(cb)'
      BY <1>0, <1>1, <1>2, <2>3, <3>2
    <3>. QED  BY <1>3, <3>1, <3>2
  <2>. QED  BY <2>1, <2>2, <2>3 DEF TimerBooks
<1>6. SleepsInOrder'
  <2>1. ASSUME NEW a \in callbacks', NEW b \in callbacks',
               NEW j \in 1 .. Len(ready'), NEW k \in 1 .. Len(ready'),
               Sleeps(a)', Sleeps(b)', j < k, ready'[j] = a.id, ready'[k] = b.id
        PROVE  target'[a.owner[2]] <= target'[b.owner[2]]
    <3>1. a \in callbacks /\ b \in callbacks
      BY <1>0, <1>1, <1>3, <2>1
    <3>. QED  BY <1>0, <1>1, <2>1, <3>1 DEF LoopInv, SleepsInOrder
  <2>2. ASSUME NEW a \in callbacks', Sleeps(a)', a.id \in InQueue'
        PROVE  /\ target'[a.owner[2]] <= now'
               /\ \A s \in scheduled' : target'[a.owner[2]] <= s.when
    <3>1. a \in callbacks /\ Sleeps(a) /\ a.id \in InQueue
      BY <1>1, <1>3, <1>4, <2>2
    <3>2. /\ target[a.owner[2]] <= now /\ target[a.owner[2]] \in Nat
          /\ \A s \in scheduled : target[a.owner[2]] <= s.when
      BY <3>1 DEF LoopInv, SleepsInOrder, TimerBooks
    <3>. QED  BY <1>0, <1>1, <1>2, <3>1, <3>2
  <2>. QED  BY <2>1, <2>2 DEF SleepsInOrder
<1>. QED  BY <1>5, <1>6

\* What epoll queues is no sleeper's.
LEMMA EpollEventKeeps ==
    ASSUME LoopInv, ProcessEpollEvent
    PROVE  TimerBooks' /\ SleepsInOrder'
<1>0. /\ callbacks' = callbacks /\ co' = co /\ target' = target /\ now' = now
      /\ scheduled' = scheduled /\ eventMap' = eventMap
      /\ ready \in Seq(Nat)
  BY DEF ProcessEpollEvent, ReportFired, LoopInv, RestTypeOK
<1>1. PICK q \in Seq(Nat) : /\ ready' = ready \o q
                            /\ \A k \in 1 .. Len(q) : q[k] \in FiredWaits
  BY EpollQueues DEF LoopInv
<1>2. /\ Len(ready) \in Nat
      /\ \A k \in 1 .. Len(ready) : k \in 1 .. Len(ready') /\ ready'[k] = ready[k]
      /\ \A k \in 1 .. Len(ready') :
           \/ k \in 1 .. Len(ready) /\ ready'[k] = ready[k]
           \/ k > Len(ready) /\ ready'[k] \in FiredWaits
  BY <1>0, <1>1, QueueAppended
<1>3. \A cb \in callbacks : Sleeps(cb) => cb.id \notin FiredWaits
  <2>1. \A id \in FiredWaits : \E fd \in Fd, d \in Dir : id = eventMap[fd].wait[d]
    BY DEF FiredWaits, Fired, Reported, LoopInv, RestTypeOK, EpollTypeOK
  <2>. QED  BY <2>1 DEF LoopInv, TimerBooks
<1>4. \A cb \in callbacks : Sleeps(cb)' = Sleeps(cb)
  BY <1>0 DEF Sleeps
<1>5. \A id \in InQueue : id \in InQueue'
  BY <1>2 DEF InQueue
<1>6. \A cb \in callbacks, k \in 1 .. Len(ready') :
        Sleeps(cb) /\ ready'[k] = cb.id
            => k \in 1 .. Len(ready) /\ ready[k] = cb.id
  BY <1>2, <1>3
<1>7. \A cb \in callbacks : Sleeps(cb) /\ cb.id \in InQueue' => cb.id \in InQueue
  BY <1>6 DEF InQueue
<1>8. TimerBooks'
  <2>1. \A cb \in callbacks' :
          co'[cb.owner[2]] = "scheduled" => cb.id \in InQueue'
    BY <1>0, <1>5 DEF LoopInv, TimerBooks
  <2>2. \A cb \in callbacks' : Sleeps(cb)' =>
          /\ cb.id # NoWait /\ target'[cb.owner[2]] \in Nat
          /\ \/ cb.id \in InQueue'
             \/ [id |-> cb.id, when |-> target'[cb.owner[2]]] \in scheduled'
          /\ \A fd \in Fd, d \in Dir : eventMap'[fd].wait[d] # cb.id
    BY <1>0, <1>4, <1>5 DEF LoopInv, TimerBooks
  <2>3. \A cb \in callbacks', s \in scheduled' :
          s.id = cb.id => Sleeps(cb)' /\ target'[cb.owner[2]] = s.when
    BY <1>0, <1>4 DEF LoopInv, TimerBooks
  <2>. QED  BY <2>1, <2>2, <2>3 DEF TimerBooks
<1>9. SleepsInOrder'
  <2>1. \A a, b \in callbacks', j, k \in 1 .. Len(ready') :
          /\ Sleeps(a)' /\ Sleeps(b)' /\ j < k
          /\ ready'[j] = a.id /\ ready'[k] = b.id
          => target'[a.owner[2]] <= target'[b.owner[2]]
    BY <1>0, <1>4, <1>6 DEF LoopInv, SleepsInOrder
  <2>2. \A a \in callbacks' : Sleeps(a)' /\ a.id \in InQueue' =>
          /\ target'[a.owner[2]] <= now'
          /\ \A s \in scheduled' : target'[a.owner[2]] <= s.when
    BY <1>0, <1>4, <1>7 DEF LoopInv, SleepsInOrder
  <2>. QED  BY <2>1, <2>2 DEF SleepsInOrder
<1>. QED  BY <1>8, <1>9

\* What expires is no earlier than what is queued already, and earlier than
\* what stays on the heap.
LEMMA TimeoutKeeps ==
    ASSUME LoopInv, ProcessExpiredTimeout
    PROVE  TimerBooks' /\ SleepsInOrder'
<1>0. /\ callbacks' = callbacks /\ co' = co /\ target' = target /\ now' = now
      /\ scheduled' = scheduled \ Due /\ eventMap' = eventMap
      /\ ready \in Seq(Nat) /\ now \in Nat
      /\ scheduled \subseteq [id : Nat, when : Nat]
  BY DEF ProcessExpiredTimeout, LoopInv, RestTypeOK, epollVars
<1>1. PICK order \in Seq(Due), q \in Seq(Nat) :
        /\ ready' = ready \o q
        /\ EarliestFirst(order)
        /\ Len(q) = Len(order) /\ DOMAIN order = 1 .. Len(q)
        /\ \A k \in 1 .. Len(q) : order[k] \in Due /\ q[k] = order[k].id
        /\ \A s \in Due : \E k \in 1 .. Len(q) : order[k] = s
  BY TimersQueue DEF LoopInv
<1>2. /\ Len(ready) \in Nat /\ Len(q) \in Nat
      /\ \A k \in 1 .. Len(ready) : k \in 1 .. Len(ready') /\ ready'[k] = ready[k]
      /\ \A k \in 1 .. Len(q) : Len(ready) + k \in 1 .. Len(ready')
                                /\ ready'[Len(ready) + k] = q[k]
      /\ \A k \in 1 .. Len(ready') :
           \/ k \in 1 .. Len(ready) /\ ready'[k] = ready[k]
           \/ /\ k > Len(ready) /\ k - Len(ready) \in 1 .. Len(q)
              /\ ready'[k] = q[k - Len(ready)]
  BY <1>0, <1>1, QueueAppended
<1>3. \A cb \in callbacks : Sleeps(cb)' = Sleeps(cb)
  BY <1>0 DEF Sleeps
<1>4. \A id \in InQueue : id \in InQueue'
  BY <1>2 DEF InQueue
<1>5. \A s \in Due : s.id \in InQueue' /\ s \in scheduled /\ s.when <= now
  <2> SUFFICES ASSUME NEW s \in Due PROVE s.id \in InQueue'
    BY DEF Due
  <2>1. PICK k \in 1 .. Len(q) : order[k] = s
    BY <1>1
  <2>2. q[k] = s.id
    BY <1>1, <2>1
  <2>. QED  BY <1>2, <2>2 DEF InQueue
<1>6. \A s \in scheduled' : s \in scheduled /\ s.when \in Nat /\ s.when > now
  BY <1>0 DEF Due
<1>7. ASSUME NEW cb \in callbacks, Sleeps(cb),
             NEW k \in 1 .. Len(ready'), ready'[k] = cb.id
      PROVE  \/ k \in 1 .. Len(ready) /\ ready[k] = cb.id
             \/ /\ k > Len(ready) /\ k - Len(ready) \in 1 .. Len(q)
                /\ order[k - Len(ready)].when = target[cb.owner[2]]
                /\ order[k - Len(ready)] \in Due
  <2>1. CASE k > Len(ready) /\ k - Len(ready) \in 1 .. Len(q)
             /\ ready'[k] = q[k - Len(ready)]
    <3>1. /\ order[k - Len(ready)] \in Due
          /\ order[k - Len(ready)].id = cb.id
      BY <1>1, <1>7, <2>1
    <3>2. order[k - Len(ready)].when = target[cb.owner[2]]
      BY <1>5, <3>1 DEF LoopInv, TimerBooks
    <3>. QED  BY <2>1, <3>1, <3>2
  <2>. QED  BY <1>2, <1>7, <2>1
<1>8. TimerBooks'
  <2>1. \A cb \in callbacks' :
          co'[cb.owner[2]] = "scheduled" => cb.id \in InQueue'
    BY <1>0, <1>4 DEF LoopInv, TimerBooks
  <2>2. ASSUME NEW cb \in callbacks', Sleeps(cb)'
        PROVE  /\ cb.id # NoWait /\ target'[cb.owner[2]] \in Nat
               /\ \/ cb.id \in InQueue'
                  \/ [id |-> cb.id, when |-> target'[cb.owner[2]]] \in scheduled'
               /\ \A fd \in Fd, d \in Dir : eventMap'[fd].wait[d] # cb.id
    <3> DEFINE s == [id |-> cb.id, when |-> target[cb.owner[2]]]
    <3>1. /\ cb \in callbacks /\ Sleeps(cb)
          /\ cb.id # NoWait /\ target[cb.owner[2]] \in Nat
          /\ cb.id \in InQueue \/ s \in scheduled
          /\ \A fd \in Fd, d \in Dir : eventMap[fd].wait[d] # cb.id
      BY <1>0, <1>3, <2>2 DEF LoopInv, TimerBooks
    <3>2. s.id = cb.id
      OBVIOUS
    <3>3. cb.id \in InQueue' \/ s \in scheduled'
      <4> HIDE DEF s
      <4>. QED  BY <1>0, <1>4, <1>5, <3>1, <3>2
    <3>. QED  BY <1>0, <3>1, <3>3
  <2>3. \A cb \in callbacks', s \in scheduled' :
          s.id = cb.id => Sleeps(cb)' /\ target'[cb.owner[2]] = s.when
    BY <1>0, <1>3 DEF LoopInv, TimerBooks
  <2>. QED  BY <2>1, <2>2, <2>3 DEF TimerBooks
<1>9. SleepsInOrder'
  <2>1. ASSUME NEW a \in callbacks, NEW b \in callbacks,
               NEW j \in 1 .. Len(ready'), NEW k \in 1 .. Len(ready'),
               Sleeps(a), Sleeps(b), j < k, ready'[j] = a.id, ready'[k] = b.id
        PROVE  target[a.owner[2]] <= target[b.owner[2]]
    <3>1. CASE k \in 1 .. Len(ready) /\ ready[k] = b.id
      <4>1. j \in 1 .. Len(ready) /\ ready[j] = a.id
        BY <1>2, <1>7, <2>1, <3>1
      <4>. QED  BY <2>1, <3>1, <4>1 DEF LoopInv, SleepsInOrder
    <3>2. CASE /\ k > Len(ready) /\ k - Len(ready) \in 1 .. Len(q)
               /\ order[k - Len(ready)].when = target[b.owner[2]]
               /\ order[k - Len(ready)] \in Due
      <4>1. CASE j \in 1 .. Len(ready) /\ ready[j] = a.id
        <5>1. a.id \in InQueue
          BY <4>1 DEF InQueue
        <5>2. \A s \in scheduled : target[a.owner[2]] <= s.when
          BY <2>1, <5>1 DEF LoopInv, SleepsInOrder
        <5>. QED  BY <1>5, <3>2, <5>2
      <4>2. CASE /\ j > Len(ready) /\ j - Len(ready) \in 1 .. Len(q)
                 /\ order[j - Len(ready)].when = target[a.owner[2]]
        <5>1. j - Len(ready) < k - Len(ready)
          BY <1>2, <2>1
        <5>. QED  BY <1>1, <3>2, <4>2, <5>1 DEF EarliestFirst
      <4>. QED  BY <1>7, <2>1, <4>1, <4>2
    <3>. QED  BY <1>7, <2>1, <3>1, <3>2
  <2>2. ASSUME NEW a \in callbacks, Sleeps(a), a.id \in InQueue'
        PROVE  /\ target[a.owner[2]] <= now
               /\ \A s \in scheduled' : target[a.owner[2]] <= s.when
    <3>1. PICK k \in 1 .. Len(ready') : ready'[k] = a.id
      BY <2>2 DEF InQueue
    <3>2. target[a.owner[2]] <= now /\ target[a.owner[2]] \in Nat
      <4>1. CASE k \in 1 .. Len(ready) /\ ready[k] = a.id
        BY <2>2, <4>1 DEF LoopInv, SleepsInOrder, TimerBooks, InQueue
      <4>2. CASE /\ order[k - Len(ready)].when = target[a.owner[2]]
                 /\ order[k - Len(ready)] \in Due
        BY <1>5, <2>2, <4>2 DEF LoopInv, TimerBooks
      <4>. QED  BY <1>7, <2>2, <3>1, <4>1, <4>2
    <3>. QED  BY <1>0, <1>6, <3>2
  <2>. QED  BY <1>0, <1>3, <2>1, <2>2 DEF SleepsInOrder
<1>. QED  BY <1>8, <1>9

LEMMA TimersStep ==
    ASSUME LoopInv, [Next]_vars
    PROVE  TimerBooks' /\ SleepsInOrder'
<1>1. CASE \/ \E d \in Coroutine : Schedule(d)
           \/ \E fd \in Fd, d \in Dir : AwaitIo(fd, d)
           \/ \E delay \in 0 .. MaxTime : Sleep(delay)
           \/ ProcessEpollEvent \/ ProcessExpiredTimeout
  BY <1>1, ScheduleKeeps, AwaitIoKeeps, SleepKeeps, EpollEventKeeps,
     TimeoutKeeps
<1>2. CASE NobodyRegisters
  BY <1>2, NobodyRegistersKeeps
<1>. QED  BY <1>1, <1>2, NobodyRegistersSteps

LEMMA InitTimers == Init => TimerBooks /\ SleepsInOrder
<1> SUFFICES ASSUME Init PROVE TimerBooks /\ SleepsInOrder
  OBVIOUS
<1>1. PICK c \in Coroutine :
        /\ callbacks = {[id |-> 0, owner |-> <<"promise", c>>]}
        /\ co = [d \in Coroutine |-> IF d = c THEN "scheduled" ELSE "new"]
  BY DEF Init
<1>2. \A cb \in callbacks : ~ Sleeps(cb) /\ cb.id = 0
  BY <1>1 DEF Sleeps
<1>3. ready = <<0>> /\ scheduled = {}
  BY DEF Init
<1>4. 0 \in InQueue
  <2>1. 1 \in 1 .. Len(ready) /\ ready[1] = 0
    BY <1>3
  <2>. QED  BY <2>1 DEF InQueue
<1>5. TimerBooks
  BY <1>2, <1>3, <1>4 DEF TimerBooks
<1>6. SleepsInOrder
  BY <1>2 DEF SleepsInOrder
<1>. QED  BY <1>5, <1>6

LEMMA LoopSafety == Spec => []LoopInv
<1>1. Init => LoopInv
  BY InitFrameInv, InitTypes, InitTimers DEF LoopInv
<1>2. LoopInv /\ [Next]_vars => LoopInv'
  BY NextFrameInv, RestType, FreshStep, TimersStep DEF LoopInv
<1>. QED  BY <1>1, <1>2, PTL DEF Spec

\* Whoever sleeps has a callback, unless its sleep is cancelled under it.
SleeperHasCallback ==
    \A c \in Coroutine :
        co[c] = "sleeping" => \E cb \in callbacks : cb.owner[2] = c

LEMMA SleeperStep ==
    ASSUME CancellingSleep = FALSE, LoopInv, WaitsMatchCallbacks,
           SleeperHasCallback, [Next]_vars
    PROVE  SleeperHasCallback'
<1>0. co \in [Coroutine -> State]
  BY DEF LoopInv, FrameInv, FrameTypeOK
<1>1. ASSUME \A c \in Coroutine : co'[c] = "sleeping" => co[c] = "sleeping",
             \A c \in Coroutine, cb \in callbacks :
                cb.owner[2] = c /\ co'[c] = "sleeping" => cb \in callbacks'
      PROVE  SleeperHasCallback'
  BY <1>1 DEF SleeperHasCallback
<1>2. ASSUME NEW delay \in 0 .. MaxTime, Sleep(delay)
      PROVE  SleeperHasCallback'
  <2> DEFINE new == [id |-> nextId, owner |-> <<"timer", running>>]
  <2>1. /\ callbacks' = callbacks \cup {new}
        /\ co' = [co EXCEPT ![running] = "sleeping"]
    BY <1>2 DEF Sleep, Register
  <2>2. new.owner[2] = running
    OBVIOUS
  <2> HIDE DEF new
  <2>. QED  BY <1>0, <2>1, <2>2 DEF SleeperHasCallback
<1>3. CASE ExecuteCallback
  <2>1. PICK cb \in callbacks :
          /\ callbacks' = callbacks \ {cb}
          /\ co' = [co EXCEPT ![cb.owner[2]] = "running"]
    BY <1>3 DEF ExecuteCallback
  <2>2. cb.owner[2] \in Coroutine
    BY CallbackType DEF LoopInv
  <2>. QED  BY <1>0, <1>1, <2>1, <2>2
<1>4. ASSUME NEW d \in Coroutine, Destroy(d) PROVE SleeperHasCallback'
  <2> DEFINE mine == WaitsOf(<<"promise", d>>) \cup WaitsOf(<<"timer", d>>)
  <2>1. /\ callbacks' = {cb \in callbacks : cb.id \notin {w.id : w \in mine}}
        /\ co' = [co EXCEPT ![d] = "done"]
    BY <1>4 DEF Destroy, CancelWaits
  <2>2. ASSUME NEW cb \in callbacks, cb.owner[2] # d PROVE cb \in callbacks'
    <3> SUFFICES ASSUME NEW w \in mine, w.id = cb.id PROVE FALSE
      BY <2>1
    <3>1. w \in callbacks /\ w.owner[2] = d
      BY DEF WaitsOf, WaitsMatchCallbacks
    <3>. QED  BY <2>2, <3>1 DEF LoopInv, FrameInv, IdsAreOwned
  <2> HIDE DEF mine
  <2>. QED  BY <1>0, <1>1, <2>1, <2>2
<1>5. CASE \/ \E d \in Coroutine : Schedule(d)
           \/ \E fd \in Fd, d \in Dir : AwaitIo(fd, d)
  <2>1. callbacks \subseteq callbacks'
    BY <1>5 DEF Schedule, AwaitIo, Register, RegisterFails
  <2>2. \A c \in Coroutine : co'[c] = "sleeping" => co[c] = "sleeping"
    BY <1>0, <1>5 DEF Schedule, AwaitIo, Dir
  <2>. QED  BY <1>1, <2>1, <2>2
<1>6. ASSUME NEW d \in Coroutine, CancelSleep(d) PROVE FALSE
  BY <1>6 DEF CancelSleep
<1>7. CASE Return
  BY <1>0, <1>1, <1>7 DEF Return
<1>8. CASE \/ RunOnce \/ ReadyDone \/ Around \/ UNCHANGED vars
           \/ SkipCancelled \/ ProcessEpollEvent \/ ProcessExpiredTimeout
           \/ \E fd \in Fd : Close(fd) \/ Reopen(fd)
  <2>1. callbacks' = callbacks /\ co' = co
    BY <1>8
    DEF RunOnce, ReadyDone, Around, Peer, Tick, Stop, vars, loopVars,
        SkipCancelled, ProcessEpollEvent, ProcessExpiredTimeout, Close, Reopen
  <2>. QED  BY <1>1, <2>1
<1>. QED
  BY <1>2, <1>3, <1>4, <1>5, <1>6, <1>7, <1>8
  DEF Next, LoopStep, CoroutineStep

LEMMA TimersSafety ==
    ASSUME CancellingSleep = FALSE
    PROVE  Spec => [](LoopInv /\ WaitsMatchCallbacks /\ SleeperHasCallback)
<1>1. Init => SleeperHasCallback
  <2> SUFFICES ASSUME Init PROVE SleeperHasCallback
    OBVIOUS
  <2>1. \E c \in Coroutine :
          co = [d \in Coroutine |-> IF d = c THEN "scheduled" ELSE "new"]
    BY DEF Init
  <2>. QED  BY <2>1 DEF SleeperHasCallback
<1>2. LoopInv /\ WaitsMatchCallbacks /\ SleeperHasCallback /\ [Next]_vars
        => SleeperHasCallback'
  BY SleeperStep
<1>. QED  BY <1>1, <1>2, LoopSafety, BooksAgree, PTL DEF Spec

\* A coroutine wakes from a sleep only when no other one still sleeps towards
\* an earlier time: the heap yields what is due in order, what has been queued
\* is due before what has not, and a late starter cannot be due earlier.
THEOREM SleepersWakeInOrder ==
    ASSUME CancellingSleep = FALSE
    PROVE  Spec => TimersInOrder
<1> DEFINE InOrder ==
             \A c, d \in Coroutine :
                co[c] = "sleeping" /\ co'[c] = "running" /\ co[d] = "sleeping"
                    => target[c] <= target[d]
<1>1. ASSUME LoopInv, SleeperHasCallback, [Next]_vars PROVE InOrder
  <2> SUFFICES ASSUME NEW c \in Coroutine, NEW d \in Coroutine,
                      co[c] = "sleeping", co'[c] = "running",
                      co[d] = "sleeping"
               PROVE  target[c] <= target[d]
    OBVIOUS
  <2>0. co \in [Coroutine -> State] /\ ready \in Seq(Nat)
    BY <1>1 DEF LoopInv, FrameInv, FrameTypeOK, RestTypeOK
  <2>1. ExecuteCallback
    <3>1. CASE \E e : \E st \in State \ {"running"} : co' = [co EXCEPT ![e] = st]
      BY <2>0, <3>1
    <3>2. CASE co' = co
      BY <3>2
    <3>3. CASE CoroutineStep
      <4>1. {"scheduled", "done", "sleeping"} \cup Dir \subseteq State \ {"running"}
        BY DEF State, Suspended, Dir
      <4>. QED
        BY <3>1, <3>2, <3>3, <4>1
        DEF CoroutineStep, Schedule, Destroy, CancelSleep, AwaitIo, Close,
            Reopen, Sleep, Return
    <3>4. CASE (LoopStep /\ ~ ExecuteCallback) \/ Around \/ UNCHANGED vars
      BY <3>2, <3>4
      DEF LoopStep, RunOnce, ReadyDone, Around, Peer, Tick, Stop, vars,
          loopVars, SkipCancelled, ProcessEpollEvent, ProcessExpiredTimeout
    <3>. QED  BY <1>1, <3>3, <3>4 DEF Next
  <2>2. PICK cb \in callbacks :
          /\ cb.id = Head(ready)
          /\ co' = [co EXCEPT ![cb.owner[2]] = "running"]
    BY <2>1 DEF ExecuteCallback
  <2>3. cb.owner[2] = c /\ Sleeps(cb)
    BY <2>0, <2>2 DEF Sleeps
  <2>4. ready # <<>> /\ Len(ready) \in Nat /\ Len(ready) > 0
        /\ ready[1] = cb.id
    BY <2>0, <2>1, <2>2, LenProperties, EmptySeq DEF ExecuteCallback
  <2>5. cb.id \in InQueue
    BY <2>4 DEF InQueue
  <2>6. PICK other \in callbacks : other.owner[2] = d
    BY <1>1 DEF SleeperHasCallback
  <2>7. Sleeps(other) /\ target[c] \in Nat
    BY <1>1, <2>3, <2>6 DEF Sleeps, LoopInv, TimerBooks
  <2>8. CASE other.id \in InQueue
    <3>1. PICK k \in 1 .. Len(ready) : ready[k] = other.id
      BY <2>8 DEF InQueue
    <3>2. CASE k = 1
      <4>1. other = cb
        BY <1>1, <2>4, <3>1, <3>2 DEF LoopInv, FrameInv, IdsAreOwned
      <4>. QED  BY <2>3, <2>6, <2>7, <4>1
    <3>3. CASE k > 1
      BY <1>1, <2>3, <2>4, <2>6, <2>7, <3>1, <3>3 DEF LoopInv, SleepsInOrder
    <3>. QED  BY <3>2, <3>3
  <2>9. CASE [id |-> other.id, when |-> target[d]] \in scheduled
    BY <1>1, <2>3, <2>5, <2>9 DEF LoopInv, SleepsInOrder
  <2>. QED  BY <1>1, <2>6, <2>7, <2>8, <2>9 DEF LoopInv, TimerBooks
<1>2. LoopInv /\ WaitsMatchCallbacks /\ SleeperHasCallback /\ [Next]_vars
        => [InOrder]_vars
  BY <1>1
<1>. QED  BY <1>2, TimersSafety, PTL DEF Spec, TimersInOrder

-----------------------------------------------------------------------------
\* Descriptors, for programs that do not share them, do not close them while
\* somebody waits and do not cancel sleeps.

Polite == Sharing = FALSE /\ Closing = FALSE /\ CancellingSleep = FALSE

\* The entries of the descriptors: an entry's wait ids are those of the
\* coroutines that wait there, and the kernel watches what they wait for.
IoBooks ==
    /\ \A fd \in Fd : interest[fd] = eventMap[fd].events
    /\ \A fd \in Fd, d \in Dir : eventMap[fd].wait[d] # NoWait =>
         /\ d \in eventMap[fd].events
         /\ \E c \in Coroutine : /\ co[c] = d /\ target[c] = fd
                                 /\ waitId[c] = eventMap[fd].wait[d]
    /\ \A c \in Coroutine : co[c] \in Dir =>
         /\ target[c] \in Fd
         /\ waitId[c] # NoWait
         /\ eventMap[target[c]].wait[co[c]] = waitId[c]
         /\ [id |-> waitId[c], fd |-> target[c]] \in waitToFd
    /\ \A w \in waitToFd :
         w.id # NoWait /\ \E d \in Dir : eventMap[w.fd].wait[d] = w.id

BooksInv ==
    /\ LoopInv /\ WaitsMatchCallbacks /\ CtlAgrees /\ SuspendedIsCharged
    /\ IoBooks

\* A coroutine that waits for a descriptor has a callback under the id its
\* awaiter remembers, so no two of them remember the same one.
LEMMA WaiterHasCallback ==
    ASSUME BooksInv, NEW c \in Coroutine, co[c] \in Dir
    PROVE  \E cb \in callbacks : cb.owner[2] = c /\ cb.id = waitId[c]
<1>1. co[c] \in Suspended /\ co[c] # "scheduled"
  BY DEF Suspended, Dir
<1>2. PICK cb \in callbacks : cb.owner[2] = c
  BY <1>1 DEF BooksInv, SuspendedIsCharged, WaitsMatchCallbacks
<1>. QED  BY <1>1, <1>2 DEF BooksInv, LoopInv, FrameInv, AwaiterKnowsItsWait

LEMMA WaitIdsDiffer ==
    ASSUME BooksInv, NEW c \in Coroutine, co[c] \in Dir, NEW cb \in callbacks,
           cb.id = waitId[c]
    PROVE  cb.owner[2] = c
  BY WaiterHasCallback DEF BooksInv, LoopInv, FrameInv, IdsAreOwned

LEMMA WaitersDiffer ==
    ASSUME BooksInv, NEW c \in Coroutine, co[c] \in Dir,
           NEW e \in Coroutine, co[e] \in Dir, waitId[c] = waitId[e]
    PROVE  c = e
  BY WaiterHasCallback, WaitIdsDiffer

\* What cancelling the wait of c does to the entry it waits in.
Leaves(c) ==
    LET fd == target[c]
    IN  /\ waitToFd' = waitToFd \ {[id |-> waitId[c], fd |-> fd]}
        /\ \A f \in Fd \ {fd} :
             /\ eventMap'[f] = eventMap[f] /\ interest'[f] = interest[f]
             /\ edge'[f] = edge[f]
             /\ f \in registered => f \in registered'
        /\ \A d \in Dir \ {co[c]} : eventMap'[fd].wait[d] = eventMap[fd].wait[d]
        /\ eventMap'[fd].wait[co[c]] = NoWait
        /\ eventMap'[fd].events = eventMap[fd].events \ {co[c]}
        /\ interest'[fd] = eventMap'[fd].events
        /\ eventMap'[fd].events # {} => edge'[fd] = level[fd] /\ fd \in registered'

LEMMA CancelLeaves ==
    ASSUME BooksInv, NEW c \in Coroutine, co[c] \in Dir,
           CancelWaiter(waitId[c])
    PROVE  Leaves(c)
<1> DEFINE id == waitId[c]
           fd == target[c]
           me == [id |-> id, fd |-> fd]
<1>0. /\ eventMap \in [Fd -> [present : BOOLEAN, wait : [Dir -> Nat],
                              events : SUBSET Dir]]
      /\ interest \in [Fd -> SUBSET Dir] /\ edge \in [Fd -> SUBSET Dir]
      /\ waitToFd \subseteq [id : Nat, fd : Fd]
      /\ \A f \in Fd : eventMap[f].events = {} <=> f \notin registered
      /\ \A f \in Fd : interest[f] = eventMap[f].events
  BY DEF BooksInv, LoopInv, RestTypeOK, EpollTypeOK, CtlAgrees, IoBooks
<1>1. /\ fd \in Fd /\ id # NoWait /\ me \in waitToFd /\ me.id = id /\ me.fd = fd
      /\ eventMap[fd].wait[co[c]] = id
  BY DEF BooksInv, IoBooks
<1>2. \A f \in Fd, d \in Dir : eventMap[f].wait[d] = id => f = fd /\ d = co[c]
  BY <1>1, WaitersDiffer DEF BooksInv, IoBooks
<1>3. \A w \in waitToFd : w.id = id => w = me
  BY <1>0, <1>1, <1>2 DEF BooksInv, IoBooks
<1>4. Remaining(fd, id) = eventMap[fd].events \ {co[c]}
  BY <1>0, <1>1, <1>2 DEF Remaining
<1>5. \A d \in Dir : d \notin eventMap[fd].events => eventMap[fd].wait[d] = NoWait
  BY <1>1 DEF BooksInv, IoBooks
<1>6. /\ waitToFd' = waitToFd \ {me}
      /\ DropLastWaiter(id, fd) \/ DropOneWaiter(id, fd)
  <2> HIDE DEF id, fd, me
  <2>1. ~ ForgetWaiter(id)
    BY <1>1 DEF ForgetWaiter
  <2>2. PICK w \in waitToFd :
          /\ w.id = id
          /\ waitToFd' = waitToFd \ {w}
          /\ DropStaleWaiter(id, w.fd) \/ DropLastWaiter(id, w.fd)
               \/ DropOneWaiter(id, w.fd)
    BY <2>1 DEF CancelWaiter, id
  <2>3. w = me
    BY <1>3, <2>2
  <2>4. ~ DropStaleWaiter(id, fd)
    BY <1>1 DEF DropStaleWaiter
  <2>. QED  BY <1>1, <2>2, <2>3, <2>4
<1>7. CASE DropLastWaiter(id, fd)
  <2>1. /\ eventMap' = [eventMap EXCEPT ![fd] = NoEntry]
        /\ registered' = registered \ {fd}
        /\ interest' = [interest EXCEPT ![fd] = {}]
        /\ edge' = [edge EXCEPT ![fd] = {}]
        /\ Remaining(fd, id) = {}
    BY <1>7 DEF DropLastWaiter, Unwatch
  <2>2. /\ eventMap'[fd] = NoEntry /\ interest'[fd] = {}
        /\ \A f \in Fd \ {fd} :
             /\ eventMap'[f] = eventMap[f] /\ interest'[f] = interest[f]
             /\ edge'[f] = edge[f]
             /\ f \in registered => f \in registered'
    BY <1>0, <1>1, <2>1
  <2>3. NoEntry.events = {} /\ \A d \in Dir : NoEntry.wait[d] = NoWait
    BY DEF NoEntry
  <2>4. \A d \in Dir \ {co[c]} : eventMap[fd].wait[d] = NoWait
    BY <1>4, <1>5, <2>1
  <2>5. eventMap[fd].events \ {co[c]} = {}
    BY <1>4, <2>1
  <2>. QED  BY <1>6, <2>2, <2>3, <2>4, <2>5 DEF Leaves
<1>8. CASE DropOneWaiter(id, fd)
  <2> DEFINE left == Remaining(fd, id)
             kept == [d \in Dir |-> IF eventMap[fd].wait[d] = id THEN NoWait
                                    ELSE eventMap[fd].wait[d]]
             new == Entry(kept, left)
  <2>1. /\ eventMap' = [eventMap EXCEPT ![fd] = new]
        /\ left # {}
    BY <1>8 DEF DropOneWaiter
  <2>2. fd \in registered
    BY <1>0, <1>1, <1>4, <2>1
  <2>3. /\ registered' = registered \cup {fd}
        /\ interest' = [interest EXCEPT ![fd] = left]
        /\ edge' = [edge EXCEPT ![fd] = level[fd]]
    BY <1>8, <2>2 DEF DropOneWaiter, Watch
  <2>4. new.events = left /\ new.wait = kept
    BY DEF Entry
  <2>5. \A d \in Dir : kept[d] = IF d = co[c] THEN NoWait ELSE eventMap[fd].wait[d]
    BY <1>1, <1>2
  <2> HIDE DEF new, kept
  <2>6. /\ eventMap'[fd] = new /\ interest'[fd] = left /\ edge'[fd] = level[fd]
        /\ \A f \in Fd \ {fd} :
             /\ eventMap'[f] = eventMap[f] /\ interest'[f] = interest[f]
             /\ edge'[f] = edge[f]
             /\ f \in registered => f \in registered'
    BY <1>0, <1>1, <2>1, <2>3
  <2>. QED  BY <1>4, <1>6, <2>3, <2>4, <2>5, <2>6 DEF Leaves
<1>. QED  BY <1>6, <1>7, <1>8

\* Whoever waits for a descriptor that is ready is in the kernel's news or in
\* the queue.
Noticed(c) == target[c] \in Fired \/ waitId[c] \in InQueue

LEMMA NoLostEdgeMeans ==
    NoLostEdge <=> \A c \in Coroutine :
                      co[c] \in Dir /\ co[c] \in level[target[c]] => Noticed(c)
  BY DEF NoLostEdge, Noticed, InQueue

\* Steps that leave the descriptors, and those that wait for them, alone.
IoUntouched ==
    /\ UNCHANGED epollVars
    /\ \A c \in Coroutine :
         /\ co[c] \in Dir \/ co'[c] \in Dir
              => co'[c] = co[c] /\ target'[c] = target[c] /\ waitId'[c] = waitId[c]
         /\ co[c] \in Dir /\ waitId[c] \in InQueue => waitId[c] \in InQueue'

LEMMA IoUntouchedKeeps ==
    ASSUME BooksInv, NoLostEdge, IoUntouched
    PROVE  IoBooks' /\ NoLostEdge'
<1>0. /\ eventMap' = eventMap /\ waitToFd' = waitToFd /\ interest' = interest
      /\ registered' = registered /\ level' = level /\ edge' = edge
  BY DEF IoUntouched, epollVars
<1>1. \A c \in Coroutine : co[c] \in Dir \/ co'[c] \in Dir =>
        co'[c] = co[c] /\ target'[c] = target[c] /\ waitId'[c] = waitId[c]
  BY DEF IoUntouched
<1>2. IoBooks'
  <2>1. ASSUME NEW fd \in Fd, NEW d \in Dir, eventMap'[fd].wait[d] # NoWait
        PROVE  /\ d \in eventMap'[fd].events
               /\ \E c \in Coroutine : /\ co'[c] = d /\ target'[c] = fd
                                       /\ waitId'[c] = eventMap'[fd].wait[d]
    <3>1. /\ d \in eventMap[fd].events
          /\ \E c \in Coroutine : /\ co[c] = d /\ target[c] = fd
                                  /\ waitId[c] = eventMap[fd].wait[d]
      BY <1>0, <2>1 DEF BooksInv, IoBooks
    <3>. QED  BY <1>0, <1>1, <3>1
  <2>2. \A c \in Coroutine : co'[c] \in Dir =>
          /\ target'[c] \in Fd
          /\ waitId'[c] # NoWait
          /\ eventMap'[target'[c]].wait[co'[c]] = waitId'[c]
          /\ [id |-> waitId'[c], fd |-> target'[c]] \in waitToFd'
    BY <1>0, <1>1 DEF BooksInv, IoBooks
  <2>. QED  BY <1>0, <2>1, <2>2 DEF BooksInv, IoBooks
<1>3. Fired' = Fired
  BY <1>0 DEF Fired, Reported
<1>4. \A c \in Coroutine :
        co'[c] \in Dir /\ co'[c] \in level'[target'[c]] => Noticed(c)'
  BY <1>0, <1>1, <1>3, NoLostEdgeMeans DEF IoUntouched, Noticed
<1>. QED  BY <1>2, <1>4 DEF NoLostEdge, Noticed, InQueue

\* A coroutine that does not wait for a descriptor may change in any way that
\* does not make it wait for one.
LEMMA OtherChanges ==
    ASSUME BooksInv, UNCHANGED epollVars,
           NEW c \in Coroutine, co[c] \notin Dir,
           NEW st, st \notin Dir, co' = [co EXCEPT ![c] = st],
           \A e \in Coroutine \ {c} :
              target'[e] = target[e] /\ waitId'[e] = waitId[e],
           \A e \in Coroutine : co[e] \in Dir /\ waitId[e] \in InQueue
              => waitId[e] \in InQueue'
    PROVE  IoUntouched
<1>1. co \in [Coroutine -> State]
  BY DEF BooksInv, LoopInv, FrameInv, FrameTypeOK
<1>. QED  BY <1>1 DEF IoUntouched

\* The waiter that leaves takes nobody's readiness along.
LEMMA LeavesKeeps ==
    ASSUME BooksInv, NoLostEdge, CtlAgrees',
           NEW c \in Coroutine, co[c] \in Dir, Leaves(c), level' = level,
           NEW st, st \notin Dir, co' = [co EXCEPT ![c] = st],
           \A e \in Coroutine \ {c} :
              target'[e] = target[e] /\ waitId'[e] = waitId[e],
           \A id \in InQueue : id # waitId[c] => id \in InQueue'
    PROVE  IoBooks' /\ NoLostEdge'
<1> DEFINE fd == target[c]
<1>0. /\ co \in [Coroutine -> State] /\ fd \in Fd
      /\ level \in [Fd -> SUBSET Dir] /\ edge \in [Fd -> SUBSET Dir]
      /\ interest \in [Fd -> SUBSET Dir]
      /\ waitToFd \subseteq [id : Nat, fd : Fd]
      /\ eventMap[fd].wait[co[c]] = waitId[c]
  BY DEF BooksInv, LoopInv, FrameInv, FrameTypeOK, RestTypeOK, EpollTypeOK,
         IoBooks
<1>1. \A e \in Coroutine : co'[e] \in Dir =>
        /\ e # c /\ co'[e] = co[e] /\ co[e] \in Dir
        /\ target'[e] = target[e] /\ waitId'[e] = waitId[e]
        /\ waitId[e] # waitId[c] /\ target[e] \in Fd
        /\ eventMap[target[e]].wait[co[e]] = waitId[e] /\ waitId[e] # NoWait
  BY <1>0, WaitersDiffer DEF BooksInv, IoBooks
<1>2. \A e \in Coroutine : co[e] \in Dir /\ e # c => co'[e] = co[e]
  BY <1>0
<1>3. \A d \in Dir : /\ d # co[c] => eventMap'[fd].wait[d] = eventMap[fd].wait[d]
                     /\ eventMap'[fd].wait[co[c]] = NoWait
  BY DEF Leaves
<1>4. \A f \in Fd : f # fd =>
        /\ eventMap'[f] = eventMap[f] /\ interest'[f] = interest[f]
        /\ edge'[f] = edge[f]
        /\ f \in registered => f \in registered'
  BY DEF Leaves
<1>5. IoBooks'
  <2>1. \A f \in Fd : interest'[f] = eventMap'[f].events
    <3>1. interest'[fd] = eventMap'[fd].events
      BY DEF Leaves
    <3>2. \A f \in Fd : interest[f] = eventMap[f].events
      BY DEF BooksInv, IoBooks
    <3>. QED  BY <1>4, <3>1, <3>2
  <2>2. ASSUME NEW f \in Fd, NEW d \in Dir, eventMap'[f].wait[d] # NoWait
        PROVE  /\ d \in eventMap'[f].events
               /\ \E e \in Coroutine : /\ co'[e] = d /\ target'[e] = f
                                       /\ waitId'[e] = eventMap'[f].wait[d]
    <3>1. eventMap'[f].wait[d] = eventMap[f].wait[d] /\ (f = fd => d # co[c])
      BY <1>3, <1>4, <2>2
    <3>2. d \in eventMap[f].events
      BY <2>2, <3>1 DEF BooksInv, IoBooks
    <3>3. PICK e \in Coroutine : /\ co[e] = d /\ target[e] = f
                                 /\ waitId[e] = eventMap[f].wait[d]
      BY <2>2, <3>1 DEF BooksInv, IoBooks
    <3>4. e # c
      BY <3>1, <3>3
    <3>5. d \in eventMap'[f].events
      BY <1>4, <3>1, <3>2 DEF Leaves
    <3>. QED  BY <1>2, <2>2, <3>1, <3>3, <3>4, <3>5
  <2>3. \A e \in Coroutine : co'[e] \in Dir =>
          /\ target'[e] \in Fd
          /\ waitId'[e] # NoWait
          /\ eventMap'[target'[e]].wait[co'[e]] = waitId'[e]
          /\ [id |-> waitId'[e], fd |-> target'[e]] \in waitToFd'
    <3> SUFFICES ASSUME NEW e \in Coroutine, co'[e] \in Dir
                 PROVE  /\ eventMap'[target[e]].wait[co[e]] = waitId[e]
                        /\ [id |-> waitId[e], fd |-> target[e]] \in waitToFd'
      BY <1>1
    <3>1. eventMap'[target[e]].wait[co[e]] = eventMap[target[e]].wait[co[e]]
      <4>1. CASE target[e] # fd
        BY <1>1, <1>4, <4>1
      <4>2. CASE target[e] = fd
        <5>1. co[e] # co[c]
          BY <1>0, <1>1, <4>2
        <5>. QED  BY <1>1, <1>3, <4>2, <5>1
      <4>. QED  BY <4>1, <4>2
    <3>2. [id |-> waitId[e], fd |-> target[e]] # [id |-> waitId[c], fd |-> fd]
      BY <1>1
    <3>3. [id |-> waitId[e], fd |-> target[e]] \in waitToFd
      BY <1>1 DEF BooksInv, IoBooks
    <3>. QED  BY <1>1, <3>1, <3>2, <3>3 DEF Leaves
  <2>4. ASSUME NEW w \in waitToFd'
        PROVE  w.id # NoWait /\ \E d \in Dir : eventMap'[w.fd].wait[d] = w.id
    <3>1. w \in waitToFd /\ w # [id |-> waitId[c], fd |-> fd] /\ w.fd \in Fd
          /\ w = [id |-> w.id, fd |-> w.fd]
      BY <1>0, <2>4 DEF Leaves
    <3>2. PICK d \in Dir : eventMap[w.fd].wait[d] = w.id
      BY <3>1 DEF BooksInv, IoBooks
    <3>3. w.fd = fd => d # co[c]
      BY <1>0, <3>1, <3>2
    <3>4. eventMap'[w.fd].wait[d] = w.id
      BY <1>3, <1>4, <3>1, <3>2, <3>3
    <3>. QED  BY <3>1, <3>4 DEF BooksInv, IoBooks
  <2>. QED  BY <2>1, <2>2, <2>3, <2>4 DEF IoBooks
<1>6. ASSUME NEW e \in Coroutine, co'[e] \in Dir, co'[e] \in level'[target'[e]]
      PROVE  Noticed(e)'
  <2>1. /\ co[e] \in Dir /\ co[e] \in level[target[e]] /\ waitId[e] # waitId[c]
        /\ target'[e] = target[e] /\ waitId'[e] = waitId[e] /\ target[e] \in Fd
        /\ co'[e] = co[e]
    BY <1>1, <1>6
  <2>2. CASE waitId[e] \in InQueue
    BY <2>1, <2>2 DEF Noticed
  <2>3. CASE target[e] # fd /\ target[e] \in Fired
    BY <1>4, <2>1, <2>3 DEF Fired, Reported, Noticed
  <2>4. CASE target[e] = fd
    <3>1. eventMap'[fd].wait[co[e]] = waitId[e] /\ waitId[e] # NoWait
      <4>1. eventMap'[target'[e]].wait[co'[e]] = waitId'[e]
        BY <1>5, <1>6 DEF IoBooks
      <4>. QED  BY <1>1, <1>6, <2>1, <2>4, <4>1
    <3>2. co[e] \in eventMap'[fd].events
      BY <1>0, <1>5, <2>1, <3>1 DEF IoBooks
    <3>3. edge'[fd] = level[fd] /\ fd \in registered'
          /\ interest'[fd] = eventMap'[fd].events
      BY <3>2 DEF Leaves
    <3>4. fd \in Fired'
      BY <2>1, <2>4, <3>2, <3>3 DEF Fired, Reported
    <3>. QED  BY <2>1, <2>4, <3>4 DEF Noticed
  <2>. QED  BY <2>1, <2>2, <2>3, <2>4, NoLostEdgeMeans DEF Noticed
<1>. QED  BY <1>5, <1>6 DEF NoLostEdge, Noticed, InQueue

\* The waiter that comes finds its place free, and has the kernel look again.
LEMMA AwaitIoBooks ==
    ASSUME Sharing = FALSE, BooksInv, NoLostEdge,
           NEW fd \in Fd, NEW d \in Dir, AwaitIo(fd, d)
    PROVE  IoBooks' /\ NoLostEdge'
<1> DEFINE wait == [eventMap[fd].wait EXCEPT ![d] = nextId]
           events == eventMap[fd].events \cup {d}
           new == Entry(wait, events)
           me == [id |-> nextId, fd |-> fd]
<1>0. /\ co \in [Coroutine -> State] /\ waitId \in [Coroutine -> Nat]
      /\ target \in [Coroutine -> Fd \cup Nat] /\ nextId \in Nat \ {0}
      /\ level \in [Fd -> SUBSET Dir] /\ edge \in [Fd -> SUBSET Dir]
      /\ interest \in [Fd -> SUBSET Dir]
      /\ eventMap \in [Fd -> [present : BOOLEAN, wait : [Dir -> Nat],
                              events : SUBSET Dir]]
      /\ waitToFd \subseteq [id : Nat, fd : Fd]
      /\ eventMap[fd].wait \in [Dir -> Nat]
  BY DEF BooksInv, LoopInv, FrameInv, FrameTypeOK, RestTypeOK, EpollTypeOK
<1>1. /\ running \in Coroutine /\ co[running] = "running"
      /\ co[running] \notin Dir
      /\ AddWaiter(fd, d, nextId)
      /\ waitId' = [waitId EXCEPT ![running] = nextId]
      /\ co' = [co EXCEPT ![running] = d]
      /\ target' = [target EXCEPT ![running] = fd]
      /\ ready' = ready
      /\ \A c \in Coroutine : ~(co[c] = d /\ target[c] = fd)
      /\ level' = level \/ level' = [level EXCEPT ![fd] = level[fd] \ {d}]
  BY DEF AwaitIo, CtlWorks, BooksInv, CtlAgrees, LoopInv, FrameInv, FrameTypeOK,
         Dir, Drain
<1>2. eventMap[fd].wait[d] = NoWait
  BY <1>1 DEF BooksInv, IoBooks
<1>3. /\ eventMap' = [eventMap EXCEPT ![fd] = new]
      /\ waitToFd' = waitToFd \cup {me}
      /\ registered' = registered \cup {fd}
      /\ interest' = [interest EXCEPT ![fd] = events]
      /\ edge' = [edge EXCEPT ![fd] = level[fd]]
  <2>1. {w \in waitToFd : w.id # NoWait} = waitToFd
    BY DEF BooksInv, IoBooks
  <2>. QED  BY <1>1, <1>2, <2>1 DEF AddWaiter, Watch, WithEvent
<1>4. /\ new.events = events /\ new.wait = wait /\ wait[d] = nextId
      /\ \A e \in Dir : e # d => wait[e] = eventMap[fd].wait[e]
  BY <1>0 DEF Entry
<1> HIDE DEF new, wait
<1>5. /\ eventMap'[fd].events = events /\ interest'[fd] = events
      /\ eventMap'[fd].wait[d] = nextId
      /\ \A e \in Dir : e # d => eventMap'[fd].wait[e] = eventMap[fd].wait[e]
      /\ edge'[fd] = level[fd] /\ fd \in registered'
      /\ \A f \in Fd : f # fd => /\ eventMap'[f] = eventMap[f]
                                 /\ interest'[f] = interest[f]
                                 /\ edge'[f] = edge[f]
                                 /\ level'[f] = level[f]
      /\ level'[fd] \subseteq level[fd]
      /\ registered \subseteq registered'
  BY <1>0, <1>1, <1>3, <1>4
<1>6. /\ co'[running] = d /\ target'[running] = fd /\ waitId'[running] = nextId
      /\ \A c \in Coroutine : c # running =>
           co'[c] = co[c] /\ target'[c] = target[c] /\ waitId'[c] = waitId[c]
  BY <1>0, <1>1
<1>7. IoBooks'
  <2>1. \A f \in Fd : interest'[f] = eventMap'[f].events
    <3>1. \A f \in Fd : interest[f] = eventMap[f].events
      BY DEF BooksInv, IoBooks
    <3>. QED  BY <1>5, <3>1
  <2>2. ASSUME NEW f \in Fd, NEW e \in Dir, eventMap'[f].wait[e] # NoWait
        PROVE  /\ e \in eventMap'[f].events
               /\ \E c \in Coroutine : /\ co'[c] = e /\ target'[c] = f
                                       /\ waitId'[c] = eventMap'[f].wait[e]
    <3>1. CASE f = fd /\ e = d
      BY <1>1, <1>5, <1>6, <3>1
    <3>2. CASE f # fd \/ e # d
      <4>1. eventMap'[f].wait[e] = eventMap[f].wait[e]
        BY <1>5, <3>2
      <4>2. PICK c \in Coroutine : /\ co[c] = e /\ target[c] = f
                                   /\ waitId[c] = eventMap[f].wait[e]
        BY <2>2, <4>1 DEF BooksInv, IoBooks
      <4>3. e \in eventMap[f].events
        BY <2>2, <4>1 DEF BooksInv, IoBooks
      <4>4. c # running
        BY <1>1, <4>2
      <4>5. e \in eventMap'[f].events
        BY <1>5, <4>3
      <4>. QED  BY <1>6, <4>1, <4>2, <4>4, <4>5
    <3>. QED  BY <3>1, <3>2
  <2>3. ASSUME NEW c \in Coroutine, co'[c] \in Dir
        PROVE  /\ target'[c] \in Fd
               /\ waitId'[c] # NoWait
               /\ eventMap'[target'[c]].wait[co'[c]] = waitId'[c]
               /\ [id |-> waitId'[c], fd |-> target'[c]] \in waitToFd'
    <3>1. CASE c = running
      BY <1>0, <1>3, <1>5, <1>6, <3>1 DEF NoWait
    <3>2. CASE c # running
      <4>1. /\ co[c] \in Dir /\ target[c] \in Fd /\ waitId[c] # NoWait
            /\ eventMap[target[c]].wait[co[c]] = waitId[c]
            /\ [id |-> waitId[c], fd |-> target[c]] \in waitToFd
        BY <1>6, <2>3, <3>2 DEF BooksInv, IoBooks
      <4>2. eventMap'[target[c]].wait[co[c]] = waitId[c]
        BY <1>1, <1>5, <4>1
      <4>. QED  BY <1>3, <1>6, <3>2, <4>1, <4>2
    <3>. QED  BY <3>1, <3>2
  <2>4. ASSUME NEW w \in waitToFd'
        PROVE  w.id # NoWait /\ \E e \in Dir : eventMap'[w.fd].wait[e] = w.id
    <3>1. CASE w = me
      <4>1. w.id = nextId /\ w.fd = fd
        BY <3>1
      <4>. QED  BY <1>0, <1>5, <4>1 DEF NoWait
    <3>2. CASE w \in waitToFd
      <4>1. PICK e \in Dir : eventMap[w.fd].wait[e] = w.id /\ w.id # NoWait
        BY <3>2 DEF BooksInv, IoBooks
      <4>2. w.fd \in Fd
        BY <1>0, <3>2
      <4>3. eventMap'[w.fd].wait[e] = w.id
        BY <1>2, <1>5, <4>1, <4>2
      <4>. QED  BY <4>1, <4>3
    <3>. QED  BY <1>3, <3>1, <3>2
  <2>. QED  BY <2>1, <2>2, <2>3, <2>4 DEF IoBooks
<1>8. ASSUME NEW c \in Coroutine, co'[c] \in Dir, co'[c] \in level'[target'[c]]
      PROVE  Noticed(c)'
  <2>1. CASE target'[c] = fd
    <3>1. eventMap'[fd].wait[co'[c]] = waitId'[c] /\ waitId'[c] # NoWait
      BY <1>7, <1>8, <2>1 DEF IoBooks
    <3>2. co'[c] \in events
      BY <1>5, <1>7, <1>8, <3>1 DEF IoBooks
    <3>3. fd \in Fired'
      BY <1>5, <1>8, <2>1, <3>2 DEF Fired, Reported
    <3>. QED  BY <2>1, <3>3 DEF Noticed
  <2>2. CASE target'[c] # fd
    <3>1. /\ c # running /\ co'[c] = co[c] /\ target'[c] = target[c]
          /\ waitId'[c] = waitId[c]
      BY <1>6, <2>2
    <3>2. /\ co[c] \in Dir /\ target[c] \in Fd /\ target[c] # fd
          /\ co[c] \in level[target[c]]
      <4>1. co[c] \in Dir /\ target[c] # fd
        BY <1>8, <2>2, <3>1
      <4>2. target[c] \in Fd
        BY <4>1 DEF BooksInv, IoBooks
      <4>. QED  BY <1>5, <1>8, <3>1, <4>1, <4>2
    <3>3. Noticed(c)
      BY <3>2, NoLostEdgeMeans
    <3>4. target[c] \in Fired => target[c] \in Fired'
      BY <1>5, <3>2 DEF Fired, Reported
    <3>5. InQueue' = InQueue
      BY <1>1 DEF InQueue
    <3>. QED  BY <3>1, <3>3, <3>4, <3>5 DEF Noticed
  <2>. QED  BY <2>1, <2>2
<1>. QED  BY <1>7, <1>8 DEF NoLostEdge, Noticed, InQueue

\* News from a peer, and its report, change nothing but what is ready.
LEMMA NewsKeeps ==
    ASSUME BooksInv, NoLostEdge,
           UNCHANGED <<eventMap, waitToFd, interest, registered, co, target,
                       waitId>>,
           \A c \in Coroutine :
              co[c] \in Dir /\ co[c] \in level'[target[c]] => Noticed(c)'
    PROVE  IoBooks' /\ NoLostEdge'
<1>1. IoBooks'
  BY DEF BooksInv, IoBooks
<1>. QED  BY <1>1 DEF NoLostEdge, Noticed, InQueue

LEMMA PeerKeeps ==
    ASSUME BooksInv, NoLostEdge, NEW fd \in Fd, NEW d \in Dir, Peer(fd, d)
    PROVE  IoBooks' /\ NoLostEdge'
<1>0. /\ level' = [level EXCEPT ![fd] = level[fd] \cup {d}]
      /\ edge' = [edge EXCEPT ![fd] = edge[fd] \cup {d}]
      /\ UNCHANGED <<eventMap, waitToFd, interest, registered, co, target,
                     waitId, ready>>
      /\ level \in [Fd -> SUBSET Dir] /\ edge \in [Fd -> SUBSET Dir]
  BY DEF Peer, Arrive, loopVars, BooksInv, LoopInv, RestTypeOK, EpollTypeOK
<1>1. \A f \in Fd : /\ level[f] \subseteq level'[f] /\ edge[f] \subseteq edge'[f]
                    /\ f # fd => level'[f] = level[f]
                    /\ level'[fd] = level[fd] \cup {d} /\ d \in edge'[fd]
  BY <1>0
<1>2. InQueue' = InQueue
  BY <1>0 DEF InQueue
<1>3. \A f \in Fd : f \in Fired => f \in Fired'
  BY <1>0, <1>1 DEF Fired, Reported
<1>4. ASSUME NEW c \in Coroutine, co[c] \in Dir, co[c] \in level'[target[c]]
      PROVE  Noticed(c)'
  <2>1. /\ target[c] \in Fd /\ waitId[c] # NoWait
        /\ eventMap[target[c]].wait[co[c]] = waitId[c]
    BY <1>4 DEF BooksInv, IoBooks
  <2>2. CASE co[c] \in level[target[c]]
    <3>1. Noticed(c)
      BY <1>4, <2>2, NoLostEdgeMeans
    <3>. QED  BY <1>0, <1>2, <1>3, <2>1, <3>1 DEF Noticed
  <2>3. CASE co[c] \notin level[target[c]]
    <3>1. target[c] = fd /\ co[c] = d
      BY <1>1, <1>4, <2>1, <2>3
    <3>2. co[c] \in interest[fd] /\ fd \in registered
      <4>1. co[c] \in eventMap[fd].events
        BY <1>4, <2>1, <3>1 DEF BooksInv, IoBooks
      <4>. QED  BY <4>1 DEF BooksInv, IoBooks, CtlAgrees
    <3>3. fd \in Fired'
      BY <1>0, <1>1, <1>4, <3>1, <3>2 DEF Fired, Reported
    <3>. QED  BY <1>0, <3>1, <3>3 DEF Noticed
  <2>. QED  BY <2>2, <2>3
<1>. QED  BY <1>0, <1>4, NewsKeeps

LEMMA ReportKeeps ==
    ASSUME BooksInv, NoLostEdge, ProcessEpollEvent
    PROVE  IoBooks' /\ NoLostEdge'
<1>0. /\ edge' = [fd \in Fd |-> IF fd \in Fired THEN {} ELSE edge[fd]]
      /\ UNCHANGED <<eventMap, waitToFd, interest, registered, level, co,
                     target, waitId>>
      /\ ready \in Seq(Nat)
  BY DEF ProcessEpollEvent, ReportFired, BooksInv, LoopInv, RestTypeOK
<1>1. PICK q \in Seq(Nat) :
        /\ ready' = ready \o q
        /\ \A id \in FiredWaits : \E k \in 1 .. Len(q) : q[k] = id
  BY EpollQueues DEF BooksInv, LoopInv
<1>2. /\ \A k \in 1 .. Len(ready) : k \in 1 .. Len(ready') /\ ready'[k] = ready[k]
      /\ \A k \in 1 .. Len(q) : Len(ready) + k \in 1 .. Len(ready')
                                /\ ready'[Len(ready) + k] = q[k]
  BY <1>0, <1>1, QueueAppended
<1>3. \A id \in InQueue : id \in InQueue'
  BY <1>2 DEF InQueue
<1>4. \A id \in FiredWaits : id \in InQueue'
  BY <1>1, <1>2 DEF InQueue
<1>5. ASSUME NEW c \in Coroutine, co[c] \in Dir, co[c] \in level'[target[c]]
      PROVE  Noticed(c)'
  <2>1. CASE waitId[c] \in InQueue
    BY <1>0, <1>3, <2>1 DEF Noticed
  <2>2. CASE target[c] \in Fired
    <3>1. /\ target[c] \in Fd /\ waitId[c] # NoWait
          /\ eventMap[target[c]].wait[co[c]] = waitId[c]
      BY <1>5 DEF BooksInv, IoBooks
    <3>2. co[c] \in interest[target[c]]
      BY <1>5, <3>1 DEF BooksInv, IoBooks
    <3>3. co[c] \in Reported(target[c])
      BY <1>0, <1>5, <3>2 DEF Reported
    <3>4. waitId[c] \in FiredWaits
      BY <2>2, <3>1, <3>3 DEF FiredWaits
    <3>. QED  BY <1>0, <1>4, <3>4 DEF Noticed
  <2>. QED  BY <1>0, <1>5, <2>1, <2>2, NoLostEdgeMeans DEF Noticed
<1>. QED  BY <1>0, <1>5, NewsKeeps

-----------------------------------------------------------------------------
\* Only the head of the queue is taken out of it.
LEMMA OthersStayQueued ==
    ASSUME ready \in Seq(Nat), ready # <<>>, ready' = Tail(ready)
    PROVE  \A id \in InQueue : id # Head(ready) => id \in InQueue'
<1>1. \A k \in 1 .. Len(ready) :
        ready[k] # Head(ready) =>
            k - 1 \in 1 .. Len(ready') /\ ready'[k - 1] = ready[k]
  BY QueueTail
<1>. QED  BY <1>1 DEF InQueue

LEMMA TailIsOld ==
    ASSUME ready \in Seq(Nat), ready # <<>>, ready' = Tail(ready)
    PROVE  \A id \in InQueue' : id \in InQueue
<1>1. \A k \in 1 .. Len(ready') :
        k + 1 \in 1 .. Len(ready) /\ ready'[k] = ready[k + 1]
  BY QueueTail
<1>. QED  BY <1>1 DEF InQueue

LEMMA ExecuteKeeps ==
    ASSUME BooksInv, NoLostEdge, CtlAgrees', ExecuteCallback
    PROVE  IoBooks' /\ NoLostEdge'
<1>1. PICK cb \in callbacks :
        LET c == cb.owner[2]
        IN  /\ cb.id = Head(ready)
            /\ co' = [co EXCEPT ![c] = "running"]
            /\ LeaveAwaiter(c)
            /\ waitId' = [waitId EXCEPT ![c] = NoWait]
            /\ target' = [target EXCEPT ![c] = 0]
  BY DEF ExecuteCallback
<1> DEFINE c == cb.owner[2]
<1>2. /\ c \in Coroutine /\ level' = level
      /\ ready \in Seq(Nat) /\ ready # <<>> /\ ready' = Tail(ready)
      /\ "running" \notin Dir
  BY CallbackType DEF ExecuteCallback, BooksInv, LoopInv, RestTypeOK, Dir
<1>3. \A e \in Coroutine \ {c} : target'[e] = target[e] /\ waitId'[e] = waitId[e]
  BY <1>1 DEF BooksInv, LoopInv, RestTypeOK, FrameInv, FrameTypeOK
<1>4. \A id \in InQueue : id # cb.id => id \in InQueue'
  BY <1>1, <1>2, OthersStayQueued
<1>5. CASE co[c] \in Dir
  <2>1. waitId[c] # NoWait
    BY <1>2, <1>5 DEF BooksInv, IoBooks
  <2>2. CancelWaiter(waitId[c])
    BY <1>1, <1>5, <2>1 DEF LeaveAwaiter
  <2>3. Leaves(c)
    BY <1>2, <1>5, <2>2, CancelLeaves
  <2>4. cb.id = waitId[c]
    BY <1>5 DEF Dir, BooksInv, LoopInv, FrameInv, AwaiterKnowsItsWait
  <2>. QED  BY <1>1, <1>2, <1>3, <1>4, <1>5, <2>3, <2>4, LeavesKeeps
<1>6. CASE co[c] \notin Dir
  <2>1. UNCHANGED epollVars
    BY <1>1, <1>2, <1>6 DEF LeaveAwaiter, epollVars
  <2>2. \A e \in Coroutine : co[e] \in Dir /\ waitId[e] \in InQueue
          => waitId[e] \in InQueue'
    BY <1>4, <1>6, WaitIdsDiffer
  <2>3. IoUntouched
    BY <1>1, <1>2, <1>3, <1>6, <2>1, <2>2, OtherChanges
  <2>. QED  BY <2>3, IoUntouchedKeeps
<1>. QED  BY <1>5, <1>6

LEMMA DestroyKeeps ==
    ASSUME BooksInv, NoLostEdge, CtlAgrees', NEW c \in Coroutine, Destroy(c)
    PROVE  IoBooks' /\ NoLostEdge'
<1> DEFINE mine == WaitsOf(<<"promise", c>>) \cup WaitsOf(<<"timer", c>>)
           ids == {w.id : w \in mine}
<1>1. /\ CancelWaits(ids)
      /\ co' = [co EXCEPT ![c] = "done"]
      /\ waitId' = [waitId EXCEPT ![c] = NoWait]
      /\ target' = [target EXCEPT ![c] = 0]
      /\ level' = level /\ ready' = ready /\ "done" \notin Dir
  BY DEF Destroy, Dir
<1>2. \A w \in mine : w \in callbacks /\ w.owner[2] = c
  BY DEF WaitsOf, BooksInv, WaitsMatchCallbacks
<1>3. \A e \in Coroutine \ {c} : target'[e] = target[e] /\ waitId'[e] = waitId[e]
  BY <1>1 DEF BooksInv, LoopInv, RestTypeOK, FrameInv, FrameTypeOK
<1>4. InQueue' = InQueue
  BY <1>1 DEF InQueue
<1>5. CASE co[c] \in Dir
  <2>1. PICK cb \in callbacks : cb.owner[2] = c /\ cb.id = waitId[c]
    BY <1>5, WaiterHasCallback
  <2>2. cb \in mine
    BY <2>1, OwnerType
    DEF WaitsOf, BooksInv, WaitsMatchCallbacks, LoopInv
  <2>3. ids = {waitId[c]}
    BY <1>2, <2>1, <2>2 DEF BooksInv, LoopInv, FrameInv, AwaiterKnowsItsWait
  <2>4. /\ [id |-> waitId[c], fd |-> target[c]] \in waitToFd
        /\ [id |-> waitId[c], fd |-> target[c]].id = waitId[c]
    BY <1>5 DEF BooksInv, IoBooks
  <2>5. CancelWaiter(waitId[c])
    <3> HIDE DEF ids
    <3>. QED  BY <1>1, <2>3, <2>4 DEF CancelWaits
  <2>6. Leaves(c)
    BY <1>5, <2>5, CancelLeaves
  <2>. QED  BY <1>1, <1>3, <1>4, <1>5, <2>6, LeavesKeeps
<1>6. CASE co[c] \notin Dir
  <2>1. ASSUME NEW w \in waitToFd, w.id \in ids PROVE FALSE
    <3>1. w.fd \in Fd
      BY DEF BooksInv, CtlAgrees
    <3>2. PICK e \in Coroutine : co[e] \in Dir /\ waitId[e] = w.id
      BY <3>1 DEF BooksInv, IoBooks
    <3>3. PICK cb \in mine : cb.id = w.id
      BY <2>1
    <3>4. c = e
      BY <1>2, <3>2, <3>3, WaitIdsDiffer
    <3>. QED  BY <1>6, <3>2, <3>4
  <2>2. UNCHANGED <<eventMap, waitToFd, interest, registered, edge>>
    <3> HIDE DEF ids
    <3>. QED  BY <1>1, <2>1 DEF CancelWaits
  <2>3. UNCHANGED epollVars
    BY <1>1, <2>2 DEF epollVars
  <2>4. IoUntouched
    <3>1. \A e \in Coroutine : co[e] \in Dir /\ waitId[e] \in InQueue
            => waitId[e] \in InQueue'
      BY <1>4
    <3>. QED  BY <1>1, <1>3, <1>6, <2>3, <3>1, OtherChanges
  <2>. QED  BY <2>4, IoUntouchedKeeps
<1>. QED  BY <1>5, <1>6

LEMMA RestKeeps ==
    ASSUME Polite, BooksInv, NoLostEdge,
           \/ RunOnce \/ ReadyDone \/ SkipCancelled \/ ProcessExpiredTimeout
           \/ Return \/ Tick \/ Stop \/ UNCHANGED vars
           \/ \E d \in Coroutine : Schedule(d)
           \/ \E delay \in 0 .. MaxTime : Sleep(delay)
    PROVE  IoBooks' /\ NoLostEdge'
<1>0. /\ ready \in Seq(Nat) /\ co \in [Coroutine -> State]
      /\ waitId \in [Coroutine -> Nat] /\ target \in [Coroutine -> Fd \cup Nat]
      /\ running # Nobody => running \in Coroutine /\ co[running] = "running"
  BY DEF BooksInv, LoopInv, FrameInv, FrameTypeOK, RestTypeOK
<1>1. UNCHANGED epollVars
  BY DEF RunOnce, ReadyDone, SkipCancelled, ProcessExpiredTimeout, Return, Tick,
         Stop, vars, Schedule, Sleep
<1>2. \A c \in Coroutine : co[c] \in Dir \/ co'[c] \in Dir =>
        co'[c] = co[c] /\ target'[c] = target[c] /\ waitId'[c] = waitId[c]
  <2>1. CASE \/ RunOnce \/ ReadyDone \/ SkipCancelled \/ ProcessExpiredTimeout
             \/ Tick \/ Stop \/ UNCHANGED vars
    BY <2>1
    DEF RunOnce, ReadyDone, SkipCancelled, ProcessExpiredTimeout, Tick, Stop,
        vars, loopVars
  <2>2. CASE Return
    <3>1. /\ running \in Coroutine /\ co[running] = "running"
          /\ co' = [co EXCEPT ![running] = "done"]
          /\ target' = target /\ waitId' = waitId
          /\ "running" \notin Dir /\ "done" \notin Dir
      BY <1>0, <2>2 DEF Return, Dir
    <3>. QED  BY <1>0, <3>1
  <2>3. CASE \E d \in Coroutine : Schedule(d)
    BY <1>0, <2>3 DEF Schedule, Dir
  <2>4. CASE \E delay \in 0 .. MaxTime : Sleep(delay)
    <3>1. PICK delay \in 0 .. MaxTime : Sleep(delay)
      BY <2>4
    <3>2. /\ running \in Coroutine /\ co[running] = "running"
          /\ co' = [co EXCEPT ![running] = "sleeping"]
          /\ target' = [target EXCEPT ![running] = now + delay]
          /\ waitId' = [waitId EXCEPT ![running] = nextId]
          /\ "running" \notin Dir /\ "sleeping" \notin Dir
      BY <1>0, <3>1 DEF Sleep, Dir
    <3>. QED  BY <1>0, <3>2
  <2>. QED  BY <2>1, <2>2, <2>3, <2>4
<1>3. \A c \in Coroutine : co[c] \in Dir /\ waitId[c] \in InQueue
        => waitId[c] \in InQueue'
  <2>1. CASE ready' = ready
    BY <2>1 DEF InQueue
  <2>2. CASE SkipCancelled
    <3>1. /\ ready # <<>> /\ ready' = Tail(ready)
          /\ \A cb \in callbacks : cb.id # Head(ready)
      BY <2>2 DEF SkipCancelled
    <3>2. \A id \in InQueue : id # Head(ready) => id \in InQueue'
      BY <1>0, <3>1, OthersStayQueued
    <3>. QED  BY <3>1, <3>2, WaiterHasCallback
  <2>3. ASSUME NEW q \in Seq(Nat), ready' = ready \o q
        PROVE  \A id \in InQueue : id \in InQueue'
    BY <1>0, <2>3, QueueAppended DEF InQueue
  <2>4. CASE ProcessExpiredTimeout
    BY <2>3, <2>4, TimersQueue DEF BooksInv, LoopInv
  <2>5. CASE \E d \in Coroutine : Schedule(d)
    <3>1. ready' = Append(ready, nextId) /\ nextId \in Nat
      BY <2>5 DEF Schedule, BooksInv, LoopInv, FrameInv, FrameTypeOK
    <3>2. \A k \in 1 .. Len(ready) :
            k \in 1 .. Len(ready') /\ ready'[k] = ready[k]
      BY <1>0, <3>1
    <3>. QED  BY <3>2 DEF InQueue
  <2>6. CASE \/ RunOnce \/ ReadyDone \/ Return \/ Tick \/ Stop \/ UNCHANGED vars
             \/ \E delay \in 0 .. MaxTime : Sleep(delay)
    BY <2>1, <2>6 DEF RunOnce, ReadyDone, Return, Tick, Stop, vars, loopVars, Sleep
  <2>. QED  BY <2>2, <2>4, <2>5, <2>6
<1>4. IoUntouched
  BY <1>1, <1>2, <1>3 DEF IoUntouched
<1>. QED  BY <1>4, IoUntouchedKeeps

LEMMA IoStep ==
    ASSUME Polite, BooksInv, NoLostEdge, CtlAgrees', [Next]_vars
    PROVE  IoBooks' /\ NoLostEdge'
<1>1. ASSUME NEW d \in Coroutine, CancelSleep(d) PROVE FALSE
  BY <1>1 DEF CancelSleep, Polite
<1>2. ASSUME NEW fd \in Fd, Close(fd) \/ Reopen(fd) PROVE FALSE
  BY <1>2 DEF Close, Reopen, Polite, BooksInv, CtlAgrees
<1>3. CASE \E fd \in Fd, d \in Dir : AwaitIo(fd, d)
  BY <1>3, AwaitIoBooks DEF Polite
<1>4. CASE \E fd \in Fd, d \in Dir : Peer(fd, d)
  BY <1>4, PeerKeeps
<1>. QED
  BY <1>1, <1>2, <1>3, <1>4, ReportKeeps, ExecuteKeeps, DestroyKeeps, RestKeeps
  DEF Next, LoopStep, CoroutineStep, Around

LEMMA InitIo == Init => IoBooks /\ NoLostEdge
<1> SUFFICES ASSUME Init PROVE IoBooks /\ NoLostEdge
  OBVIOUS
<1>1. \A c \in Coroutine : co[c] \notin Dir
  <2>1. \E c \in Coroutine :
          co = [d \in Coroutine |-> IF d = c THEN "scheduled" ELSE "new"]
    BY DEF Init
  <2>. QED  BY <2>1 DEF Dir
<1>2. IoBooks
  BY <1>1 DEF Init, EpollInit, NoEntry, IoBooks
<1>. QED  BY <1>1, <1>2 DEF NoLostEdge

LEMMA PoliteSafety ==
    ASSUME Polite
    PROVE  Spec => [](BooksInv /\ NoLostEdge)
<1>1. Init => IoBooks /\ NoLostEdge
  BY InitIo
<1>2. Init => ExitInv
  BY InitExitInv
<1>3. FrameInv /\ ExitInv /\ [Next]_vars => ExitInv'
  BY CtlStep, ChargedStep, PhaseStep, ExitStep DEF ExitInv, Polite
<1>4. (LoopInv /\ WaitsMatchCallbacks /\ ExitInv /\ IoBooks /\ NoLostEdge
       /\ ExitInv' /\ [Next]_vars)
        => IoBooks' /\ NoLostEdge'
  <2>1. LoopInv /\ WaitsMatchCallbacks /\ ExitInv /\ IoBooks => BooksInv
    BY DEF BooksInv, ExitInv
  <2>2. ExitInv' => CtlAgrees'
    BY DEF ExitInv
  <2>. QED  BY <2>1, <2>2, IoStep
<1>5. LoopInv => FrameInv
  BY DEF LoopInv
<1>6. LoopInv /\ WaitsMatchCallbacks /\ ExitInv /\ IoBooks => BooksInv
  BY DEF BooksInv, ExitInv
<1>7. Spec => []LoopInv /\ []WaitsMatchCallbacks
  BY LoopSafety, BooksAgree DEF Polite
<1>. QED  BY <1>1, <1>2, <1>3, <1>4, <1>5, <1>6, <1>7, PTL DEF Spec

\* No readiness is lost by edge triggering.
THEOREM NoEdgeLost ==
    ASSUME Polite
    PROVE  Spec => []NoLostEdge
BY PoliteSafety, PTL

\* A suspended coroutine can always be woken: it has one callback, and the id
\* of that is on its way.
THEOREM SuspendedIsWakeable ==
    ASSUME Polite
    PROVE  Spec => []SuspendedCanBeWoken
<1>1. BooksInv => SuspendedCanBeWoken
  <2> SUFFICES ASSUME BooksInv, NEW c \in Coroutine, co[c] \in Suspended
               PROVE  /\ Cardinality({cb \in callbacks : cb.owner[2] = c}) = 1
                      /\ \A cb \in callbacks :
                            cb.owner[2] = c => HasSource(c, cb)
    BY DEF SuspendedCanBeWoken
  <2>1. PICK me \in callbacks : me.owner[2] = c
    BY DEF BooksInv, SuspendedIsCharged, WaitsMatchCallbacks
  <2>2. {cb \in callbacks : cb.owner[2] = c} = {me}
    BY <2>1 DEF BooksInv, LoopInv, FrameInv, AwaiterKnowsItsWait
  <2>3. Cardinality({me}) = 1
    BY FS_Singleton
  <2>4. HasSource(c, me)
    <3>1. CASE co[c] = "scheduled"
      BY <2>1, <3>1 DEF HasSource, BooksInv, LoopInv, TimerBooks, InQueue
    <3>2. CASE co[c] = "sleeping"
      BY <2>1, <3>2
      DEF HasSource, BooksInv, LoopInv, TimerBooks, InQueue, Sleeps
    <3>3. CASE co[c] \in Dir
      <4>1. me.id = waitId[c]
        BY <2>1, <3>3 DEF Dir, BooksInv, LoopInv, FrameInv, AwaiterKnowsItsWait
      <4>. QED  BY <3>3, <4>1 DEF HasSource, BooksInv, IoBooks
    <3>. QED  BY <3>1, <3>2, <3>3 DEF Suspended
  <2>. QED  BY <2>2, <2>3, <2>4
<1>. QED  BY <1>1, PoliteSafety, PTL

-----------------------------------------------------------------------------
\* The loop implements Wakeups.

\* What the life of a coroutine is, by its callback.
LifeFacts ==
    \A c \in Coroutine :
        /\ co[c] \notin Suspended => Life(c) = co[c]
        /\ co[c] \in Suspended => \E cb \in callbacks : cb.owner[2] = c
        /\ \A cb \in callbacks : cb.owner[2] = c =>
             /\ co[c] \in Suspended
             /\ Life(c) = IF cb.id \in InQueue THEN "woken" ELSE "waiting"

LEMMA LifeMeans == BooksInv => LifeFacts
<1> SUFFICES ASSUME BooksInv, NEW c \in Coroutine
             PROVE  /\ co[c] \notin Suspended => Life(c) = co[c]
                    /\ co[c] \in Suspended =>
                         \E cb \in callbacks : cb.owner[2] = c
                    /\ \A cb \in callbacks : cb.owner[2] = c =>
                         /\ co[c] \in Suspended
                         /\ Life(c) = IF cb.id \in InQueue THEN "woken"
                                                           ELSE "waiting"
  BY DEF LifeFacts
<1>1. co[c] \in State
  BY DEF BooksInv, LoopInv, FrameInv, FrameTypeOK
<1>2. co[c] \notin Suspended => Life(c) = co[c]
  BY <1>1 DEF State, Life
<1>3. co[c] \in Suspended => \E cb \in callbacks : cb.owner[2] = c
  BY DEF BooksInv, SuspendedIsCharged, WaitsMatchCallbacks
<1>4. ASSUME NEW cb \in callbacks, cb.owner[2] = c
      PROVE  /\ co[c] \in Suspended
             /\ Life(c) = IF cb.id \in InQueue THEN "woken" ELSE "waiting"
  <2>1. co[c] \in Suspended
    BY <1>4 DEF BooksInv, LoopInv, FrameInv, NoCallbackForDeadFrame
  <2>2. co[c] \notin {"new", "running", "done"}
    BY <2>1 DEF Suspended, Dir
  <2>3. Queued(c) <=> cb.id \in InQueue
    BY <1>4 DEF Queued, InQueue, BooksInv, LoopInv, FrameInv, AwaiterKnowsItsWait
  <2>. QED  BY <2>1, <2>2, <2>3 DEF Life
<1>. QED  BY <1>2, <1>3, <1>4

LEMMA LifeMeansNext == BooksInv' => LifeFacts'
  BY LifeMeans, PTL

\* A step that leaves c, its callback and the place of that alone.
Same(c) ==
    /\ co'[c] = co[c]
    /\ \A cb \in callbacks : cb.owner[2] = c =>
         cb \in callbacks' /\ (cb.id \in InQueue' <=> cb.id \in InQueue)

LEMMA SameLife ==
    ASSUME LifeFacts, LifeFacts', NEW c \in Coroutine, Same(c)
    PROVE  Life(c)' = Life(c)
<1>1. CASE co[c] \notin Suspended
  <2>1. Life(c)' = co'[c]
    BY <1>1 DEF LifeFacts, Same
  <2>. QED  BY <1>1, <2>1 DEF LifeFacts, Same
<1>2. CASE co[c] \in Suspended
  <2>1. PICK cb \in callbacks : cb.owner[2] = c
    BY <1>2 DEF LifeFacts
  <2>2. cb \in callbacks' /\ (cb.id \in InQueue' <=> cb.id \in InQueue)
    BY <2>1 DEF Same
  <2>3. Life(c) = IF cb.id \in InQueue THEN "woken" ELSE "waiting"
    BY <2>1 DEF LifeFacts
  <2>4. Life(c)' = IF cb.id \in InQueue' THEN "woken" ELSE "waiting"
    BY <2>1, <2>2 DEF LifeFacts
  <2>. QED  BY <2>2, <2>3, <2>4
<1>. QED  BY <1>1, <1>2

\* Steps that change the life of one coroutine, or of none.
LEMMA OneBecomes ==
    ASSUME LifeFacts, LifeFacts', NEW c \in Coroutine,
           \A e \in Coroutine \ {c} : Same(e)
    PROVE  Loop!Become(c, Life(c)')
<1>1. \A e \in Coroutine \ {c} : Life(e)' = Life(e)
  BY SameLife
<1>. QED  BY <1>1 DEF Loop!Become

LEMMA NobodyBecomes ==
    ASSUME LifeFacts, LifeFacts', \A e \in Coroutine : Same(e)
    PROVE  Loop!WakeupsNext
<1>1. \A e \in Coroutine : Life(e)' = Life(e)
  BY SameLife
<1>. QED  BY <1>1 DEF Loop!WakeupsNext

\* Somebody runs in the abstract where somebody runs in the loop.
LEMMA WhoRuns ==
    ASSUME BooksInv
    PROVE  /\ Loop!SomebodyRuns <=> running # Nobody
           /\ running # Nobody => /\ running \in Coroutine
                                  /\ co[running] = "running"
                                  /\ Life(running) = "running"
<1>1. ASSUME NEW c \in Coroutine
      PROVE  Life(c) = "running" <=> co[c] = "running"
  <2>1. co[c] \notin Suspended => Life(c) = co[c]
    BY LifeMeans DEF LifeFacts
  <2>2. co[c] \in Suspended => Life(c) # "running" /\ co[c] # "running"
    BY LifeMeans DEF LifeFacts, Suspended, Dir
  <2>. QED  BY <2>1, <2>2
<1>2. /\ running \in Coroutine \cup {Nobody}
      /\ \A c \in Coroutine : co[c] = "running" <=> c = running
  BY DEF BooksInv, LoopInv, FrameInv, FrameTypeOK
<1>. QED  BY <1>1, <1>2, NobodyAssumption DEF Loop!SomebodyRuns

-----------------------------------------------------------------------------
\* The steps of the loop and of the coroutines, seen as those of Wakeups.

\* What is queued stays queued when ids are appended.
LEMMA AppendedStay ==
    ASSUME ready \in Seq(Nat), NEW q \in Seq(Nat), ready' = ready \o q
    PROVE  \A id : id \in InQueue' <=>
             \/ id \in InQueue
             \/ \E k \in 1 .. Len(q) : q[k] = id
<1>1. /\ \A k \in 1 .. Len(ready) :
           k \in 1 .. Len(ready') /\ ready'[k] = ready[k]
      /\ \A k \in 1 .. Len(q) : Len(ready) + k \in 1 .. Len(ready')
                                /\ ready'[Len(ready) + k] = q[k]
      /\ \A k \in 1 .. Len(ready') :
           \/ k \in 1 .. Len(ready) /\ ready'[k] = ready[k]
           \/ /\ k > Len(ready) /\ k - Len(ready) \in 1 .. Len(q)
              /\ ready'[k] = q[k - Len(ready)]
  BY QueueAppended
<1>2. ASSUME NEW id \in InQueue
      PROVE  id \in InQueue'
  BY <1>1 DEF InQueue
<1>3. ASSUME NEW k \in 1 .. Len(q)
      PROVE  q[k] \in InQueue'
  BY <1>1 DEF InQueue
<1>4. ASSUME NEW id \in InQueue', id \notin InQueue
      PROVE  \E k \in 1 .. Len(q) : q[k] = id
  BY <1>1, <1>4 DEF InQueue
<1>. QED  BY <1>2, <1>3, <1>4

LEMMA ExecuteResumes ==
    ASSUME BooksInv, BooksInv', ExecuteCallback
    PROVE  Loop!WakeupsNext
<1>1. PICK cb \in callbacks :
        LET c == cb.owner[2]
        IN  /\ cb.id = Head(ready)
            /\ callbacks' = callbacks \ {cb}
            /\ running' = c
            /\ co' = [co EXCEPT ![c] = "running"]
  BY DEF ExecuteCallback
<1> DEFINE c == cb.owner[2]
<1>2. /\ c \in Coroutine /\ running = Nobody
      /\ ready \in Seq(Nat) /\ ready # <<>> /\ ready' = Tail(ready)
      /\ co \in [Coroutine -> State]
  BY CallbackType
  DEF ExecuteCallback, BooksInv, LoopInv, RestTypeOK, FrameInv, FrameTypeOK
<1>3. LifeFacts /\ LifeFacts'
  BY LifeMeans, LifeMeansNext
<1>4. Head(ready) \in InQueue
  BY <1>2, LenProperties DEF InQueue
<1>5. Life(c) = "woken"
  BY <1>1, <1>2, <1>3, <1>4 DEF LifeFacts
<1>6. Life(c)' = "running"
  <2>1. co'[c] = "running"
    BY <1>1, <1>2
  <2>. QED  BY <1>2, <1>3, <2>1 DEF LifeFacts, Suspended, Dir
<1>7. ASSUME NEW e \in Coroutine \ {c} PROVE Same(e)
  <2>1. ASSUME NEW other \in callbacks, other.owner[2] = e
        PROVE  /\ other \in callbacks' /\ other.id # Head(ready)
               /\ other.id \in InQueue' <=> other.id \in InQueue
    <3>1. other \in callbacks' /\ other.id # Head(ready)
      BY <1>1, <2>1 DEF BooksInv, LoopInv, FrameInv, IdsAreOwned
    <3>. QED  BY <1>2, <3>1, OthersStayQueued, TailIsOld
  <2>. QED  BY <1>1, <1>2, <2>1 DEF Same
<1>8. Loop!Become(c, "running")
  BY <1>2, <1>3, <1>6, <1>7, OneBecomes
<1>9. ~ Loop!SomebodyRuns
  BY <1>2, WhoRuns
<1>10. Loop!Resume(c)
  BY <1>2, <1>5, <1>8, <1>9 DEF Loop!Resume
<1>. QED  BY <1>2, <1>10 DEF Loop!WakeupsNext

LEMMA SkipKeeps ==
    ASSUME BooksInv, BooksInv', SkipCancelled
    PROVE  Loop!WakeupsNext
<1>1. /\ ready \in Seq(Nat) /\ ready # <<>> /\ ready' = Tail(ready)
      /\ \A cb \in callbacks : cb.id # Head(ready)
      /\ co' = co /\ callbacks' = callbacks
  BY DEF SkipCancelled, BooksInv, LoopInv, RestTypeOK
<1>2. \A cb \in callbacks : cb.id \in InQueue' <=> cb.id \in InQueue
  BY <1>1, OthersStayQueued, TailIsOld
<1>3. \A c \in Coroutine : Same(c)
  BY <1>1, <1>2 DEF Same
<1>. QED  BY <1>3, NobodyBecomes, LifeMeans, LifeMeansNext

\* Ids that are queued wake the coroutines whose they are, provided that their
\* causes are there.
LEMMA QueuedWakes ==
    ASSUME BooksInv, BooksInv', co' = co, callbacks' = callbacks,
           NEW q \in Seq(Nat), ready' = ready \o q,
           \A cb \in callbacks, k \in 1 .. Len(q) :
              q[k] = cb.id => CauseIsThere(cb.owner[2])
    PROVE  Loop!WakeupsNext
<1> DEFINE S == {c \in Coroutine : Life(c) = "waiting" /\ Life(c)' = "woken"}
<1>0. ready \in Seq(Nat) /\ LifeFacts /\ LifeFacts'
  BY LifeMeans, LifeMeansNext DEF BooksInv, LoopInv, RestTypeOK
<1>1. \A id : id \in InQueue' <=>
        \/ id \in InQueue
        \/ \E k \in 1 .. Len(q) : q[k] = id
  BY <1>0, AppendedStay
<1>2. ASSUME NEW c \in Coroutine
      PROVE  /\ c \in S => CauseIsThere(c)
             /\ c \notin S => Life(c)' = Life(c)
  <2>1. CASE co[c] \notin Suspended
    <3>1. Same(c)
      BY <1>0, <2>1 DEF Same, LifeFacts
    <3>2. Life(c)' = Life(c)
      BY <1>0, <3>1, SameLife
    <3>. QED  BY <3>2
  <2>2. CASE co[c] \in Suspended
    <3>1. PICK cb \in callbacks : cb.owner[2] = c
      BY <1>0, <2>2 DEF LifeFacts
    <3>2. Life(c) = IF cb.id \in InQueue THEN "woken" ELSE "waiting"
      BY <1>0, <3>1 DEF LifeFacts
    <3>3. Life(c)' = IF cb.id \in InQueue' THEN "woken" ELSE "waiting"
      BY <1>0, <3>1 DEF LifeFacts
    <3>4. c \in S => \E k \in 1 .. Len(q) : q[k] = cb.id
      BY <1>1, <3>2, <3>3
    <3>5. c \in S => CauseIsThere(c)
      BY <3>1, <3>4
    <3>. QED  BY <1>1, <3>2, <3>3, <3>5
  <2>. QED  BY <2>1, <2>2
<1>3. /\ S \subseteq Coroutine
      /\ \A c \in S : Life(c) = "waiting" /\ CauseIsThere(c)
  BY <1>2
<1>4. \A c \in Coroutine :
        Life(c)' = IF c \in S THEN "woken" ELSE Life(c)
  BY <1>2
<1>5. Loop!Wake(S)
  <2> HIDE DEF S
  <2>. QED  BY <1>3, <1>4 DEF Loop!Wake
<1>. QED  BY <1>3, <1>5 DEF Loop!WakeupsNext

LEMMA EpollWakes ==
    ASSUME BooksInv, BooksInv', ProcessEpollEvent
    PROVE  Loop!WakeupsNext
<1>1. PICK q \in Seq(Nat) :
        /\ ready' = ready \o q
        /\ \A k \in 1 .. Len(q) : q[k] \in FiredWaits
  BY EpollQueues DEF BooksInv, LoopInv
<1>2. co' = co /\ callbacks' = callbacks
  BY DEF ProcessEpollEvent
<1>3. ASSUME NEW cb \in callbacks, cb.id \in FiredWaits
      PROVE  CauseIsThere(cb.owner[2])
  <2>1. PICK fd \in Fired : \E d \in Reported(fd) : cb.id = eventMap[fd].wait[d]
    BY <1>3 DEF FiredWaits
  <2>2. PICK d \in Reported(fd) : cb.id = eventMap[fd].wait[d]
    BY <2>1
  <2>3. fd \in Fd /\ d \in Dir /\ d \in level[fd] /\ cb.id # NoWait
    BY <1>3, <2>2
    DEF Fired, Reported, FiredWaits, BooksInv, LoopInv, RestTypeOK, EpollTypeOK
  <2>4. PICK c \in Coroutine : co[c] = d /\ target[c] = fd /\ waitId[c] = cb.id
    BY <2>3, <2>2 DEF BooksInv, IoBooks
  <2>5. cb.owner[2] = c
    BY <2>3, <2>4, WaitIdsDiffer
  <2>. QED  BY <2>3, <2>4, <2>5 DEF CauseIsThere
<1>. QED  BY <1>1, <1>2, <1>3, QueuedWakes

LEMMA TimeoutWakes ==
    ASSUME BooksInv, BooksInv', ProcessExpiredTimeout
    PROVE  Loop!WakeupsNext
<1>1. PICK order \in Seq(Due), q \in Seq(Nat) :
        /\ ready' = ready \o q
        /\ \A k \in 1 .. Len(q) : order[k] \in Due /\ q[k] = order[k].id
  BY TimersQueue DEF BooksInv, LoopInv
<1>2. co' = co /\ callbacks' = callbacks
  BY DEF ProcessExpiredTimeout
<1>3. ASSUME NEW cb \in callbacks, NEW k \in 1 .. Len(q), q[k] = cb.id
      PROVE  CauseIsThere(cb.owner[2])
  <2>1. order[k] \in scheduled /\ order[k].id = cb.id /\ order[k].when <= now
    BY <1>1, <1>3 DEF Due
  <2>2. /\ co[cb.owner[2]] = "sleeping"
        /\ target[cb.owner[2]] = order[k].when
    BY <2>1 DEF BooksInv, LoopInv, TimerBooks, Sleeps
  <2>. QED  BY <2>1, <2>2 DEF CauseIsThere
<1>. QED  BY <1>1, <1>2, <1>3, QueuedWakes

LEMMA ScheduleStarts ==
    ASSUME BooksInv, BooksInv', NEW d \in Coroutine, Schedule(d)
    PROVE  Loop!WakeupsNext
<1>0. /\ ready \in Seq(Nat) /\ nextId \in Nat /\ LifeFacts /\ LifeFacts'
      /\ co \in [Coroutine -> State]
  BY LifeMeans, LifeMeansNext
  DEF BooksInv, LoopInv, RestTypeOK, FrameInv, FrameTypeOK
<1>1. /\ running # Nobody /\ co[d] = "new"
      /\ callbacks' = callbacks \cup {[id |-> nextId, owner |-> <<"promise", d>>]}
      /\ ready' = ready \o <<nextId>>
      /\ co' = [co EXCEPT ![d] = "scheduled"]
  BY <1>0 DEF Schedule, Register
<1>2. \A id : id \in InQueue' <=> id \in InQueue \/ id = nextId
  <2> DEFINE q == <<nextId>>
  <2>1. q \in Seq(Nat) /\ q[1] = nextId /\ 1 .. Len(q) = {1}
    BY <1>0
  <2>2. ready' = ready \o q
    BY <1>1
  <2> HIDE DEF q
  <2>3. \A id : (\E k \in 1 .. Len(q) : q[k] = id) <=> id = nextId
    BY <2>1
  <2>. QED  BY <1>0, <2>1, <2>2, <2>3, AppendedStay
<1>3. Life(d) = "new"
  BY <1>0, <1>1 DEF LifeFacts, Suspended, Dir
<1>4. Life(d)' = "woken"
  <2> DEFINE cb == [id |-> nextId, owner |-> <<"promise", d>>]
  <2>1. cb \in callbacks' /\ cb.owner[2] = d /\ cb.id = nextId
    BY <1>1
  <2>. QED  BY <1>0, <1>2, <2>1 DEF LifeFacts
<1>5. \A e \in Coroutine \ {d} : Same(e)
  <2>1. \A cb \in callbacks : cb.id # nextId
    BY CallbackType DEF BooksInv, LoopInv
  <2>. QED  BY <1>0, <1>1, <1>2, <2>1 DEF Same
<1>6. Loop!Start(d)
  BY <1>0, <1>1, <1>3, <1>4, <1>5, OneBecomes, WhoRuns DEF Loop!Start
<1>. QED  BY <1>6 DEF Loop!WakeupsNext

\* A coroutine that registers and suspends itself waits.
LEMMA RegisterSuspends ==
    ASSUME BooksInv, BooksInv', running # Nobody,
           NEW owner \in {<<"promise", running>>, <<"timer", running>>},
           Register(owner), ready' = ready,
           NEW st \in Suspended, co' = [co EXCEPT ![running] = st]
    PROVE  Loop!WakeupsNext
<1>0. PICK c \in Coroutine : c = running
  BY WhoRuns
<1>1. PICK me : /\ callbacks' = callbacks \cup {me}
                /\ me.owner[2] = c /\ me.id = nextId
  <2> DEFINE new == [id |-> nextId, owner |-> owner]
  <2>1. callbacks' = callbacks \cup {new}
    BY DEF Register
  <2>2. new.owner[2] = c /\ new.id = nextId
    BY <1>0
  <2> HIDE DEF new
  <2>. QED  BY <2>1, <2>2
<1>2. Life(c) = "running"
  BY <1>0, WhoRuns
<1>3. nextId \notin InQueue /\ InQueue' = InQueue
  BY DEF InQueue, BooksInv, LoopInv, Fresh, FrameInv, FrameTypeOK
<1>4. LifeFacts /\ LifeFacts' /\ co \in [Coroutine -> State]
  BY LifeMeans, LifeMeansNext DEF BooksInv, LoopInv, FrameInv, FrameTypeOK
<1>5. Life(c)' = "waiting"
  <2>1. me \in callbacks' /\ me.id \notin InQueue'
    BY <1>1, <1>3
  <2>. QED  BY <1>1, <1>4, <2>1 DEF LifeFacts
<1>6. \A e \in Coroutine \ {c} : Same(e)
  BY <1>0, <1>1, <1>3, <1>4 DEF Same
<1>7. Loop!Suspend(c)
  BY <1>2, <1>4, <1>5, <1>6, OneBecomes DEF Loop!Suspend
<1>. QED  BY <1>2, <1>7 DEF Loop!WakeupsNext

LEMMA AwaitIoSuspends ==
    ASSUME BooksInv, BooksInv', NEW fd \in Fd, NEW d \in Dir, AwaitIo(fd, d)
    PROVE  Loop!WakeupsNext
<1>1. CtlWorks(fd, open)
  BY DEF AwaitIo, CtlWorks, BooksInv, CtlAgrees
<1>2. /\ running # Nobody /\ Register(<<"promise", running>>)
      /\ ready' = ready /\ d \in Suspended
      /\ co' = [co EXCEPT ![running] = d]
  BY <1>1 DEF AwaitIo, Suspended
<1>. QED  BY <1>2, RegisterSuspends

LEMMA SleepSuspends ==
    ASSUME BooksInv, BooksInv', NEW delay \in 0 .. MaxTime, Sleep(delay)
    PROVE  Loop!WakeupsNext
<1>1. /\ running # Nobody /\ Register(<<"timer", running>>)
      /\ ready' = ready /\ "sleeping" \in Suspended
      /\ co' = [co EXCEPT ![running] = "sleeping"]
  BY DEF Sleep, Suspended
<1>. QED  BY <1>1, RegisterSuspends

\* A coroutine that becomes "done", with its callback or without having one.
LEMMA DestroyCancels ==
    ASSUME BooksInv, BooksInv', NEW d \in Coroutine, Destroy(d)
    PROVE  Loop!WakeupsNext
<1> DEFINE mine == WaitsOf(<<"promise", d>>) \cup WaitsOf(<<"timer", d>>)
           ids == {w.id : w \in mine}
<1>1. /\ running # Nobody /\ co[d] \in Suspended
      /\ callbacks' = {cb \in callbacks : cb.id \notin ids}
      /\ co' = [co EXCEPT ![d] = "done"] /\ ready' = ready
  BY DEF Destroy, CancelWaits
<1>2. LifeFacts /\ LifeFacts' /\ co \in [Coroutine -> State]
  BY LifeMeans, LifeMeansNext DEF BooksInv, LoopInv, FrameInv, FrameTypeOK
<1>3. \A w \in mine : w \in callbacks /\ w.owner[2] = d
  BY DEF WaitsOf, BooksInv, WaitsMatchCallbacks
<1>4. ASSUME NEW cb \in callbacks, cb.owner[2] # d PROVE cb \in callbacks'
  <2>1. cb.id \notin ids
    BY <1>3, <1>4 DEF BooksInv, LoopInv, FrameInv, IdsAreOwned
  <2>. QED  BY <1>1, <2>1
<1>5. \A e \in Coroutine \ {d} : Same(e)
  <2>1. InQueue' = InQueue
    BY <1>1 DEF InQueue
  <2>2. \A e \in Coroutine \ {d} : co'[e] = co[e]
    BY <1>1, <1>2
  <2> HIDE DEF ids
  <2>. QED  BY <1>4, <2>1, <2>2 DEF Same
<1>6. Life(d) \in {"waiting", "woken"}
  BY <1>1, <1>2 DEF LifeFacts
<1>7. Life(d)' = "done"
  <2>1. co'[d] = "done"
    BY <1>1, <1>2
  <2>. QED  BY <1>2, <2>1 DEF LifeFacts, Suspended, Dir
<1>8. Loop!Cancel(d)
  BY <1>1, <1>2, <1>5, <1>6, <1>7, OneBecomes, WhoRuns DEF Loop!Cancel
<1>. QED  BY <1>8 DEF Loop!WakeupsNext

LEMMA ReturnFinishes ==
    ASSUME BooksInv, BooksInv', Return
    PROVE  Loop!WakeupsNext
<1>0. PICK c \in Coroutine : c = running
  BY WhoRuns DEF Return
<1>1. /\ Life(c) = "running" /\ co[c] = "running"
      /\ co' = [co EXCEPT ![c] = "done"]
      /\ ready' = ready /\ callbacks' = callbacks
  BY <1>0, WhoRuns DEF Return
<1>2. LifeFacts /\ LifeFacts' /\ co \in [Coroutine -> State]
  BY LifeMeans, LifeMeansNext DEF BooksInv, LoopInv, FrameInv, FrameTypeOK
<1>3. \A e \in Coroutine \ {c} : Same(e)
  <2>1. InQueue' = InQueue
    BY <1>1 DEF InQueue
  <2>. QED  BY <1>1, <1>2, <2>1 DEF Same
<1>4. Life(c)' = "done"
  <2>1. co'[c] = "done"
    BY <1>1, <1>2
  <2>. QED  BY <1>1, <1>2, <2>1 DEF LifeFacts, Suspended, Dir
<1>5. Loop!Finish(c)
  BY <1>1, <1>2, <1>3, <1>4, OneBecomes DEF Loop!Finish
<1>. QED  BY <1>1, <1>5 DEF Loop!WakeupsNext

LEMMA WakeupsStep ==
    ASSUME Polite, BooksInv, BooksInv', [Next]_vars
    PROVE  Loop!WakeupsNext
<1>1. ASSUME NEW d \in Coroutine, CancelSleep(d) PROVE FALSE
  BY <1>1 DEF CancelSleep, Polite
<1>2. ASSUME NEW fd \in Fd, Close(fd) \/ Reopen(fd) PROVE FALSE
  BY <1>2 DEF Close, Reopen, Polite, BooksInv, CtlAgrees
<1>3. CASE RunOnce \/ ReadyDone \/ Around \/ UNCHANGED vars
  <2>1. co' = co /\ callbacks' = callbacks /\ ready' = ready
    BY <1>3
    DEF RunOnce, ReadyDone, Around, Peer, Tick, Stop, vars, loopVars
  <2>2. InQueue' = InQueue
    BY <2>1 DEF InQueue
  <2>3. \A c \in Coroutine : Same(c)
    BY <2>1, <2>2 DEF Same
  <2>. QED  BY <2>3, NobodyBecomes, LifeMeans, LifeMeansNext
<1>. QED
  BY <1>1, <1>2, <1>3, ExecuteResumes, SkipKeeps, EpollWakes, TimeoutWakes,
     ScheduleStarts, AwaitIoSuspends, SleepSuspends, DestroyCancels,
     ReturnFinishes
  DEF Next, LoopStep, CoroutineStep

LEMMA InitWakeups == Init /\ BooksInv => Loop!WakeupsInit
<1> SUFFICES ASSUME Init, BooksInv PROVE Loop!WakeupsInit
  OBVIOUS
<1>1. PICK c \in Coroutine :
        /\ callbacks = {[id |-> 0, owner |-> <<"promise", c>>]}
        /\ co = [d \in Coroutine |-> IF d = c THEN "scheduled" ELSE "new"]
  BY DEF Init
<1>2. LifeFacts
  BY LifeMeans
<1>3. 0 \in InQueue
  BY DEF Init, InQueue
<1>4. Life(c) = "woken"
  BY <1>1, <1>2, <1>3 DEF LifeFacts
<1>5. \A d \in Coroutine \ {c} : Life(d) = "new"
  BY <1>1, <1>2 DEF LifeFacts, Suspended, Dir
<1>6. ASSUME NEW d \in Coroutine PROVE ~ CauseIsThere(d)
  BY <1>1 DEF CauseIsThere, Dir
<1>. QED  BY <1>4, <1>5, <1>6 DEF Loop!WakeupsInit

\* Seen as lives of coroutines the loop does what Wakeups says and no more: one
\* coroutine runs at a time, a suspension is ended at most once and only when
\* its cause is there, and a destroyed coroutine is never resumed.
THEOREM LoopIsWakeups ==
    ASSUME Polite
    PROVE  Spec => ImplementsWakeups
<1>1. Loop!WakeupsNext => [Loop!WakeupsNext]_Loop!wakeupVars
  OBVIOUS
<1>2. BooksInv /\ BooksInv' /\ [Next]_vars => Loop!WakeupsNext
  BY WakeupsStep
<1>. QED  BY <1>1, <1>2, InitWakeups, PoliteSafety, PTL
          DEF Spec, ImplementsWakeups, Loop!WakeupsSpec
=============================================================================
