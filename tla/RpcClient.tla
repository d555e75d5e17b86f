----------------------------- MODULE RpcClient ------------------------------
(***************************************************************************)
(* RpcClient (src/rpc_client_impl.cc): a list of instances, a pool with a  *)
(* channel for each, and calls that choose an instance, get a channel to   *)
(* it, connecting if they must, and repeat what fails.  The list changes   *)
(* on ZooKeeper's thread while calls are under way.                        *)
(***************************************************************************)
EXTENDS RpcChannel

CONSTANTS
    Addr,       \* addresses of instances
    MaxRetries, \* maxRetries of the options
    MaxEvents   \* bound on the events

ASSUME ClientAssumption == MaxRetries \in Nat /\ Addr # {}

VARIABLES
    instances,  \* m_instances
    unavailable,\* m_failedAddrs
    pool,       \* m_channels
    pc,         \* where callMethodAsync() of each call is
    why,        \* what for it gets a channel
    target,     \* targetAddr
    making,     \* the channel that getOrCreateChannel() connects
    tries,      \* turns of the two loops
    events,     \* history: changes of the list, lost connections, timeouts and
                \* errors, so far
    robbed      \* history: the call's channel was closed by another

listVars == <<instances, events>>
clientVars == <<unavailable, pool, pc, why, target, making, tries, listVars,
                robbed>>
vars == <<chan, callVars, history, clientVars>>

Init ==
    /\ ChannelInit
    /\ instances \in SUBSET Addr
    /\ unavailable = {}
    /\ pool = [a \in Addr |-> NoChan]
    /\ pc = [c \in Call |-> "idle"]
    /\ why = [c \in Call |-> "first"]
    /\ target = [c \in Call |-> CHOOSE a \in Addr : TRUE]
    /\ making = [c \in Call |-> NoChan]
    /\ tries = [c \in Call |-> 0]
    /\ events = 0
    /\ robbed = [c \in Call |-> FALSE]

Unused(used, made, pooled) ==
    {ch \in Chan : /\ \A c \in Call : used[c] # ch /\ made[c] # ch
                   /\ \A a \in Addr : pooled[a] # ch}

\* A channel is destroyed, and so closed, with the last pointer to it.
DropUnused(next) ==
    chan' = [ch \in Chan |-> IF ch \in Unused(on', making', pool') THEN Closed
                             ELSE next[ch]]

-----------------------------------------------------------------------------
\* Getting a channel.

\* Something that goes wrong, or changes.
Event == events < MaxEvents /\ events' = events + 1

\* The instances that have not failed, of which the balancer selects one.
Available == instances \ unavailable

Select(c) ==
    /\ pc[c] = "idle"
    /\ IF Available = {}
       THEN /\ pc' = [pc EXCEPT ![c] = "false"]
            /\ failed' = [failed EXCEPT ![c] = TRUE]
            /\ UNCHANGED target
       ELSE /\ \E a \in Available : target' = [target EXCEPT ![c] = a]
            /\ pc' = [pc EXCEPT ![c] = "get"]
            /\ UNCHANGED failed
    /\ UNCHANGED <<chan, on, io, late, history, unavailable, pool, why, making,
                   tries, listVars, robbed>>

\* callMethodAsync() returns: its pointers go.
Return(c, result) ==
    /\ pc' = [pc EXCEPT ![c] = result]
    /\ on' = [on EXCEPT ![c] = NoChan]
    /\ io' = [io EXCEPT ![c] = "none"]
    /\ why' = [why EXCEPT ![c] = "first"]
    /\ tries' = [tries EXCEPT ![c] = 0]
    /\ own' = [own EXCEPT ![c] = FALSE]
    /\ executed' = [executed EXCEPT ![c] = 0]
    /\ robbed' = [robbed EXCEPT ![c] = FALSE]

\* markUnavailable(): until the list changes the address is not used again.
GiveUp(c) ==
    /\ Return(c, "false")
    /\ failed' = [failed EXCEPT ![c] = TRUE]
    /\ unavailable' = unavailable \cup {target[c]}

\* A null channel is asked for again, maxRetries times.
Reconnect(c) ==
    /\ pc' = [pc EXCEPT ![c] = "get"]
    /\ why' = [why EXCEPT ![c] = "reconnect"]
    /\ tries' = [tries EXCEPT ![c] = @ + 1]
    /\ UNCHANGED <<on, io, failed, history, unavailable, robbed>>

\* What the call does with the channel it got.  When the first one was null it
\* fails, even if it got another; a retry of the call uses a null one.
Got(c, ch) ==
    IF why[c] = "again" \/ (why[c] = "first" /\ ch # NoChan)
    THEN /\ pc' = [pc EXCEPT ![c] = "call"]
         /\ on' = [on EXCEPT ![c] = ch]
         /\ UNCHANGED <<io, failed, history, unavailable, why, tries, robbed>>
    ELSE IF ch = NoChan /\ tries[c] < MaxRetries THEN Reconnect(c) ELSE GiveUp(c)

\* The pooled channel.
Reuse(c) ==
    LET ch == pool[target[c]]
    IN  /\ pc[c] = "get"
        /\ ch # NoChan /\ chan[ch].connected
        /\ Got(c, ch)
        /\ UNCHANGED <<late, pool, target, making, listVars>>
        /\ DropUnused(chan)

\* Or a new one, which starts to connect.
Create(c) ==
    /\ pc[c] = "get"
    /\ pool[target[c]] # NoChan => ~chan[pool[target[c]]].connected
    /\ Unused(on, making, pool) # {}
    /\ making' = [making EXCEPT ![c] = CHOOSE ch \in Unused(on, making, pool) : TRUE]
    /\ pc' = [pc EXCEPT ![c] = "connecting"]
    /\ UNCHANGED <<chan, callVars, history, unavailable, pool, why, target,
                   tries, listVars, robbed>>

\* The channel that was made enters the pool over any other, and also when its
\* address has left the list.
Made(c, outcome) ==
    LET ch == making[c]
    IN  /\ pc[c] = "connecting"
        /\ Got(c, ch)
        /\ pool' = [pool EXCEPT ![target[c]] = ch]
        /\ making' = [making EXCEPT ![c] = NoChan]
        /\ UNCHANGED <<late, target, instances>>
        /\ DropUnused([chan EXCEPT ![ch] = outcome])

Connect(c) == Made(c, Opened) /\ UNCHANGED events

\* connect() has thrown, which nobody looks at.
ConnectFails(c) == Event /\ Made(c, Closed)

\* connect() was late: the result is null, and the channel goes.
ConnectLate(c) ==
    /\ Event
    /\ pc[c] = "connecting"
    /\ Got(c, NoChan)
    /\ making' = [making EXCEPT ![c] = NoChan]
    /\ UNCHANGED <<late, pool, target, instances>>
    /\ DropUnused(chan)

-----------------------------------------------------------------------------
\* Calling.

Begin(c) ==
    /\ pc[c] = "call"
    /\ on[c] # NoChan
    /\ CallMethodAsync(c)
    /\ pc' = [pc EXCEPT ![c] = "calling"]
    /\ UNCHANGED <<unavailable, pool, why, target, making, tries, listVars, robbed>>

\* A null channel is dereferenced, with which the program ends.
BeginNull(c) ==
    /\ pc[c] = "call"
    /\ on[c] = NoChan
    /\ pc' = [pc EXCEPT ![c] = "crashed"]
    /\ UNCHANGED <<chan, callVars, history, unavailable, pool, why, target,
                   making, tries, listVars, robbed>>

Io(c) ==
    /\ pc[c] = "calling"
    /\ IoStep(c)
    /\ UNCHANGED clientVars

Succeed(c) ==
    /\ pc[c] = "calling" /\ io[c] = "ended"
    /\ ~failed[c]
    /\ Return(c, "true")
    /\ UNCHANGED <<late, failed, unavailable, pool, target, making, listVars>>
    /\ DropUnused(chan)

\* A call that has failed is made again on the same channel at once, and then
\* maxRetries times more on one that it gets anew.
Retry(c) ==
    /\ pc[c] = "calling" /\ io[c] = "ended"
    /\ failed[c]
    /\ LET n == IF why[c] = "first" THEN 0 ELSE tries[c]
       IN  /\ n <= MaxRetries
           /\ pc' = [pc EXCEPT ![c] = IF n = 0 THEN "call" ELSE "get"]
           /\ tries' = [tries EXCEPT ![c] = n + 1]
    /\ why' = [why EXCEPT ![c] = "again"]
    /\ UNCHANGED <<chan, callVars, history, unavailable, pool, target, making,
                   listVars, robbed>>

Fail(c) ==
    /\ pc[c] = "calling" /\ io[c] = "ended"
    /\ failed[c]
    /\ why[c] = "again" /\ tries[c] > MaxRetries
    /\ GiveUp(c)
    /\ UNCHANGED <<late, pool, target, making, listVars>>
    /\ DropUnused(chan)

-----------------------------------------------------------------------------
\* updateInstances() and disconnect(), on whatever thread, and what the server
\* and the network do.

\* The channels of the others are closed, in use or not.
UpdateInstances(S) ==
    LET gone == {pool[a] : a \in Addr \ S} \ {NoChan}
    IN  /\ Event
        /\ instances' = S
        /\ unavailable' = {}
        /\ pool' = [a \in Addr |-> IF a \in S THEN pool[a] ELSE NoChan]
        /\ chan' = Close(gone)
        /\ robbed' = [c \in Call |-> robbed[c] \/ on[c] \in gone]
        /\ UNCHANGED <<callVars, history, pc, why, target, making, tries>>

Disconnect ==
    LET gone == {pool[a] : a \in Addr} \ {NoChan}
    IN  /\ Event
        /\ instances' = {}
        /\ pool' = [a \in Addr |-> NoChan]
        /\ chan' = Close(gone)
        /\ robbed' = [c \in Call |-> robbed[c] \/ on[c] \in gone]
        /\ UNCHANGED <<callVars, history, unavailable, pc, why, target, making,
                       tries>>

-----------------------------------------------------------------------------
ClientStep(c) ==
    \/ Select(c) \/ Reuse(c) \/ Create(c)
    \/ Connect(c)
    \/ Begin(c) \/ BeginNull(c) \/ Io(c)
    \/ Succeed(c) \/ Retry(c) \/ Fail(c)

Answer(ch) == Serve(ch, TRUE) /\ UNCHANGED clientVars

Disturb(ch) ==
    /\ Event
    /\ Serve(ch, FALSE) \/ PeerCloses(ch)
    /\ UNCHANGED <<unavailable, pool, pc, why, target, making, tries, instances,
                   robbed>>

Late(c) ==
    /\ Event
    /\ Expire(c)
    /\ UNCHANGED <<unavailable, pool, pc, why, target, making, tries, instances,
                   robbed>>

\* No null pointer has been dereferenced.
Alive == \A c \in Call : io[c] # "crashed" /\ pc[c] # "crashed"

Next ==
    /\ Alive
    /\ \/ \E c \in Call : ClientStep(c)
       \/ \E c \in Call : Late(c) \/ ConnectFails(c) \/ ConnectLate(c)
       \/ \E ch \in Chan : Answer(ch) \/ Disturb(ch)
       \/ \E S \in SUBSET Addr : UpdateInstances(S)
       \/ Disconnect

Spec == Init /\ [][Next]_vars

\* The loop runs, connecting ends, and a server that is there answers.
FairSpec ==
    /\ Spec
    /\ \A c \in Call : WF_vars(Alive /\ ClientStep(c))
    /\ \A ch \in Chan : WF_vars(Alive /\ Answer(ch))

-----------------------------------------------------------------------------
\* Properties.

Over(c) == pc[c] \in {"true", "false"}

\* An answer is the call's own, although no number in it is compared, as long as
\* only one call at a time has used the channel and none ended without answer.
InStep(ch) == ~chan[ch].shared /\ ~chan[ch].missed

\* A call that returns true has its own answer.
AnswerIsOwn ==
    \A c \in Call :
        io[c] = "ended" /\ ~failed[c] /\ InStep(on[c]) => own[c]

\* A call that returns true was executed once, however it was repeated: m_failed
\* is not reset, so one that is executed again fails, whatever is answered.
SuccessIsOnce ==
    \A c \in Call :
        io[c] = "ended" /\ ~failed[c] /\ InStep(on[c]) => executed[c] = 1

\* The pool keeps channels that never connected, whose stream is null; it is
\* dereferenced only by a call whose channel was closed by another.
NullOnlyWhenRobbed ==
    \A c \in Call : io[c] = "crashed" => robbed[c]

\* Every call ends, with as many timeouts, lost connections and repetitions as
\* there are - unless its stream is closed under it, or another call on the
\* channel takes its answer, or its place as the reader, while it waits.
EveryCallEnds ==
    \A c \in Call :
        pc[c] # "idle" ~>
            \/ Over(c) \/ ~Alive
            \/ io[c] = "reading" /\ (robbed[c] \/ chan[on[c]].shared)
=============================================================================
