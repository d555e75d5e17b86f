------------------------------ MODULE ZkClient ------------------------------
(***************************************************************************)
(* ZkClient (src/zkclient.cc), and the discovery of instances through it   *)
(* (ServiceDiscovery, RpcClient::connectWithDiscovery()).  The ZooKeeper   *)
(* library calls back on a thread of its own; a thread that has made a     *)
(* request blocks on the condition variable of its PendingOp.  The library *)
(* and the server are external: one session, whose requests are answered   *)
(* in order, and a watch that is told once.                                *)
(***************************************************************************)
EXTENDS Naturals, Sequences, FiniteSets

CONSTANTS
    Addr,       \* addresses of instances
    User,       \* threads that make requests of other kinds
    Discovery,  \* the loop's thread, in connectWithDiscovery()
    NoNode,     \* the service's node does not exist
    MaxEvents   \* bound on changes made by others, and on lost connections

Thread == User \cup {Discovery}

VARIABLES
    handle,     \* m_zkHandle is not null
    connected,  \* m_connected
    notified,   \* m_connNotified
    connResult, \* m_connResult
    closing,    \* close() has cleaned up, and closes its session
    pending,    \* m_pendingOps, each for the thread that made it
    op,         \* the PendingOp of each thread: none, live or freed
    ready,      \* its ready and result
    notifying,  \* the thread whose op has its result and is to be notified, if any
    gone,       \* that op has been deleted meanwhile
    pc,         \* where each thread is
    instances,  \* m_instances of the RPC client
    session,    \* the server's: none, live or dead
    children,   \* instances that are registered
    armed,      \* the server will tell of the next change
    requests,   \* on their way to the server
    wire,       \* on its way to the library's thread
    events,     \* history: changes and lost connections so far
    swept,      \* history: threads whose op was deleted under them
    hasty,      \* history: threads that deleted their op before it was notified
    misused     \* history: threads whose op was used after it was deleted

sessionVars == <<handle, connected, notified, connResult, closing>>
opVars == <<pending, op, ready, notifying, gone>>
serverVars == <<session, children, armed, requests, wire, events>>
history == <<swept, hasty, misused>>
vars == <<sessionVars, opVars, pc, instances, serverVars, history>>

None == [rc |-> "none", list |-> {}]

\* What the library's thread is given: events, and answers to requests.
Told(event) == [event |-> event, to |-> Discovery, kind |-> [op |-> "poll"], result |-> None]

Answer(to, kind, result) ==
    [event |-> "answer", to |-> to, kind |-> kind, result |-> result]

Init ==
    /\ handle = FALSE /\ connected = FALSE /\ notified = FALSE
    /\ connResult = "none"
    /\ closing = FALSE
    /\ pending = {}
    /\ notifying = {} /\ gone = FALSE
    /\ op = [t \in Thread |-> "none"]
    /\ ready = [t \in Thread |-> None]
    /\ pc = [t \in Thread |-> "idle"]
    /\ instances = {}
    /\ session = "none"
    /\ children \in {NoNode, {}}
    /\ armed = FALSE
    /\ requests = <<>>
    /\ wire = <<>>
    /\ events = 0
    /\ swept = {} /\ hasty = {} /\ misused = {}

\* What is requested fails with the connection.
Failed(rc) == [i \in DOMAIN requests |->
                 Answer(requests[i].from, requests[i].kind, [rc |-> rc, list |-> {}])]

-----------------------------------------------------------------------------
\* Connecting.

\* connect() of the discovery, and start() up to its polling.
Start ==
    /\ pc[Discovery] = "idle" /\ ~connected
    /\ handle' = TRUE
    /\ pc' = [pc EXCEPT ![Discovery] = "starting"]
    /\ UNCHANGED <<connected, notified, connResult, closing, opVars, instances,
                   serverVars, history>>

\* A start() that does not succeed closes its session, in which nothing is
\* pending, as it never was connected or has expired.
StartFails ==
    /\ pc' = [pc EXCEPT ![Discovery] = "failed"]
    /\ handle' = FALSE /\ connected' = FALSE
    /\ session' = "dead"
    /\ requests' = <<>> /\ wire' = <<>>
    /\ UNCHANGED <<children, armed, events>>

\* A poll of start() finds m_connNotified set, or five seconds have passed.
Started ==
    /\ pc[Discovery] = "starting"
    /\ notified' = FALSE
    /\ \/ /\ notified /\ connResult = "ok"
          /\ pc' = [pc EXCEPT ![Discovery] = "listing"]
          /\ UNCHANGED <<handle, connected, serverVars>>
       \/ /\ notified => connResult # "ok"
          /\ StartFails
    /\ UNCHANGED <<connResult, closing, opVars, instances, history>>

-----------------------------------------------------------------------------
\* Requests: create(), getData(), setData(), deleteNode() and getChildren()
\* are one protocol.

\* The op is made and listed, if the client is connected.
Ask(t) ==
    /\ pc[t] = IF t = Discovery THEN "listing" ELSE "idle"
    /\ connected
    /\ op' = [op EXCEPT ![t] = "live"]
    /\ ready' = [ready EXCEPT ![t] = None]
    /\ pending' = pending \cup {t}
    /\ pc' = [pc EXCEPT ![t] = "sending"]
    /\ UNCHANGED <<sessionVars, notifying, gone, instances, serverVars, history>>

\* Otherwise the request fails at once, and the list stays as it is.
NotConnected ==
    /\ pc[Discovery] = "listing" /\ ~connected
    /\ pc' = [pc EXCEPT ![Discovery] = "failed"]
    /\ UNCHANGED <<sessionVars, opVars, instances, serverVars, history>>

\* The library takes requests of a session that is not known to be over.
Usable == handle /\ session = "live"

Send(t, kind) ==
    /\ pc[t] = "sending" /\ Usable
    /\ requests' = Append(requests, [from |-> t, kind |-> kind])
    /\ pc' = [pc EXCEPT ![t] = "waiting"]
    /\ UNCHANGED <<sessionVars, opVars, instances, session, children, armed, wire,
                   history>>

\* Mutant: the op stays in the list.
ForgetUnlisted(t) ==
    /\ op' = [op EXCEPT ![t] = "freed"]
    /\ ready' = [ready EXCEPT ![t] = None]
    /\ gone' = (gone \/ t \in notifying)
    /\ UNCHANGED pending

\* The op leaves the list, and is deleted.
Forget(t) ==
    /\ op' = [op EXCEPT ![t] = "freed"]
    /\ pending' = pending \ {t}
    /\ ready' = [ready EXCEPT ![t] = None]
    /\ gone' = (gone \/ t \in notifying)

\* It does not take the request: the op is deleted, which may have been deleted
\* since it was listed.
Refused(t) ==
    /\ pc[t] = "sending" /\ ~Usable
    /\ Forget(t)
    /\ misused' = IF op[t] = "freed" THEN misused \cup {t} ELSE misused
    /\ pc' = [pc EXCEPT ![t] = IF op[t] = "freed" THEN "lost"
                               ELSE IF t = Discovery THEN "failed" ELSE "idle"]
    /\ UNCHANGED <<sessionVars, notifying, instances, serverVars, swept, hasty>>

\* op->cond.wait() returns, or does not wait, and the result is copied.
Woken(t) ==
    /\ pc[t] = "waiting"
    /\ op[t] = "live" /\ ready[t] # None
    /\ pc' = [pc EXCEPT ![t] = "copied"]
    /\ UNCHANGED <<sessionVars, opVars, instances, serverVars, history>>

\* A path that does not exist is asked for again, a list is taken over.
Done(t) ==
    /\ pc[t] = "copied"
    /\ op[t] = "live"
    /\ Forget(t)
    /\ hasty' = hasty \cup (notifying \cap {t})
    /\ IF t # Discovery
       THEN pc' = [pc EXCEPT ![t] = "idle"] /\ UNCHANGED instances
       ELSE /\ pc' = [pc EXCEPT ![t] =
                        IF ready[t].rc = "noNode" THEN "listing"
                        ELSE IF ready[t].rc = "ok" THEN "watching" ELSE "failed"]
            /\ instances' = IF ready[t].rc = "ok" THEN ready[t].list ELSE instances
    /\ UNCHANGED <<sessionVars, notifying, serverVars, swept, misused>>

\* A thread whose op is gone reads it, waits on it or deletes it again: nothing
\* is known of what it does then.
UseFreed(t) ==
    /\ pc[t] \in {"waiting", "copied"} /\ op[t] = "freed"
    /\ misused' = misused \cup {t}
    /\ pc' = [pc EXCEPT ![t] = "lost"]
    /\ UNCHANGED <<sessionVars, opVars, instances, serverVars, swept, hasty>>

-----------------------------------------------------------------------------
\* The library's thread.

\* cleanupPendingOps() deletes ops that their threads wait for, or are about to
\* delete themselves.
Sweep ==
    /\ op' = [t \in Thread |-> IF t \in pending THEN "freed" ELSE op[t]]
    /\ pending' = {}
    /\ gone' = (gone \/ notifying \cap pending # {})
    /\ swept' = swept \cup {t \in pending : op[t] = "live"}
    /\ misused' = misused \cup {t \in pending : op[t] = "freed"}
    /\ UNCHANGED hasty

\* globalWatcher() for events of the session.
SessionEvent(event) ==
    /\ event \in {"connected", "expired", "refused"}
    /\ connected' = (event = "connected")
    /\ connResult' = IF event = "connected" THEN "ok" ELSE event
    /\ notified' = TRUE
    /\ IF event = "expired" THEN Sweep ELSE UNCHANGED <<pending, op, gone, history>>
    /\ UNCHANGED <<handle, closing, ready, notifying, instances, requests>>

\* A request of the watcher itself, which sets the watch again.
Poll ==
    requests' = IF Usable
                THEN Append(requests, [from |-> Discovery, kind |-> [op |-> "poll"]])
                ELSE requests

\* processWatcher(), when setServiceWatcher() has set it.
ChildEvent(event) ==
    /\ event = "child"
    /\ Poll
    /\ UNCHANGED <<sessionVars, opVars, instances, history>>

\* Mutant: an answer that is an error wakes nobody.
CompletionIfOk(m) ==
    ready' = IF m.result.rc = "ok" THEN [ready EXCEPT ![m.to] = m.result] ELSE ready

\* A completion writes the result into the op.
Completion(m) == ready' = [ready EXCEPT ![m.to] = m.result]

\* That of an op which is gone writes into freed memory.
OpCompletion(m) ==
    /\ IF op[m.to] = "live"
       THEN Completion(m) /\ notifying' = {m.to} /\ UNCHANGED misused
       ELSE misused' = misused \cup {m.to} /\ UNCHANGED <<ready, notifying>>
    /\ UNCHANGED <<sessionVars, pending, op, gone, instances, requests, swept, hasty>>

\* op->cond.notify_one(), without the mutex of the op: its thread may have seen
\* the result already, and deleted it, or close() may have.
Notify ==
    /\ notifying # {}
    /\ notifying' = {} /\ gone' = FALSE
    /\ misused' = IF gone THEN misused \cup notifying ELSE misused
    /\ UNCHANGED <<sessionVars, pending, op, ready, pc, instances, serverVars, swept, hasty>>

\* Mutant: the watch is not set again.
WatchOnce(m) ==
    /\ instances' = IF m.result.rc = "ok" THEN m.result.list ELSE instances
    /\ UNCHANGED <<sessionVars, opVars, requests, history>>

\* watchChildrenCompletion() takes the list over, and asks for it again at once:
\* once there has been a child event this never ends.
WatchChildrenCompletion(m) ==
    /\ instances' = IF m.result.rc = "ok" THEN m.result.list ELSE instances
    /\ Poll
    /\ UNCHANGED <<sessionVars, opVars, history>>

Callback ==
    /\ wire # <<>> /\ notifying = {}
    /\ LET m == Head(wire)
       IN  \/ SessionEvent(m.event)
           \/ ChildEvent(m.event)
           \/ m.event = "answer" /\ m.kind.op = "poll" /\ WatchChildrenCompletion(m)
           \/ m.event = "answer" /\ m.kind.op # "poll" /\ OpCompletion(m)
    /\ wire' = Tail(wire)
    /\ UNCHANGED <<pc, session, children, armed, events>>

\* close(), by disconnect() on any thread: first the ops are cleaned up.
Close ==
    /\ handle /\ ~closing
    /\ closing' = TRUE
    /\ connResult' = IF notified THEN connResult ELSE "closing"
    /\ notified' = TRUE
    /\ Sweep
    /\ UNCHANGED <<handle, connected, ready, notifying, pc, instances, serverVars>>

\* zookeeper_close(): what has not been answered completes with an error, also
\* what was requested since then.
CloseSession ==
    /\ closing /\ session # "dead"
    /\ session' = "dead"
    /\ requests' = <<>>
    /\ wire' = wire \o Failed("closing")
    /\ UNCHANGED <<sessionVars, opVars, pc, instances, children, armed, events, history>>

\* close() returns after that.
Closed ==
    /\ closing /\ session = "dead"
    /\ wire = <<>> /\ notifying = {}
    /\ closing' = FALSE /\ handle' = FALSE /\ connected' = FALSE
    /\ UNCHANGED <<notified, connResult, opVars, pc, instances, serverVars, history>>

-----------------------------------------------------------------------------
\* The library and the server.

\* The session is established, or the library is told that it will not be.
Establish ==
    /\ handle /\ session = "none"
    /\ \/ session' = "live" /\ wire' = <<Told("connected")>>
       \/ session' = "dead" /\ wire' = <<Told("refused")>>
    /\ UNCHANGED <<sessionVars, opVars, pc, instances, children, armed, requests,
                   events, history>>

\* A watch is told when the list becomes another, and is gone.
Notice(list) ==
    IF armed /\ list # children THEN <<Told("child")>> ELSE <<>>

\* What a request makes of the list, and its answer; the path to a node is
\* created with it, and data stands for requests that change no list.
Listed == IF children = NoNode THEN {} ELSE children

After(kind) ==
    CASE kind.op = "create" -> Listed \cup {kind.addr}
      [] kind.op = "delete" /\ kind.addr \in Listed -> children \ {kind.addr}
      [] OTHER -> children

Result(kind) ==
    [rc |-> CASE kind.op = "create" /\ kind.addr \in Listed -> "exists"
              [] kind.op = "delete" /\ kind.addr \notin Listed -> "noNode"
              [] kind.op \in {"children", "poll", "data"} /\ children = NoNode -> "noNode"
              [] OTHER -> "ok",
     list |-> IF kind.op \in {"children", "poll"} THEN Listed ELSE {}]

\* The oldest request is answered, after what it has changed is told.
Serve ==
    /\ session = "live" /\ requests # <<>>
    /\ LET r == Head(requests)
           watch == r.kind.op \in {"children", "poll"} /\ children # NoNode
       IN  /\ children' = After(r.kind)
           /\ armed' = (watch \/ (armed /\ After(r.kind) = children))
           /\ wire' = wire \o Notice(After(r.kind))
                          \o <<Answer(r.from, r.kind, Result(r.kind))>>
    /\ requests' = Tail(requests)
    /\ UNCHANGED <<sessionVars, opVars, pc, instances, session, events, history>>

Event == events < MaxEvents /\ events' = events + 1

\* Instances come and go, on other sessions.
Change ==
    /\ Event
    /\ \E list \in SUBSET Addr :
          /\ children' = list
          /\ armed' = (armed /\ list = children)
          /\ wire' = wire \o Notice(list)
    /\ UNCHANGED <<sessionVars, opVars, pc, instances, session, requests, history>>

\* All requests fail when the connection is lost, for a while or with the session.
Lose ==
    /\ Event
    /\ session = "live" /\ connected
    /\ \E event \in {"connected", "expired"} :
          /\ session' = IF event = "connected" THEN "live" ELSE "dead"
          /\ wire' = wire \o <<Told(event)>> \o Failed("lost")
          /\ armed' = (armed /\ event = "connected")
    /\ requests' = <<>>
    /\ UNCHANGED <<sessionVars, opVars, pc, instances, children, history>>

-----------------------------------------------------------------------------
\* Requests of the users, which may change the list, and of the discovery.
Data(t) == t \in User /\ Send(t, [op |-> "data"]) /\ UNCHANGED events

Create(t) ==
    /\ t \in User /\ Event
    /\ \E a \in Addr : Send(t, [op |-> "create", addr |-> a])

Delete(t) ==
    /\ t \in User /\ Event
    /\ \E a \in Addr : Send(t, [op |-> "delete", addr |-> a])

GetChildren == Send(Discovery, [op |-> "children"]) /\ UNCHANGED events

ThreadStep(t) == Data(t) \/ Refused(t) \/ Woken(t) \/ Done(t) \/ UseFreed(t)

DiscoveryStep == Start \/ Started \/ Ask(Discovery) \/ GetChildren \/ NotConnected

\* No op has been used after its deletion, after which nothing is known.
Defined == misused = {}

Next ==
    /\ Defined
    /\ \/ \E t \in Thread : ThreadStep(t)
       \/ \E t \in User : Ask(t) \/ Create(t) \/ Delete(t)
       \/ DiscoveryStep
       \/ Callback \/ Notify
       \/ Close \/ CloseSession \/ Closed
       \/ Establish \/ Serve \/ Change \/ Lose

Spec == Init /\ [][Next]_vars

\* The threads run, that of the library included, and the server answers; nobody
\* need make requests, and who waits may have to be notified.
FairSpec ==
    /\ Spec
    /\ \A t \in Thread : WF_vars(Defined /\ t \notin notifying /\ ThreadStep(t))
    /\ WF_vars(Defined /\ DiscoveryStep)
    /\ WF_vars(Defined /\ Callback)
    /\ WF_vars(Defined /\ Notify)
    /\ WF_vars(Defined /\ Serve)

-----------------------------------------------------------------------------
\* Properties.

\* An op is used after its deletion, or deleted twice, only when the session
\* expired or was closed between its request and its removal from the list, or
\* when its thread was faster than the notification of its own result.
OpsUsedAlive == misused \subseteq swept \cup hasty

\* A thread that waits for an answer is woken, whatever the answer is, and so
\* the loop is not blocked for good - unless its op is deleted.
WaitersWake ==
    \A t \in Thread : pc[t] = "waiting" ~> pc[t] # "waiting" \/ ~Defined

\* When the instances change no more, the client's list becomes theirs and
\* stays so, although the loop and the library's thread both write it and the
\* older list may be written last - as long as the session lives.
ListBecomesCurrent ==
    <>[](Defined /\ pc[Discovery] = "watching" /\ Usable => instances = children)
=============================================================================
