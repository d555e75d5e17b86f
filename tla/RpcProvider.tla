----------------------------- MODULE RpcProvider -----------------------------
(***************************************************************************)
(* RpcProvider (src/rpc_provider.cc) under RpcServer (rpc_server_impl.cc): *)
(* start() accepts connections and sends them into a channel, workers      *)
(* receive them, and each serves one client until it leaves.  All are      *)
(* coroutines of one loop, on which stop() is called too; a step here is   *)
(* what one of them does between two suspensions.                          *)
(***************************************************************************)
EXTENDS Naturals, Sequences, FiniteSets

CONSTANTS
    Conn,       \* connections of clients
    NoConn,     \* no connection
    Worker,     \* worker coroutines
    Request,    \* [service, method, parses]; service NoService: no dot in it
    NoService,
    Methods,    \* the methods of each service that can be registered
    QueueSize,  \* capacity of the channel
    MaxRequests \* bound on the requests of all clients

ASSUME SizesAssumption == QueueSize \in Nat /\ MaxRequests \in Nat
ASSUME ConnAssumption == NoConn \notin Conn

VARIABLES
    running,    \* RpcServer::m_running
    services,   \* m_services of the dispatcher
    stopped,    \* m_stop
    acc,        \* start(): where it is, its connection, and whether the timer of
                \* its wait_for() came before that
    channel,    \* m_client_channel: none, open, closed, or freed
    queue,      \* its buffer
    readers,    \* its waiting readers
    worker,     \* where each worker is
    held,       \* the connection it has been given
    msgs,       \* the requests it has decoded and not answered
    backlog,    \* connections the listening socket has not handed out
    conn,       \* new, open, or closed by the server
    left,       \* closed by the client
    input,      \* requests on their way
    sent,       \* history: requests of the client
    answers     \* error codes of the answers

serverVars == <<running, services>>
channelVars == <<channel, queue, readers>>
workerVars == <<worker, held, msgs>>
clientVars == <<left, input, sent>>
vars == <<serverVars, stopped, acc, channelVars, workerVars, backlog, conn,
          clientVars, answers>>

At(place) == [at |-> place, conn |-> NoConn, late |-> FALSE]

Init ==
    /\ running = FALSE
    /\ services = {}
    /\ stopped = TRUE
    /\ acc = At("new")
    /\ channel = "none" /\ queue = <<>> /\ readers = <<>>
    /\ worker = [w \in Worker |-> "none"]
    /\ held = [w \in Worker |-> NoConn]
    /\ msgs = [w \in Worker |-> <<>>]
    /\ backlog = <<>>
    /\ conn = [c \in Conn |-> "new"]
    /\ left = [c \in Conn |-> FALSE]
    /\ input = [c \in Conn |-> <<>>]
    /\ sent = [c \in Conn |-> <<>>]
    /\ answers = [c \in Conn |-> <<>>]

Closed(cs) == [c \in Conn |-> IF c \in cs THEN "closed" ELSE conn[c]]

Elements(s) == {s[i] : i \in DOMAIN s}

-----------------------------------------------------------------------------
\* Starting.

\* RpcServer::start(), bounded to once: a provider that has ever been started
\* would return at once, and leave only m_running changed.
ServerStart ==
    /\ ~running /\ acc.at = "new"
    /\ running' = TRUE
    /\ services' = DOMAIN Methods
    /\ acc' = At("scheduled")
    /\ UNCHANGED <<stopped, channelVars, workerVars, backlog, conn, clientVars,
                   answers>>

\* start() up to the connection to ZooKeeper, forgetting an earlier stop().
Begin ==
    /\ acc.at = "scheduled"
    /\ acc' = At("zookeeper")
    /\ stopped' = FALSE
    /\ channel' = "open"
    /\ UNCHANGED <<serverVars, queue, readers, workerVars, backlog, conn,
                   clientVars, answers>>

\* The loop of start(): its end closes a channel that stop() may have taken.
NextAccept ==
    acc' = IF ~stopped THEN At("accepting") ELSE At("crashed")

\* ZooKeeper has answered, and the services are registered with it or they are
\* not: the workers start either way.
StartWorkers ==
    /\ acc.at = "zookeeper"
    /\ worker' = [w \in Worker |-> "looping"]
    /\ NextAccept
    /\ UNCHANGED <<serverVars, stopped, channelVars, held, msgs, backlog, conn,
                   clientVars, answers>>

-----------------------------------------------------------------------------
\* Accepting: accept(timeout) of TcpService.

Listening == channel = "open" \/ channel = "closed"

\* The listening descriptor is readable.
AcceptReady ==
    /\ acc.at = "accepting"
    /\ Listening /\ backlog # <<>>
    /\ acc' = [acc EXCEPT !.at = "resumed"]
    /\ UNCHANGED <<serverVars, stopped, channelVars, workerVars, backlog, conn,
                   clientVars, answers>>

\* accept4() returns the connection, unless the service is gone.
Accept ==
    /\ acc.at = "resumed"
    /\ Listening
    /\ acc' = [acc EXCEPT !.at = "accepted", !.conn = Head(backlog)]
    /\ backlog' = Tail(backlog)
    /\ UNCHANGED <<serverVars, stopped, channelVars, workerVars, conn,
                   clientVars, answers>>

\* The timer sets its flag, and the wait goes on.
Expire ==
    /\ acc.at \in {"accepting", "resumed", "accepted"}
    /\ ~acc.late
    /\ acc' = [acc EXCEPT !.late = TRUE]
    /\ UNCHANGED <<serverVars, stopped, channelVars, workerVars, backlog, conn,
                   clientVars, answers>>

\* After the timer, a timeout is thrown, and the connection that came is lost.
AcceptLate ==
    /\ acc.at = "accepted" /\ acc.late
    /\ conn' = Closed({acc.conn})
    /\ NextAccept
    /\ UNCHANGED <<serverVars, stopped, channelVars, workerVars, backlog,
                   clientVars, answers>>

Accepted ==
    /\ acc.at = "accepted" /\ ~acc.late /\ ~stopped
    /\ acc' = [acc EXCEPT !.at = "sending"]
    /\ UNCHANGED <<serverVars, stopped, channelVars, workerVars, backlog, conn,
                   clientVars, answers>>

\* Mutant: the readers are forgotten, and not cancelled.
CloseChannelQuietly(after) ==
    /\ channel' = after
    /\ queue' = <<>>
    /\ readers' = <<>>
    /\ UNCHANGED worker

\* cleanup() of the channel: readers are cancelled, and go back to their loops.
CloseChannel(after) ==
    /\ channel' = after
    /\ queue' = <<>>
    /\ readers' = <<>>
    /\ worker' = [w \in Worker |-> IF w \in Elements(readers) THEN "looping"
                                   ELSE worker[w]]

\* accept4() fails, which ends accepting for good.
AcceptFails ==
    /\ acc.at = "resumed"
    /\ Listening
    /\ acc' = At("ended")
    /\ CloseChannel("closed")
    /\ conn' = Closed(Elements(queue))
    /\ UNCHANGED <<serverVars, stopped, held, msgs, backlog, clientVars, answers>>

\* Whatever start() resumes from, after stop() it gets to the close() of a
\* channel that is no more - unless the channel wakes it with an exception.
AfterStop ==
    /\ stopped
    /\ acc.at \in {"resumed", "accepted", "sending"}
    /\ acc' = [acc EXCEPT !.at = "crashed"]
    /\ UNCHANGED <<serverVars, stopped, channelVars, workerVars, backlog, conn,
                   clientVars, answers>>

-----------------------------------------------------------------------------
\* The channel.

\* send() to the reader that waits longest, into the buffer, or not yet.
Send ==
    /\ acc.at = "sending"
    /\ channel = "open"
    /\ IF readers # <<>>
       THEN /\ worker' = [worker EXCEPT ![Head(readers)] = "handed"]
            /\ held' = [held EXCEPT ![Head(readers)] = acc.conn]
            /\ readers' = Tail(readers)
            /\ acc' = At("accepting")
            /\ UNCHANGED queue
       ELSE /\ IF Len(queue) < QueueSize
               THEN /\ queue' = Append(queue, acc.conn)
                    /\ acc' = At("accepting")
               ELSE /\ acc' = [acc EXCEPT !.at = "parked"]
                    /\ UNCHANGED queue
            /\ UNCHANGED <<readers, worker, held>>
    /\ UNCHANGED <<serverVars, stopped, channel, msgs, backlog, conn, clientVars,
                   answers>>

\* Mutant: the writer keeps what it has written.
TakeParkedCopy(w) ==
    /\ acc.at = "parked"
    /\ held' = [held EXCEPT ![w] = acc.conn]
    /\ acc' = [acc EXCEPT !.at = "sending"]
    /\ UNCHANGED <<queue, readers>>

\* What recv() takes first is the value of a waiting writer,
TakeParked(w) ==
    /\ acc.at = "parked"
    /\ held' = [held EXCEPT ![w] = acc.conn]
    /\ acc' = At("accepting")
    /\ UNCHANGED <<queue, readers>>

\* then that of the buffer.
TakeQueued(w) ==
    /\ acc.at # "parked"
    /\ queue # <<>>
    /\ held' = [held EXCEPT ![w] = Head(queue)]
    /\ queue' = Tail(queue)
    /\ UNCHANGED <<acc, readers>>

\* recv().  On a channel that was freed after the call and before this step it
\* reads freed memory: closed, as a rule, or it waits there for ever.
Receive(w) ==
    /\ worker[w] = "asking"
    /\ \/ /\ channel = "open"
          /\ TakeParked(w) \/ TakeQueued(w)
          /\ worker' = [worker EXCEPT ![w] = "serving"]
       \/ /\ channel = "open"
          /\ acc.at # "parked" /\ queue = <<>>
          /\ readers' = Append(readers, w)
          /\ worker' = [worker EXCEPT ![w] = "waiting"]
          /\ UNCHANGED <<acc, held, queue>>
       \/ /\ channel # "open"
          /\ \/ worker' = [worker EXCEPT ![w] = "ended"]
             \/ channel = "freed" /\ worker' = [worker EXCEPT ![w] = "lost"]
          /\ UNCHANGED <<acc, held, queue, readers>>
    /\ UNCHANGED <<serverVars, stopped, channel, msgs, backlog, conn, clientVars,
                   answers>>

\* A reader that was handed a connection, and the channel is open or not.
Handed(w) ==
    /\ worker[w] = "handed"
    /\ IF channel = "open"
       THEN /\ worker' = [worker EXCEPT ![w] = "serving"]
            /\ UNCHANGED <<held, conn>>
       ELSE /\ worker' = [worker EXCEPT ![w] = "ended"]
            /\ conn' = Closed({held[w]})
            /\ held' = [held EXCEPT ![w] = NoConn]
    /\ UNCHANGED <<serverVars, stopped, acc, channelVars, msgs, backlog,
                   clientVars, answers>>

\* The loop of a worker.
Loop(w) ==
    /\ worker[w] = "looping"
    /\ worker' = [worker EXCEPT ![w] = IF stopped THEN "ended" ELSE "asking"]
    /\ UNCHANGED <<serverVars, stopped, acc, channelVars, held, msgs, backlog,
                   conn, clientVars, answers>>

-----------------------------------------------------------------------------
\* Serving: handleClient().

\* Its end, after which the worker goes on with its loop.
Finish(w) ==
    /\ conn' = Closed({held[w]})
    /\ held' = [held EXCEPT ![w] = NoConn]
    /\ msgs' = [msgs EXCEPT ![w] = <<>>]
    /\ worker' = [worker EXCEPT ![w] = "looping"]
    /\ UNCHANGED <<serverVars, stopped, acc, channelVars, backlog, clientVars>>

\* m_stop is looked at before a read, which may then take for ever.
StopServing(w) ==
    /\ worker[w] = "serving" /\ msgs[w] = <<>>
    /\ stopped
    /\ Finish(w)
    /\ UNCHANGED answers

StartReading(w) ==
    /\ worker[w] = "serving" /\ msgs[w] = <<>>
    /\ ~stopped
    /\ worker' = [worker EXCEPT ![w] = "reading"]
    /\ UNCHANGED <<serverVars, stopped, acc, channelVars, held, msgs, backlog,
                   conn, clientVars, answers>>

\* The end of the stream.
ClientHasLeft(w) ==
    /\ worker[w] = "reading"
    /\ input[held[w]] = <<>> /\ left[held[w]]
    /\ Finish(w)
    /\ UNCHANGED answers

\* The error codes of dispatch() that a request could have; the least is it.
\* That of a result that does not serialize is not modelled.
Faults(r) ==
    {code \in 1 .. 4 :
        \/ code = 1 /\ r.service = NoService
        \/ code = 2 /\ r.service \notin services
        \/ code = 3 /\ r.service \in services /\ r.method \notin Methods[r.service]
        \/ code = 4 /\ ~r.parses}

Dispatch(r) ==
    IF Faults(r) = {} THEN 0
    ELSE CHOOSE code \in Faults(r) : \A other \in Faults(r) : code <= other

\* Mutant: what was decoded is answered from the back.
AnswerLastFirst(w, rs) ==
    LET n == Len(rs)
    IN  /\ answers' = [answers EXCEPT ![held[w]] = Append(@, Dispatch(rs[n]))]
        /\ msgs' = [msgs EXCEPT ![w] = SubSeq(rs, 1, n - 1)]

\* Mutant: only the first of the requests that were decoded is served.
AnswerFirst(w, rs) ==
    /\ answers' = [answers EXCEPT ![held[w]] = Append(@, Dispatch(Head(rs)))]
    /\ msgs' = [msgs EXCEPT ![w] = <<>>]

\* dispatch() and write() for the first of some requests.
Answer(w, rs) ==
    /\ answers' = [answers EXCEPT ![held[w]] = Append(@, Dispatch(Head(rs)))]
    /\ msgs' = [msgs EXCEPT ![w] = Tail(rs)]

\* All requests that have come are decoded.
ReadRequests(w) ==
    /\ worker[w] = "reading"
    /\ input[held[w]] # <<>>
    /\ Answer(w, input[held[w]])
    /\ input' = [input EXCEPT ![held[w]] = <<>>]
    /\ worker' = [worker EXCEPT ![w] = "serving"]
    /\ UNCHANGED <<serverVars, stopped, acc, channelVars, held, backlog, conn,
                   left, sent>>

ServeNext(w) ==
    /\ worker[w] = "serving" /\ msgs[w] # <<>>
    /\ Answer(w, msgs[w])
    /\ UNCHANGED <<serverVars, stopped, acc, channelVars, worker, held, backlog,
                   conn, clientVars>>

\* A method throws, or write() to a client that has left: the others of its
\* requests are not answered.
ServeFails(w) ==
    /\ \/ worker[w] = "reading" /\ input[held[w]] # <<>>
       \/ worker[w] = "serving" /\ msgs[w] # <<>>
    /\ Finish(w)
    /\ UNCHANGED answers

-----------------------------------------------------------------------------
\* stop() of RpcServer and of the provider: the connections in the backlog and
\* in the buffer are closed, a writer that waits throws out of start().
Stop ==
    /\ running
    /\ running' = FALSE
    /\ stopped' = TRUE
    /\ backlog' = <<>>
    /\ IF channel \in {"none", "freed"}
       THEN UNCHANGED channelVars /\ UNCHANGED worker
       ELSE CloseChannel("freed")
    /\ acc' = IF acc.at = "parked" THEN At("threw") ELSE acc
    /\ conn' = Closed(Elements(backlog) \cup Elements(queue)
                      \cup IF acc.at = "parked" THEN {acc.conn} ELSE {})
    /\ UNCHANGED <<services, held, msgs, clientVars, answers>>

-----------------------------------------------------------------------------
\* Clients.

Connect(c) ==
    /\ conn[c] = "new"
    /\ Listening
    /\ conn' = [conn EXCEPT ![c] = "open"]
    /\ backlog' = Append(backlog, c)
    /\ UNCHANGED <<serverVars, stopped, acc, channelVars, workerVars, clientVars,
                   answers>>

SendRequest(c, r) ==
    /\ conn[c] = "open" /\ ~left[c]
    /\ Cardinality({p \in Conn \X (1 .. MaxRequests) : p[2] \in DOMAIN sent[p[1]]})
          < MaxRequests
    /\ sent' = [sent EXCEPT ![c] = Append(@, r)]
    /\ input' = [input EXCEPT ![c] = Append(@, r)]
    /\ UNCHANGED <<serverVars, stopped, acc, channelVars, workerVars, backlog,
                   conn, left, answers>>

Leave(c) ==
    /\ conn[c] = "open" /\ ~left[c]
    /\ left' = [left EXCEPT ![c] = TRUE]
    /\ UNCHANGED <<serverVars, stopped, acc, channelVars, workerVars, backlog,
                   conn, input, sent, answers>>

-----------------------------------------------------------------------------
Alive == acc.at # "crashed"

StartStep ==
    \/ Begin
    \/ StartWorkers
    \/ AcceptReady \/ Accept \/ AcceptLate \/ Accepted \/ AfterStop \/ Send

WorkerStep(w) ==
    \/ Receive(w) \/ Handed(w) \/ Loop(w)
    \/ StopServing(w) \/ StartReading(w) \/ ReadRequests(w) \/ ClientHasLeft(w)
    \/ ServeNext(w)

LoopStep == StartStep \/ \E w \in Worker : WorkerStep(w)

Next ==
    /\ Alive
    /\ \/ ServerStart \/ Stop
       \/ LoopStep \/ Expire \/ AcceptFails
       \/ \E w \in Worker : ServeFails(w)
       \/ \E c \in Conn : Connect(c) \/ Leave(c) \/ \E r \in Request : SendRequest(c, r)

Spec == Init /\ [][Next]_vars

\* The loop runs as long as something is ready, and a client that has all its
\* answers leaves in the end; one that waits for an answer need not.
FairSpec ==
    /\ Spec
    /\ WF_vars(Alive /\ LoopStep)
    /\ WF_vars(Alive /\ \E c \in Conn : Len(answers[c]) = Len(sent[c]) /\ Leave(c))

-----------------------------------------------------------------------------
\* Properties.

\* Who has a connection, of the backlog, start(), the channel and the workers.
Owners(c) ==
    {<<"backlog", i>> : i \in {j \in DOMAIN backlog : backlog[j] = c}}
    \cup {<<"queue", i>> : i \in {j \in DOMAIN queue : queue[j] = c}}
    \cup {<<"worker", w>> : w \in {v \in Worker : held[v] = c}}
    \cup IF acc.conn = c THEN {<<"start", 0>>} ELSE {}

\* An open connection has one owner and a closed one has none, through all
\* that can close it: no two workers serve a client, and none is forgotten.
OneOwner ==
    \A c \in Conn :
        Cardinality(Owners(c)) = IF conn[c] = "open" THEN 1 ELSE 0

\* Clients get the answers to their requests in order, one each, also to those
\* that fail in dispatch().
AnswersInOrder ==
    \A c \in Conn :
        /\ Len(answers[c]) <= Len(sent[c])
        /\ \A i \in DOMAIN answers[c] : answers[c][i] = Dispatch(sent[c][i])

Waits(c) ==
    conn[c] = "open" /\ (Len(answers[c]) < Len(sent[c]) \/ \A w \in Worker : held[w] # c)

\* A client is served, or its connection is closed, when others leave - unless
\* a failed accept4() has ended start(), whose clients stay in the backlog.
EveryClientServed ==
    \A c \in Conn : Waits(c) ~> (~Waits(c) \/ acc.at = "ended" \/ ~Alive)

\* After stop() the workers end when their clients leave.  A worker about to
\* receive finds a channel that is freed, and may be lost in it; a stop()
\* before start() has run is forgotten.
WorkersEnd ==
    stopped ~> \/ \A w \in Worker : worker[w] \in {"none", "ended", "lost"}
               \/ ~stopped
               \/ ~Alive
=============================================================================
