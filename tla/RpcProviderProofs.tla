-------------------------- MODULE RpcProviderProofs --------------------------
(***************************************************************************)
(* Proofs about RpcProvider, for any connections, workers, requests,       *)
(* services and size of the channel: a connection has one owner until it   *)
(* is closed, and a client gets its answers in order.                      *)
(***************************************************************************)
EXTENDS RpcProvider, TLAPS, FiniteSetTheorems

-----------------------------------------------------------------------------
\* The invariant.

AccPlaces ==
    {"new", "scheduled", "zookeeper", "accepting", "resumed", "accepted",
     "sending", "parked", "ended", "threw", "crashed"}

WorkerPlaces ==
    {"none", "looping", "asking", "waiting", "handed", "serving", "reading",
     "ended", "lost"}

Types ==
    /\ acc \in [at : AccPlaces, conn : Conn \cup {NoConn}, late : BOOLEAN]
    /\ channel \in {"none", "open", "closed", "freed"}
    /\ queue \in Seq(Conn) /\ readers \in Seq(Worker) /\ backlog \in Seq(Conn)
    /\ worker \in [Worker -> WorkerPlaces]
    /\ held \in [Worker -> Conn \cup {NoConn}]
    /\ msgs \in [Worker -> Seq(Request)]
    /\ conn \in [Conn -> {"new", "open", "closed"}]
    /\ input \in [Conn -> Seq(Request)]
    /\ sent \in [Conn -> Seq(Request)]
    /\ answers \in [Conn -> Seq(0 .. 4)]

Distinct(s) == \A i, j \in 1 .. Len(s) : s[i] = s[j] => i = j

\* start() has a connection between its accept() and its send(), and what made
\* the descriptor readable is still there unless the service is gone.
Starts ==
    /\ acc.at \in {"accepted", "sending", "parked"} => acc.conn # NoConn
    /\ acc.at \notin {"accepted", "sending", "parked", "crashed"}
          => acc.conn = NoConn
    /\ acc.at \in {"new", "scheduled", "zookeeper"}
          => \A w \in Worker : worker[w] = "none"
    /\ acc.at = "resumed" /\ Listening => backlog # <<>>
    /\ channel # "open" => queue = <<>>

\* A worker has a connection from the hand-over to the end of handleClient(),
\* and requests only there; the readers are workers that wait.
Works ==
    /\ \A w \in Worker :
          /\ held[w] # NoConn <=> worker[w] \in {"handed", "serving", "reading"}
          /\ msgs[w] # <<>> => worker[w] = "serving"
    /\ Distinct(readers)
    /\ \A w \in Elements(readers) : worker[w] = "waiting"

\* Nobody has the connection of another, and who has one has an open one.
Owned ==
    /\ Distinct(backlog) /\ Distinct(queue)
    /\ \A v, w \in Worker : held[v] = held[w] /\ held[v] # NoConn => v = w
    /\ Elements(backlog) \cap Elements(queue) = {}
    /\ acc.conn \notin Elements(backlog) \cup Elements(queue)
    /\ \A w \in Worker :
          /\ held[w] \notin Elements(backlog) \cup Elements(queue)
          /\ held[w] # NoConn => held[w] # acc.conn
    /\ \A c \in Conn :
          conn[c] = "open" <=> \/ c \in Elements(backlog) \cup Elements(queue)
                               \/ acc.conn = c
                               \/ \E w \in Worker : held[w] = c

\* Of the requests s of a client, a are answered, m decoded, and i on their way.
Behind(a, i, s) ==
    /\ Len(a) + Len(i) <= Len(s)
    /\ \A k \in 1 .. Len(i) : i[k] = s[Len(s) - Len(i) + k]

Between(a, m, i, s) ==
    /\ Len(a) + Len(m) + Len(i) = Len(s)
    /\ \A k \in 1 .. Len(m) : m[k] = s[Len(a) + k]

\* No request is lost unless its connection is closed, and none overtakes.
Asked ==
    /\ \A c \in Conn :
          /\ Behind(answers[c], input[c], sent[c])
          /\ conn[c] # "closed" /\ (\A w \in Worker : held[w] # c)
                => Between(answers[c], <<>>, input[c], sent[c])
    /\ \A w \in Worker : \A c \in Conn :
          held[w] = c => Between(answers[c], msgs[w], input[c], sent[c])

\* The services do not change once there are answers.
Told ==
    /\ acc.at = "new" => \A c \in Conn : answers[c] = <<>>
    /\ \A c \in Conn : \A i \in 1 .. Len(answers[c]) :
          answers[c][i] = Dispatch(sent[c][i])

Inv == Types /\ Starts /\ Works /\ Owned /\ Asked /\ Told

-----------------------------------------------------------------------------
\* Lists.

LEMMA HeadAndTail ==
    ASSUME NEW S, NEW s \in Seq(S), s # <<>>
    PROVE  /\ Len(s) \in Nat \ {0}
           /\ Head(s) \in S /\ Head(s) = s[1] /\ Head(s) \in Elements(s)
           /\ Tail(s) \in Seq(S) /\ Len(Tail(s)) = Len(s) - 1
           /\ \A i \in 1 .. Len(s) - 1 : Tail(s)[i] = s[i + 1]
           /\ Elements(Tail(s)) \subseteq Elements(s)
<1>1. /\ Len(s) \in Nat \ {0}
      /\ Head(s) \in S /\ Head(s) = s[1]
      /\ Tail(s) \in Seq(S) /\ Len(Tail(s)) = Len(s) - 1
      /\ \A i \in 1 .. Len(s) - 1 : Tail(s)[i] = s[i + 1]
  OBVIOUS
<1> QED
  BY <1>1 DEF Elements

LEMMA TailElements ==
    ASSUME NEW S, NEW s \in Seq(S), s # <<>>, Distinct(s)
    PROVE  /\ Distinct(Tail(s))
           /\ Elements(Tail(s)) = Elements(s) \ {Head(s)}
<1>1. /\ Len(s) \in Nat \ {0} /\ Len(Tail(s)) = Len(s) - 1 /\ Head(s) = s[1]
      /\ Tail(s) \in Seq(S)
      /\ \A i \in 1 .. Len(s) - 1 : Tail(s)[i] = s[i + 1]
  BY HeadAndTail
<1>2. Distinct(Tail(s))
  BY <1>1 DEF Distinct
<1>3. Elements(Tail(s)) \subseteq Elements(s) \ {Head(s)}
  BY <1>1 DEF Elements, Distinct
<1>4. ASSUME NEW e \in Elements(s) \ {Head(s)} PROVE e \in Elements(Tail(s))
  <2>1. PICK i \in 1 .. Len(s) : e = s[i]
    BY DEF Elements
  <2>2. i - 1 \in DOMAIN Tail(s) /\ Tail(s)[i - 1] = e
    BY <1>1, <1>4, <2>1
  <2> QED
    BY <2>2 DEF Elements
<1> QED
  BY <1>2, <1>3, <1>4

LEMMA AppendElements ==
    ASSUME NEW S, NEW s \in Seq(S), NEW e \in S
    PROVE  /\ Append(s, e) \in Seq(S) /\ Len(Append(s, e)) = Len(s) + 1
           /\ \A i \in 1 .. Len(s) : Append(s, e)[i] = s[i]
           /\ Append(s, e)[Len(s) + 1] = e
           /\ Elements(Append(s, e)) = Elements(s) \cup {e}
           /\ Distinct(s) /\ e \notin Elements(s) => Distinct(Append(s, e))
<1>1. /\ Append(s, e) \in Seq(S) /\ Len(Append(s, e)) = Len(s) + 1
      /\ Len(s) \in Nat
      /\ \A i \in 1 .. Len(s) : Append(s, e)[i] = s[i]
      /\ Append(s, e)[Len(s) + 1] = e
  OBVIOUS
<1>2. Elements(Append(s, e)) = Elements(s) \cup {e}
  BY <1>1 DEF Elements
<1>3. Distinct(s) /\ e \notin Elements(s) => Distinct(Append(s, e))
  BY <1>1 DEF Elements, Distinct
<1> QED
  BY <1>1, <1>2, <1>3

LEMMA NoElements ==
    /\ Elements(<<>>) = {} /\ Distinct(<<>>)
    /\ \A S : <<>> \in Seq(S)
  BY DEF Elements, Distinct

LEMMA ElementsType ==
    ASSUME NEW S, NEW s \in Seq(S)
    PROVE  Elements(s) \subseteq S
  BY DEF Elements

-----------------------------------------------------------------------------
\* dispatch().

\* The least of some codes, 0 if there is none.
LeastOf(codes) ==
    IF codes = {} THEN 0
    ELSE CHOOSE code \in codes : \A other \in codes : code <= other

LEMMA DispatchIsCode ==
    ASSUME NEW r
    PROVE  Dispatch(r) \in 0 .. 4
<1>1. Faults(r) \subseteq 1 .. 4
  BY DEF Faults
<1>2. CASE Faults(r) = {}
  BY <1>2 DEF Dispatch
<1>3. CASE Faults(r) # {}
  <2>1. \E code \in Faults(r) : \A other \in Faults(r) : code <= other
    <3>1. PICK code \in Faults(r) : TRUE
      BY <1>3
    <3>2. code \in {1, 2, 3, 4}
      BY <1>1
    <3>3. \/ 1 \in Faults(r)
          \/ 1 \notin Faults(r) /\ 2 \in Faults(r)
          \/ 1 \notin Faults(r) /\ 2 \notin Faults(r) /\ 3 \in Faults(r)
          \/ Faults(r) = {4}
      BY <1>1, <3>2
    <3> QED
      BY <1>1, <3>3
  <2> QED
    BY <1>1, <1>3, <2>1 DEF Dispatch
<1> QED
  BY <1>2, <1>3

\* A request is answered the same as long as the services are.
LEMMA DispatchStays ==
    ASSUME services' = services, NEW r
    PROVE  Dispatch(r)' = Dispatch(r)
<1>1. Faults(r)' = Faults(r)
  BY DEF Faults
<1>2. Dispatch(r) = LeastOf(Faults(r))
  BY DEF Dispatch, LeastOf
<1>3. Dispatch(r)' = LeastOf(Faults(r)')
  BY DEF Dispatch, LeastOf
<1> QED
  BY <1>1, <1>2, <1>3

-----------------------------------------------------------------------------
\* The kinds of the variables.

LEMMA InitInv == Init => Inv
<1> SUFFICES ASSUME Init PROVE Inv
  OBVIOUS
<1>1. Types
  BY DEF Init, Types, At, AccPlaces, WorkerPlaces
<1>2. Starts
  BY DEF Init, Starts, At, Listening
<1>3. Works
  BY NoElements DEF Init, Works, At
<1>4. Owned
  BY NoElements, ConnAssumption DEF Init, Owned, At
<1>5. Asked /\ Told
  <2>1. Len(<<>>) = 0
    OBVIOUS
  <2>2. Behind(<<>>, <<>>, <<>>) /\ Between(<<>>, <<>>, <<>>, <<>>)
    BY <2>1 DEF Behind, Between
  <2>3. \A c \in Conn : answers[c] = <<>> /\ input[c] = <<>> /\ sent[c] = <<>>
    BY DEF Init
  <2>4. \A w \in Worker : held[w] = NoConn
    BY DEF Init
  <2> QED
    BY <2>1, <2>2, <2>3, <2>4, ConnAssumption DEF Asked, Told
<1> QED
  BY <1>1, <1>2, <1>3, <1>4, <1>5 DEF Inv

\* The end of handleClient(), however it comes.
Ends(w) ==
    /\ worker[w] \in {"serving", "reading"}
    /\ Finish(w)
    /\ UNCHANGED answers

LEMMA EndOfService ==
    ASSUME NEW w \in Worker, StopServing(w) \/ ClientHasLeft(w) \/ ServeFails(w)
    PROVE  Ends(w)
  BY DEF StopServing, ClientHasLeft, ServeFails, Ends

\* The first of the requests rs of client c is answered, whether they have just
\* been read or were decoded before.
Answers(w, c, rs) ==
    /\ worker[w] \in {"serving", "reading"} /\ c = held[w] /\ rs # <<>>
    /\ Answer(w, rs)
    /\ \/ /\ worker[w] = "reading" /\ rs = input[c]
          /\ input' = [input EXCEPT ![c] = <<>>]
       \/ /\ worker[w] = "serving" /\ rs = msgs[w]
          /\ UNCHANGED input
    /\ worker' = [worker EXCEPT ![w] = "serving"]
    /\ UNCHANGED <<serverVars, stopped, acc, channelVars, held, backlog, conn,
                   left, sent>>

LEMMA RequestAnswered ==
    ASSUME Types, Works, NEW w \in Worker, ReadRequests(w) \/ ServeNext(w)
    PROVE  \E c \in Conn, rs \in Seq(Request) : Answers(w, c, rs)
<1>1. held[w] \in Conn
  BY DEF Types, Works, ReadRequests, ServeNext
<1>2. CASE ReadRequests(w)
  BY <1>1, <1>2 DEF Types, ReadRequests, Answers
<1>3. CASE ServeNext(w)
  <2>1. worker' = [worker EXCEPT ![w] = "serving"]
    BY <1>3 DEF Types, ServeNext
  <2> QED
    BY <1>1, <1>3, <2>1 DEF Types, ServeNext, Answers, clientVars
<1> QED
  BY <1>2, <1>3

\* recv() of a worker: it takes a connection, waits or comes back.
Takes(w) ==
    /\ channel = "open" /\ worker[w] = "asking"
    /\ TakeParked(w) \/ TakeQueued(w)
    /\ worker' = [worker EXCEPT ![w] = "serving"]
    /\ UNCHANGED <<serverVars, stopped, channel, msgs, backlog, conn, clientVars,
                   answers>>

WaitsFor(w) ==
    /\ worker[w] = "asking"
    /\ readers' = Append(readers, w)
    /\ worker' = [worker EXCEPT ![w] = "waiting"]
    /\ UNCHANGED <<serverVars, stopped, acc, channel, queue, held, msgs, backlog,
                   conn, clientVars, answers>>

\* The steps of a worker on its way between two connections, without one.
Goes(w) ==
    /\ worker[w] \in {"looping", "asking"}
    /\ worker' = [worker EXCEPT ![w] = worker'[w]]
    /\ worker'[w] \in {"asking", "ended", "lost"}
    /\ UNCHANGED <<serverVars, stopped, acc, channelVars, held, msgs, backlog,
                   conn, clientVars, answers>>

\* and with one.
Turns(w) ==
    /\ worker[w] \in {"handed", "serving"} /\ msgs[w] = <<>>
    /\ \/ worker' = [worker EXCEPT ![w] = "serving"]
       \/ worker' = [worker EXCEPT ![w] = "reading"]
    /\ UNCHANGED <<serverVars, stopped, acc, channelVars, held, msgs, backlog,
                   conn, clientVars, answers>>

\* A reader that was handed a connection finds the channel closed.
Refuses(w) ==
    /\ worker[w] = "handed"
    /\ worker' = [worker EXCEPT ![w] = "ended"]
    /\ conn' = Closed({held[w]})
    /\ held' = [held EXCEPT ![w] = NoConn]
    /\ UNCHANGED <<serverVars, stopped, acc, channelVars, msgs, backlog,
                   clientVars, answers>>

LEMMA WorkerSteps ==
    ASSUME Types, Works, NEW w \in Worker, WorkerStep(w) \/ ServeFails(w)
    PROVE  \/ Takes(w) \/ WaitsFor(w) \/ Goes(w) \/ Turns(w) \/ Refuses(w)
           \/ Ends(w)
           \/ \E c \in Conn, rs \in Seq(Request) : Answers(w, c, rs)
<1>1. CASE Receive(w)
  BY <1>1 DEF Types, Receive, Takes, WaitsFor, Goes, channelVars
<1>2. CASE Handed(w)
  BY <1>2 DEF Types, Works, Handed, Turns, Refuses
<1>3. CASE Loop(w)
  BY <1>3 DEF Types, Loop, Goes
<1>4. CASE StartReading(w)
  BY <1>4 DEF StartReading, Turns
<1> QED
  BY <1>1, <1>2, <1>3, <1>4, EndOfService, RequestAnswered DEF WorkerStep

\* The steps of start() that only move it on.
StartsOn ==
    /\ acc' \in [at : AccPlaces, conn : {acc.conn}, late : BOOLEAN]
    /\ \/ acc.at = "new" /\ acc'.at = "scheduled" /\ UNCHANGED channel
       \/ acc.at = "scheduled" /\ acc'.at = "zookeeper" /\ channel' = "open"
       \/ /\ acc.at = "accepting" /\ acc'.at = "resumed" /\ UNCHANGED channel
          /\ backlog # <<>>
       \/ /\ acc.at \in {"accepting", "resumed", "accepted"} /\ acc'.at = acc.at
          /\ UNCHANGED channel
       \/ acc.at = "accepted" /\ acc'.at = "sending" /\ UNCHANGED channel
       \/ acc.at = "sending" /\ acc'.at = "parked" /\ UNCHANGED channel
       \/ /\ acc.at \in {"resumed", "accepted", "sending"}
          /\ acc'.at = "crashed" /\ UNCHANGED channel
    /\ acc.at # "new" => UNCHANGED services
    /\ UNCHANGED <<queue, readers, workerVars, backlog, conn, clientVars,
                   answers>>

LEMMA StartSteps ==
    ASSUME Types, Starts,
           ServerStart \/ Begin \/ AcceptReady \/ Accepted \/ AfterStop \/ Expire
    PROVE  StartsOn
<1>1. CASE ServerStart
  BY <1>1 DEF Types, Starts, ServerStart, StartsOn, At, AccPlaces, channelVars
<1>2. CASE Begin
  BY <1>2 DEF Types, Starts, Begin, StartsOn, At, AccPlaces, serverVars
<1>3. CASE AcceptReady
  BY <1>3 DEF Types, AcceptReady, StartsOn, AccPlaces, channelVars, serverVars
<1>4. CASE Accepted
  BY <1>4 DEF Types, Accepted, StartsOn, AccPlaces, channelVars, serverVars
<1>5. CASE AfterStop
  BY <1>5 DEF Types, AfterStop, StartsOn, AccPlaces, channelVars, serverVars
<1>6. CASE Expire
  BY <1>6 DEF Types, Expire, StartsOn, AccPlaces, channelVars, serverVars
<1> QED
  BY <1>1, <1>2, <1>3, <1>4, <1>5, <1>6

\* send() into the hands of a reader, or into the buffer.
HandsTo(w) ==
    /\ acc.at = "sending" /\ readers # <<>> /\ w = Head(readers)
    /\ worker' = [worker EXCEPT ![w] = "handed"]
    /\ held' = [held EXCEPT ![w] = acc.conn]
    /\ readers' = Tail(readers)
    /\ acc' = At("accepting")
    /\ UNCHANGED <<serverVars, stopped, channel, queue, msgs, backlog, conn,
                   clientVars, answers>>

Puts ==
    /\ acc.at = "sending" /\ channel = "open"
    /\ queue' = Append(queue, acc.conn)
    /\ acc' = At("accepting")
    /\ UNCHANGED <<serverVars, stopped, channel, readers, workerVars, backlog,
                   conn, clientVars, answers>>

LEMMA SendSteps ==
    ASSUME Types, Send
    PROVE  StartsOn \/ Puts \/ \E w \in Worker : HandsTo(w)
<1>1. CASE readers # <<>>
  <2>1. Head(readers) \in Worker
    BY <1>1, HeadAndTail DEF Types
  <2> QED
    BY <1>1, <2>1 DEF Send, HandsTo
<1>2. CASE readers = <<>> /\ Len(queue) < QueueSize
  BY <1>2 DEF Send, Puts, workerVars
<1>3. CASE readers = <<>> /\ ~(Len(queue) < QueueSize)
  <2>1. /\ acc.at = "sending" /\ acc' = [acc EXCEPT !.at = "parked"]
        /\ UNCHANGED <<services, channel, queue, readers, workerVars, backlog,
                       conn, clientVars, answers>>
    BY <1>3 DEF Send, serverVars, workerVars
  <2> QED
    BY <2>1 DEF StartsOn, Types, AccPlaces
<1> QED
  BY <1>1, <1>2, <1>3

\* Every step is one of these.
LEMMA Steps ==
    ASSUME Types, Starts, Works, [Next]_vars
    PROVE  \/ StartsOn \/ StartWorkers \/ Accept \/ AcceptLate \/ AcceptFails
           \/ Puts \/ Stop
           \/ \E w \in Worker :
                 \/ HandsTo(w) \/ Takes(w) \/ WaitsFor(w) \/ Goes(w) \/ Turns(w)
                 \/ Refuses(w) \/ Ends(w)
                 \/ \E c \in Conn, rs \in Seq(Request) : Answers(w, c, rs)
           \/ \E c \in Conn :
                 Connect(c) \/ Leave(c) \/ \E r \in Request : SendRequest(c, r)
           \/ UNCHANGED vars
  BY StartSteps, SendSteps, WorkerSteps DEF Next, LoopStep, StartStep

\* The connections in use.
LEMMA ClosedType ==
    ASSUME Types, NEW cs
    PROVE  /\ Closed(cs) \in [Conn -> {"new", "open", "closed"}]
           /\ \A c \in Conn :
                 Closed(cs)[c] = IF c \in cs THEN "closed" ELSE conn[c]
  BY DEF Types, Closed

\* What becomes of the readers when the channel is closed or freed.
LEMMA CloseWorkers ==
    ASSUME Types, NEW after \in {"closed", "freed"}, CloseChannel(after)
    PROVE  /\ worker' \in [Worker -> WorkerPlaces]
           /\ \A w \in Worker : worker'[w] =
                 IF w \in Elements(readers) THEN "looping" ELSE worker[w]
           /\ queue' = <<>> /\ readers' = <<>> /\ channel' = after
  BY DEF Types, CloseChannel, WorkerPlaces

LEMMA NextTypes == Types /\ Starts /\ Works /\ [Next]_vars => Types'
<1> SUFFICES ASSUME Types, Starts, Works, [Next]_vars PROVE Types'
  OBVIOUS
<1>1. CASE StartsOn
  BY <1>1 DEF StartsOn, Types, workerVars, clientVars
<1>2. CASE StartWorkers
  BY <1>2 DEF StartWorkers, NextAccept, At, Types, AccPlaces, WorkerPlaces,
              channelVars, clientVars
<1>3. CASE Accept
  <2>1. backlog # <<>>
    BY <1>3 DEF Accept, Starts
  <2>2. Head(backlog) \in Conn /\ Tail(backlog) \in Seq(Conn)
    BY <2>1, HeadAndTail DEF Types
  <2> QED
    BY <1>3, <2>2 DEF Accept, Types, AccPlaces, channelVars, workerVars, clientVars
<1>4. CASE AcceptLate
  BY <1>4, ClosedType DEF AcceptLate, NextAccept, At, Types, AccPlaces,
              channelVars, workerVars, clientVars
<1>5. CASE AcceptFails
  <2>1. /\ acc' \in [at : AccPlaces, conn : Conn \cup {NoConn}, late : BOOLEAN]
        /\ conn' \in [Conn -> {"new", "open", "closed"}]
    BY <1>5, ClosedType DEF AcceptFails, At, AccPlaces
  <2>2. /\ channel' = "closed"
        /\ queue' \in Seq(Conn) /\ readers' \in Seq(Worker)
        /\ worker' \in [Worker -> WorkerPlaces]
    BY <1>5, CloseWorkers, NoElements DEF AcceptFails
  <2> QED
    BY <1>5, <2>1, <2>2 DEF AcceptFails, Types, clientVars
<1>6. CASE Puts
  <2>1. acc.conn \in Conn
    BY <1>6 DEF Puts, Starts, Types
  <2> QED
    BY <1>6, <2>1, AppendElements
    DEF Puts, At, Types, AccPlaces, clientVars, workerVars
<1>7. CASE Stop
  <2>1. /\ acc' \in [at : AccPlaces, conn : Conn \cup {NoConn}, late : BOOLEAN]
        /\ conn' \in [Conn -> {"new", "open", "closed"}]
        /\ backlog' = <<>>
    BY <1>7, ClosedType DEF Stop, At, Types, AccPlaces
  <2>2. /\ channel' \in {"none", "open", "closed", "freed"}
        /\ queue' \in Seq(Conn) /\ readers' \in Seq(Worker)
        /\ worker' \in [Worker -> WorkerPlaces]
    <3>1. CASE channel \in {"none", "freed"}
      BY <1>7, <3>1 DEF Stop, Types, channelVars
    <3>2. CASE channel \notin {"none", "freed"}
      BY <1>7, <3>2, CloseWorkers, NoElements DEF Stop
    <3> QED
      BY <3>1, <3>2
  <2>3. UNCHANGED <<held, msgs, clientVars, answers>>
    BY <1>7 DEF Stop
  <2>4. <<>> \in Seq(Conn)
    OBVIOUS
  <2> QED
    BY <2>1, <2>2, <2>3, <2>4 DEF Types, clientVars
<1>8. ASSUME NEW w \in Worker, Takes(w) PROVE Types'
  <2>1. CASE TakeParked(w)
    BY <1>8, <2>1
    DEF Takes, TakeParked, At, Types, AccPlaces, WorkerPlaces, clientVars
  <2>2. CASE TakeQueued(w)
    <3>1. Head(queue) \in Conn /\ Tail(queue) \in Seq(Conn)
      BY <2>2, HeadAndTail DEF Types, TakeQueued
    <3> QED
      BY <1>8, <2>2, <3>1
      DEF Takes, TakeQueued, Types, WorkerPlaces, clientVars
  <2> QED
    BY <1>8, <2>1, <2>2 DEF Takes
<1>9. ASSUME NEW w \in Worker, HandsTo(w) PROVE Types'
  <2>1. acc.conn \in Conn /\ Tail(readers) \in Seq(Worker)
    BY <1>9, HeadAndTail DEF HandsTo, Starts, Types
  <2> QED
    BY <1>9, <2>1 DEF HandsTo, At, Types, AccPlaces, WorkerPlaces, clientVars
<1>10. ASSUME NEW w \in Worker, WaitsFor(w) PROVE Types'
  BY <1>10, AppendElements DEF WaitsFor, Types, WorkerPlaces, clientVars
<1>11. ASSUME NEW w \in Worker, Goes(w) \/ Turns(w) PROVE Types'
  BY <1>11 DEF Goes, Turns, Types, WorkerPlaces, channelVars, clientVars
<1>12. ASSUME NEW w \in Worker, Refuses(w) PROVE Types'
  BY <1>12, ClosedType DEF Refuses, Types, WorkerPlaces, channelVars, clientVars
<1>13. ASSUME NEW w \in Worker, Ends(w) PROVE Types'
  BY <1>13, ClosedType, NoElements
  DEF Ends, Finish, Types, WorkerPlaces, channelVars, clientVars
<1>14. ASSUME NEW w \in Worker, NEW c \in Conn, NEW rs \in Seq(Request),
              Answers(w, c, rs)
       PROVE  Types'
  <2>1. /\ Tail(rs) \in Seq(Request)
        /\ Append(answers[c], Dispatch(Head(rs))) \in Seq(0 .. 4)
    BY <1>14, HeadAndTail, DispatchIsCode DEF Answers, Types
  <2>2. /\ answers' \in [Conn -> Seq(0 .. 4)]
        /\ msgs' \in [Worker -> Seq(Request)]
    BY <1>14, <2>1 DEF Answers, Answer, Types
  <2>3. input' \in [Conn -> Seq(Request)]
    <3>1. <<>> \in Seq(Request) /\ input \in [Conn -> Seq(Request)]
      BY DEF Types
    <3> QED
      BY <1>14, <3>1 DEF Answers
  <2> QED
    BY <1>14, <2>2, <2>3 DEF Answers, Types, WorkerPlaces, channelVars
<1>15. ASSUME NEW c \in Conn, Connect(c) PROVE Types'
  BY <1>15, AppendElements DEF Connect, Types, channelVars, workerVars, clientVars
<1>16. ASSUME NEW c \in Conn, Leave(c) PROVE Types'
  BY <1>16 DEF Leave, Types, channelVars, workerVars
<1>17. ASSUME NEW c \in Conn, NEW r \in Request, SendRequest(c, r) PROVE Types'
  BY <1>17, AppendElements DEF SendRequest, Types, channelVars, workerVars
<1>18. CASE UNCHANGED vars
  BY <1>18 DEF vars, Types, channelVars, workerVars, clientVars
<1> QED
  BY Steps, <1>1, <1>2, <1>3, <1>4, <1>5, <1>6, <1>7, <1>8, <1>9, <1>10, <1>11,
     <1>12, <1>13, <1>14, <1>15, <1>16, <1>17, <1>18

-----------------------------------------------------------------------------
\* Where start() and the workers are.

LEMMA NextStarts == Types /\ Starts /\ Works /\ [Next]_vars => Starts'
<1> SUFFICES ASSUME Types, Starts, Works, [Next]_vars PROVE Starts'
  OBVIOUS
<1>1. CASE StartsOn
  BY <1>1 DEF StartsOn, Types, Starts, Listening, AccPlaces, workerVars
<1>2. CASE StartWorkers
  BY <1>2 DEF StartWorkers, NextAccept, At, Starts, Listening, channelVars
<1>3. CASE Accept
  <2>1. Head(backlog) \in Conn
    BY <1>3, HeadAndTail DEF Accept, Starts, Types
  <2> QED
    BY <1>3, <2>1, ConnAssumption
    DEF Accept, Starts, Types, AccPlaces, channelVars, workerVars
<1>4. CASE AcceptLate
  BY <1>4 DEF AcceptLate, NextAccept, At, Starts, channelVars
<1>5. CASE AcceptFails
  BY <1>5, CloseWorkers DEF AcceptFails, At, Starts
<1>6. CASE Puts
  BY <1>6 DEF Puts, At, Starts
<1>7. CASE Stop
  <2>1. /\ acc'.conn = IF acc.at = "parked" THEN NoConn ELSE acc.conn
        /\ acc'.at = IF acc.at = "parked" THEN "threw" ELSE acc.at
    BY <1>7 DEF Stop, At
  <2>2. CASE channel \in {"none", "freed"}
    BY <1>7, <2>1, <2>2 DEF Stop, Starts, channelVars, Listening
  <2>3. CASE channel \notin {"none", "freed"}
    <3>1. acc.at \in {"new", "scheduled", "zookeeper"}
             => \A w \in Worker : worker'[w] = "none"
      <4>1. SUFFICES ASSUME acc.at \in {"new", "scheduled", "zookeeper"},
                            NEW w \in Worker
                     PROVE  worker'[w] = "none"
        OBVIOUS
      <4>2. worker[w] = "none"
        BY <4>1 DEF Starts
      <4> QED
        BY <1>7, <2>3, <4>2, CloseWorkers DEF Stop, Works
    <3> QED
      BY <1>7, <2>1, <2>3, <3>1, CloseWorkers DEF Stop, Starts, Listening
  <2> QED
    BY <2>2, <2>3
<1>8. ASSUME NEW w \in Worker, HandsTo(w) PROVE Starts'
  BY <1>8 DEF HandsTo, At, Starts
<1>9. ASSUME NEW w \in Worker, Takes(w) PROVE Starts'
  <2>1. /\ channel = "open" /\ worker[w] = "asking"
        /\ UNCHANGED <<channel, backlog>>
    BY <1>9 DEF Takes, serverVars
  <2>2. acc.at \notin {"new", "scheduled", "zookeeper"}
    BY <2>1 DEF Starts
  <2>3. CASE TakeParked(w)
    <3>1. acc'.at = "accepting" /\ acc'.conn = NoConn
      BY <2>3 DEF TakeParked, At
    <3> QED
      BY <2>1, <3>1 DEF Starts
  <2>4. CASE TakeQueued(w)
    <3>1. acc' = acc
      BY <2>4 DEF TakeQueued
    <3> QED
      BY <2>1, <2>2, <3>1 DEF Starts, Listening
  <2> QED
    BY <1>9, <2>3, <2>4 DEF Takes
<1>10. ASSUME NEW w \in Worker,
              WaitsFor(w) \/ Goes(w) \/ Turns(w) \/ Refuses(w) \/ Ends(w)
       PROVE  Starts'
  BY <1>10
  DEF WaitsFor, Goes, Turns, Refuses, Ends, Finish, Starts, Listening, channelVars
<1>11. ASSUME NEW w \in Worker, NEW c \in Conn, NEW rs \in Seq(Request),
              Answers(w, c, rs)
       PROVE  Starts'
  BY <1>11 DEF Answers, Starts, Listening, channelVars
<1>12. ASSUME NEW c \in Conn, Connect(c) PROVE Starts'
  <2>1. backlog' # <<>>
    <3>1. backlog \in Seq(Conn) /\ backlog' = Append(backlog, c)
      BY <1>12 DEF Connect, Types
    <3> QED
      BY <3>1
  <2> QED
    BY <1>12, <2>1 DEF Connect, Starts, Listening, channelVars, workerVars
<1>13. ASSUME NEW c \in Conn, Leave(c) \/ \E r \in Request : SendRequest(c, r)
       PROVE  Starts'
  BY <1>13 DEF Leave, SendRequest, Starts, Listening, channelVars, workerVars
<1>14. CASE UNCHANGED vars
  BY <1>14 DEF vars, Starts, Listening, channelVars, workerVars
<1> QED
  BY Steps, <1>1, <1>2, <1>3, <1>4, <1>5, <1>6, <1>7, <1>8, <1>9, <1>10, <1>11,
     <1>12, <1>13, <1>14

\* The workers as the closing of the channel leaves them.
LEMMA CloseWorks ==
    ASSUME Types, Works, NEW after \in {"closed", "freed"}, CloseChannel(after),
           UNCHANGED <<held, msgs>>
    PROVE  Works'
  BY CloseWorkers, NoElements DEF Works

LEMMA NextWorks == Types /\ Starts /\ Works /\ [Next]_vars => Works'
<1> SUFFICES ASSUME Types, Starts, Works, [Next]_vars PROVE Works'
  OBVIOUS
<1>1. CASE StartsOn
  BY <1>1 DEF StartsOn, Works, workerVars
<1>2. CASE StartWorkers
  <2>1. readers' = readers /\ held' = held /\ msgs' = msgs
    BY <1>2 DEF StartWorkers, channelVars
  <2>2. \A w \in Worker : worker[w] = "none" /\ worker'[w] = "looping"
    BY <1>2 DEF StartWorkers, Starts
  <2>3. Elements(readers) = {}
    BY <2>2, ElementsType DEF Works, Types
  <2> QED
    BY <2>1, <2>2, <2>3 DEF Works
<1>3. CASE AcceptFails
  BY <1>3, CloseWorks DEF AcceptFails
<1>4. CASE Stop
  BY <1>4, CloseWorks DEF Stop, Works, channelVars
<1>5. CASE Accept \/ AcceptLate \/ Puts
  BY <1>5 DEF Accept, AcceptLate, Puts, Works, channelVars, workerVars
<1>6. ASSUME NEW w \in Worker, HandsTo(w) PROVE Works'
  <2>1. /\ Distinct(readers')
        /\ Elements(readers') = Elements(readers) \ {w}
        /\ worker[w] = "waiting"
    BY <1>6, TailElements, HeadAndTail DEF HandsTo, Works, Types
  <2>2. acc.conn # NoConn /\ msgs' = msgs
    BY <1>6 DEF HandsTo, Starts
  <2>3. /\ worker'[w] = "handed" /\ held'[w] = acc.conn
        /\ \A v \in Worker \ {w} : worker'[v] = worker[v] /\ held'[v] = held[v]
    BY <1>6 DEF HandsTo, Types
  <2>4. Elements(readers) \subseteq Worker
    BY ElementsType DEF Types
  <2> QED
    BY <2>1, <2>2, <2>3, <2>4 DEF Works
<1>7. ASSUME NEW w \in Worker, Takes(w) PROVE Works'
  <2>1. held'[w] # NoConn /\ readers' = readers /\ msgs' = msgs
    <3>1. CASE TakeParked(w)
      BY <1>7, <3>1 DEF Takes, TakeParked, Starts, Types
    <3>2. CASE TakeQueued(w)
      BY <1>7, <3>2, HeadAndTail, ConnAssumption DEF Takes, TakeQueued, Types
    <3> QED
      BY <1>7, <3>1, <3>2 DEF Takes
  <2>2. /\ worker[w] = "asking" /\ worker'[w] = "serving"
        /\ \A v \in Worker \ {w} : worker'[v] = worker[v] /\ held'[v] = held[v]
    BY <1>7 DEF Takes, TakeParked, TakeQueued, Types
  <2>3. Elements(readers) \subseteq Worker
    BY ElementsType DEF Types
  <2> QED
    BY <2>1, <2>2, <2>3 DEF Works
<1>8. ASSUME NEW w \in Worker, WaitsFor(w) PROVE Works'
  <2>1. /\ Distinct(readers')
        /\ Elements(readers') = Elements(readers) \cup {w}
    BY <1>8, AppendElements DEF WaitsFor, Works, Types
  <2>2. /\ worker[w] = "asking" /\ worker'[w] = "waiting"
        /\ \A v \in Worker \ {w} : worker'[v] = worker[v]
        /\ held' = held /\ msgs' = msgs
    BY <1>8 DEF WaitsFor, Types
  <2>3. Elements(readers) \subseteq Worker
    BY ElementsType DEF Types
  <2> QED
    BY <2>1, <2>2, <2>3 DEF Works
<1>9. ASSUME NEW w \in Worker, Goes(w) \/ Turns(w) PROVE Works'
  <2>1. /\ \/ /\ worker[w] \in {"looping", "asking"}
              /\ worker'[w] \in {"asking", "ended", "lost"}
           \/ /\ worker[w] \in {"handed", "serving"} /\ msgs[w] = <<>>
              /\ worker'[w] \in {"serving", "reading"}
        /\ \A v \in Worker \ {w} : worker'[v] = worker[v]
        /\ held' = held /\ msgs' = msgs /\ readers' = readers
    BY <1>9 DEF Goes, Turns, Types, channelVars
  <2>2. Elements(readers) \subseteq Worker
    BY ElementsType DEF Types
  <2> QED
    BY <2>1, <2>2 DEF Works
<1>10. ASSUME NEW w \in Worker, Refuses(w) \/ Ends(w) PROVE Works'
  <2>1. /\ worker[w] \in {"handed", "serving", "reading"}
        /\ worker'[w] \in {"ended", "looping"}
        /\ held'[w] = NoConn /\ msgs'[w] = <<>>
        /\ \A v \in Worker \ {w} : /\ worker'[v] = worker[v]
                                   /\ held'[v] = held[v] /\ msgs'[v] = msgs[v]
        /\ readers' = readers
    <3>1. CASE Refuses(w)
      BY <3>1 DEF Refuses, Types, Works, channelVars
    <3>2. CASE Ends(w)
      BY <3>2 DEF Ends, Finish, Types, channelVars
    <3> QED
      BY <1>10, <3>1, <3>2
  <2>2. Elements(readers) \subseteq Worker
    BY ElementsType DEF Types
  <2> QED
    BY <2>1, <2>2 DEF Works
<1>11. ASSUME NEW w \in Worker, NEW c \in Conn, NEW rs \in Seq(Request),
              Answers(w, c, rs)
       PROVE  Works'
  <2>1. /\ worker[w] \in {"serving", "reading"}
        /\ worker'[w] = "serving"
        /\ \A v \in Worker \ {w} : worker'[v] = worker[v] /\ msgs'[v] = msgs[v]
        /\ held' = held /\ readers' = readers
    BY <1>11 DEF Answers, Answer, Types, channelVars
  <2>2. Elements(readers) \subseteq Worker
    BY ElementsType DEF Types
  <2> QED
    BY <2>1, <2>2 DEF Works
<1>12. ASSUME NEW c \in Conn,
              Connect(c) \/ Leave(c) \/ \E r \in Request : SendRequest(c, r)
       PROVE  Works'
  BY <1>12 DEF Connect, Leave, SendRequest, Works, channelVars, workerVars
<1>13. CASE UNCHANGED vars
  BY <1>13 DEF vars, Works, channelVars, workerVars
<1> QED
  BY Steps, <1>1, <1>2, <1>3, <1>4, <1>5, <1>6, <1>7, <1>8, <1>9, <1>10, <1>11,
     <1>12, <1>13

-----------------------------------------------------------------------------
\* Who has a connection.

LEMMA NextOwned == Types /\ Starts /\ Works /\ Owned /\ [Next]_vars => Owned'
<1> SUFFICES ASSUME Types, Starts, Works, Owned, [Next]_vars PROVE Owned'
  OBVIOUS
<1>a. Elements(backlog) \subseteq Conn /\ Elements(queue) \subseteq Conn
  BY ElementsType DEF Types
<1>1. CASE StartsOn
  <2>1. acc'.conn = acc.conn
    BY <1>1 DEF StartsOn
  <2> QED
    BY <1>1, <2>1 DEF StartsOn, Owned, workerVars
<1>2. CASE StartWorkers
  <2>1. acc'.conn = NoConn /\ acc.conn = NoConn
    BY <1>2 DEF StartWorkers, NextAccept, At, Starts
  <2> QED
    BY <1>2, <2>1 DEF StartWorkers, Owned, channelVars
<1>3. CASE Accept
  <2>1. /\ Distinct(backlog') /\ acc'.conn = Head(backlog)
        /\ Elements(backlog') = Elements(backlog) \ {acc'.conn}
        /\ acc'.conn \in Elements(backlog)
    BY <1>3, TailElements, HeadAndTail DEF Accept, Starts, Owned, Types
  <2>2. acc.conn = NoConn
    BY <1>3 DEF Accept, Starts
  <2>3. UNCHANGED <<queue, held, conn>>
    BY <1>3 DEF Accept, channelVars, workerVars
  <2> QED
    BY <1>a, <2>1, <2>2, <2>3, ConnAssumption DEF Owned
<1>4. CASE AcceptLate
  <2>1. acc'.conn = NoConn /\ UNCHANGED <<backlog, queue, held>>
    BY <1>4 DEF AcceptLate, NextAccept, At, channelVars, workerVars
  <2>2. \A c \in Conn : conn'[c] = IF c = acc.conn THEN "closed" ELSE conn[c]
    BY <1>4, ClosedType DEF AcceptLate
  <2> QED
    BY <1>a, <2>1, <2>2, ConnAssumption DEF Owned
<1>5. CASE AcceptFails
  <2>1. /\ acc'.conn = NoConn /\ acc.conn = NoConn /\ UNCHANGED <<backlog, held>>
        /\ queue' = <<>>
    BY <1>5, CloseWorkers DEF AcceptFails, At, Starts
  <2>2. \A c \in Conn :
           conn'[c] = IF c \in Elements(queue) THEN "closed" ELSE conn[c]
    BY <1>5, ClosedType DEF AcceptFails
  <2> QED
    BY <1>a, <2>1, <2>2, NoElements, ConnAssumption DEF Owned
<1>6. CASE Puts
  <2>1. acc.conn \in Conn
    BY <1>6 DEF Puts, Starts, Types
  <2>2. /\ Elements(queue') = Elements(queue) \cup {acc.conn}
        /\ Distinct(queue') /\ acc'.conn = NoConn
        /\ UNCHANGED <<backlog, held, conn>>
    BY <1>6, <2>1, AppendElements DEF Puts, At, Types, Owned, workerVars
  <2> QED
    BY <1>a, <2>1, <2>2, ConnAssumption DEF Owned
<1>7. CASE Stop
  <2>1. /\ acc'.conn = IF acc.at = "parked" THEN NoConn ELSE acc.conn
        /\ backlog' = <<>> /\ held' = held
    BY <1>7 DEF Stop, At
  <2>2. queue' = <<>>
    BY <1>7, CloseWorkers DEF Stop, channelVars, Starts
  <2>3. \A c \in Conn : conn'[c] =
           IF \/ c \in Elements(backlog) \cup Elements(queue)
              \/ acc.at = "parked" /\ c = acc.conn
           THEN "closed" ELSE conn[c]
    BY <1>7, ClosedType DEF Stop
  <2> QED
    BY <1>a, <2>1, <2>2, <2>3, NoElements, ConnAssumption DEF Owned
<1>8. ASSUME NEW w \in Worker, HandsTo(w) PROVE Owned'
  <2>1. acc.conn \in Conn /\ acc'.conn = NoConn /\ UNCHANGED <<backlog, queue, conn>>
    BY <1>8 DEF HandsTo, Starts, Types, At
  <2>2. /\ held'[w] = acc.conn
        /\ \A v \in Worker \ {w} : held'[v] = held[v]
    BY <1>8 DEF HandsTo, Types
  <2>3. held[w] = NoConn
    BY <1>8, HeadAndTail DEF HandsTo, Works, Types
  <2> QED
    BY <1>a, <2>1, <2>2, <2>3, ConnAssumption DEF Owned
<1>9. ASSUME NEW w \in Worker, Takes(w) PROVE Owned'
  <2>1. held[w] = NoConn /\ UNCHANGED <<backlog, conn>>
    BY <1>9 DEF Takes, Works
  <2>2. CASE TakeParked(w)
    <3>1. /\ acc.conn \in Conn /\ acc'.conn = NoConn /\ queue' = queue
          /\ held'[w] = acc.conn
          /\ \A v \in Worker \ {w} : held'[v] = held[v]
      BY <2>2 DEF TakeParked, Starts, Types, At
    <3> QED
      BY <1>a, <2>1, <3>1, ConnAssumption DEF Owned
  <2>3. CASE TakeQueued(w)
    <3>1. /\ Distinct(queue') /\ held'[w] \in Elements(queue)
          /\ Elements(queue') = Elements(queue) \ {held'[w]}
          /\ \A v \in Worker \ {w} : held'[v] = held[v]
          /\ acc' = acc
      BY <2>3, TailElements, HeadAndTail DEF TakeQueued, Types, Owned
    <3> QED
      BY <1>a, <2>1, <3>1, ConnAssumption DEF Owned
  <2> QED
    BY <1>9, <2>2, <2>3 DEF Takes
<1>10. ASSUME NEW w \in Worker, WaitsFor(w) \/ Goes(w) \/ Turns(w) PROVE Owned'
  BY <1>10 DEF WaitsFor, Goes, Turns, Owned, channelVars
<1>11. ASSUME NEW w \in Worker, Refuses(w) \/ Ends(w) PROVE Owned'
  <2>1. /\ held[w] # NoConn /\ held'[w] = NoConn
        /\ \A v \in Worker \ {w} : held'[v] = held[v]
        /\ UNCHANGED <<acc, backlog, queue>>
    BY <1>11 DEF Refuses, Ends, Finish, Works, Types, channelVars
  <2>2. \A c \in Conn : conn'[c] = IF c = held[w] THEN "closed" ELSE conn[c]
    BY <1>11, ClosedType DEF Refuses, Ends, Finish
  <2> QED
    BY <1>a, <2>1, <2>2, ConnAssumption DEF Owned
<1>12. ASSUME NEW w \in Worker, NEW c \in Conn, NEW rs \in Seq(Request),
              Answers(w, c, rs)
       PROVE  Owned'
  BY <1>12 DEF Answers, Owned, channelVars
<1>13. ASSUME NEW c \in Conn, Connect(c) PROVE Owned'
  <2>1. /\ c \notin Elements(backlog)
        /\ c \notin Elements(queue) /\ c # acc.conn /\ \A w \in Worker : held[w] # c
    BY <1>13 DEF Connect, Owned
  <2>2. /\ Distinct(backlog') /\ Elements(backlog') = Elements(backlog) \cup {c}
        /\ UNCHANGED <<acc, queue, held>>
        /\ \A d \in Conn : conn'[d] = IF d = c THEN "open" ELSE conn[d]
    BY <1>13, <2>1, AppendElements DEF Connect, Owned, Types, channelVars, workerVars
  <2> QED
    BY <1>a, <2>1, <2>2 DEF Owned
<1>14. ASSUME NEW c \in Conn, Leave(c) \/ \E r \in Request : SendRequest(c, r)
       PROVE  Owned'
  <2>1. UNCHANGED <<acc, backlog, queue, held, conn>>
    BY <1>14 DEF Leave, SendRequest, channelVars, workerVars
  <2> QED
    BY <2>1 DEF Owned
<1>15. CASE UNCHANGED vars
  BY <1>15 DEF vars, Owned, channelVars, workerVars
<1> QED
  BY Steps, <1>1, <1>2, <1>3, <1>4, <1>5, <1>6, <1>7, <1>8, <1>9, <1>10, <1>11,
     <1>12, <1>13, <1>14, <1>15

\* One who has a connection is the only one.
LEMMA OwnedIsOneOwner ==
    ASSUME Types, Owned
    PROVE  OneOwner
<1> SUFFICES ASSUME NEW c \in Conn
             PROVE  Cardinality(Owners(c)) = IF conn[c] = "open" THEN 1 ELSE 0
  BY DEF OneOwner
<1> DEFINE Back == {<<"backlog", i>> : i \in {j \in DOMAIN backlog : backlog[j] = c}}
           Buf == {<<"queue", i>> : i \in {j \in DOMAIN queue : queue[j] = c}}
           Work == {<<"worker", w>> : w \in {v \in Worker : held[v] = c}}
           Acc == IF acc.conn = c THEN {<<"start", 0>>} ELSE {}
<1>0. DOMAIN backlog = 1 .. Len(backlog) /\ DOMAIN queue = 1 .. Len(queue)
  BY DEF Types
<1>1. Owners(c) = Back \cup Buf \cup Work \cup Acc
  BY DEF Owners
<1>2. /\ c \notin Elements(backlog) => Back = {}
      /\ c \notin Elements(queue) => Buf = {}
      /\ (\A w \in Worker : held[w] # c) => Work = {}
      /\ acc.conn # c => Acc = {}
  BY DEF Elements
<1>3. ASSUME NEW o, Owners(c) = {o}, conn[c] = "open"
      PROVE  Cardinality(Owners(c)) = IF conn[c] = "open" THEN 1 ELSE 0
  BY <1>3, FS_Singleton
<1>4. CASE c \in Elements(backlog)
  <2>1. PICK i \in DOMAIN backlog : backlog[i] = c
    BY <1>4 DEF Elements
  <2>2. \A j \in DOMAIN backlog : backlog[j] = c => j = i
    BY <1>0, <2>1 DEF Owned, Distinct
  <2>3. Back = {<<"backlog", i>>}
    BY <2>1, <2>2
  <2>4. /\ c \notin Elements(queue) /\ acc.conn # c
        /\ (\A w \in Worker : held[w] # c) /\ conn[c] = "open"
    BY <1>4 DEF Owned
  <2>5. Owners(c) = {<<"backlog", i>>}
    BY <1>1, <1>2, <2>3, <2>4
  <2> QED
    BY <1>3, <2>4, <2>5
<1>5. CASE c \in Elements(queue)
  <2>1. PICK i \in DOMAIN queue : queue[i] = c
    BY <1>5 DEF Elements
  <2>2. \A j \in DOMAIN queue : queue[j] = c => j = i
    BY <1>0, <2>1 DEF Owned, Distinct
  <2>3. Buf = {<<"queue", i>>}
    BY <2>1, <2>2
  <2>4. /\ c \notin Elements(backlog) /\ acc.conn # c
        /\ (\A w \in Worker : held[w] # c) /\ conn[c] = "open"
    BY <1>5 DEF Owned
  <2>5. Owners(c) = {<<"queue", i>>}
    BY <1>1, <1>2, <2>3, <2>4
  <2> QED
    BY <1>3, <2>4, <2>5
<1>6. CASE \E w \in Worker : held[w] = c
  <2>1. PICK w \in Worker : held[w] = c
    BY <1>6
  <2>2. \A v \in Worker : held[v] = c => v = w
    BY <2>1, ConnAssumption DEF Owned
  <2>3. Work = {<<"worker", w>>}
    BY <2>1, <2>2
  <2>4. /\ c \notin Elements(backlog) /\ c \notin Elements(queue)
        /\ acc.conn # c /\ conn[c] = "open"
    BY <2>1, ConnAssumption DEF Owned
  <2>5. Owners(c) = {<<"worker", w>>}
    BY <1>1, <1>2, <2>3, <2>4
  <2> QED
    BY <1>3, <2>4, <2>5
<1>7. CASE acc.conn = c
  <2>1. /\ c \notin Elements(backlog) /\ c \notin Elements(queue)
        /\ (\A w \in Worker : held[w] # c) /\ conn[c] = "open"
    BY <1>7, ConnAssumption DEF Owned
  <2>2. Owners(c) = {<<"start", 0>>}
    BY <1>1, <1>2, <1>7, <2>1
  <2> QED
    BY <1>3, <2>1, <2>2
<1>8. CASE /\ c \notin Elements(backlog) /\ c \notin Elements(queue)
           /\ acc.conn # c /\ \A w \in Worker : held[w] # c
  <2>1. conn[c] # "open"
    BY <1>8 DEF Owned
  <2>2. Owners(c) = {}
    BY <1>1, <1>2, <1>8
  <2> QED
    BY <2>1, <2>2, FS_EmptySet
<1> QED
  BY <1>4, <1>5, <1>6, <1>7, <1>8

-----------------------------------------------------------------------------
\* Requests and their answers.

\* One request more is sent,
LEMMA OneSent ==
    ASSUME NEW a \in Seq(0 .. 4), NEW m \in Seq(Request), NEW i \in Seq(Request),
           NEW s \in Seq(Request), NEW r \in Request
    PROVE  /\ Behind(a, i, s) => Behind(a, Append(i, r), Append(s, r))
           /\ Between(a, m, i, s)
                 => Between(a, m, Append(i, r), Append(s, r))
<1> DEFINE j == Append(i, r)
           t == Append(s, r)
<1>1. /\ Len(a) \in Nat /\ Len(m) \in Nat /\ Len(i) \in Nat /\ Len(s) \in Nat
      /\ Len(j) = Len(i) + 1 /\ Len(t) = Len(s) + 1
      /\ \A k \in 1 .. Len(i) : j[k] = i[k]
      /\ \A k \in 1 .. Len(s) : t[k] = s[k]
      /\ j[Len(i) + 1] = r /\ t[Len(s) + 1] = r
  BY AppendElements
<1> HIDE DEF j, t
<1>2. ASSUME Behind(a, i, s) PROVE Behind(a, j, t)
  <2>1. ASSUME NEW k \in 1 .. Len(j) PROVE j[k] = t[Len(t) - Len(j) + k]
    <3>1. CASE k \in 1 .. Len(i)
      <4>1. Len(s) - Len(i) + k \in 1 .. Len(s)
        BY <1>1, <1>2, <3>1 DEF Behind
      <4>2. Len(t) - Len(j) + k = Len(s) - Len(i) + k
        BY <1>1
      <4> QED
        BY <1>1, <1>2, <3>1, <4>1, <4>2 DEF Behind
    <3>2. CASE k = Len(i) + 1
      BY <1>1, <3>2
    <3> QED
      BY <1>1, <3>1, <3>2
  <2> QED
    BY <1>1, <1>2, <2>1 DEF Behind
<1>3. ASSUME Between(a, m, i, s) PROVE Between(a, m, j, t)
  <2>1. \A k \in 1 .. Len(m) : Len(a) + k \in 1 .. Len(s)
    BY <1>1, <1>3 DEF Between
  <2>2. Len(a) + Len(m) + Len(j) = Len(t)
    <3>1. Len(a) + Len(m) + Len(i) = Len(s)
      BY <1>3 DEF Between
    <3> QED
      BY <1>1, <3>1
  <2>3. \A k \in 1 .. Len(m) : m[k] = t[Len(a) + k]
    BY <1>1, <1>3, <2>1 DEF Between
  <2> QED
    BY <2>2, <2>3 DEF Between
<1> QED
  BY <1>2, <1>3 DEF j, t

\* what is on its way is decoded,
LEMMA AllDecoded ==
    ASSUME NEW a \in Seq(0 .. 4), NEW i \in Seq(Request), NEW s \in Seq(Request),
           Behind(a, i, s), Between(a, <<>>, i, s)
    PROVE  Between(a, i, <<>>, s) /\ Behind(a, <<>>, s)
<1>1. Len(a) \in Nat /\ Len(i) \in Nat /\ Len(s) \in Nat /\ Len(<<>>) = 0
  OBVIOUS
<1>2. Len(a) + Len(i) = Len(s)
  BY <1>1 DEF Between
<1>3. \A k \in 1 .. Len(i) : i[k] = s[Len(a) + k]
  <2>1. Len(s) - Len(i) = Len(a)
    BY <1>1, <1>2
  <2> QED
    BY <2>1 DEF Behind
<1> QED
  BY <1>1, <1>2, <1>3 DEF Behind, Between

\* and the first of what is decoded is answered.
LEMMA OneAnswered ==
    ASSUME NEW a \in Seq(0 .. 4), NEW m \in Seq(Request), NEW i \in Seq(Request),
           NEW s \in Seq(Request), NEW code \in 0 .. 4, m # <<>>,
           Behind(a, i, s), Between(a, m, i, s)
    PROVE  /\ Head(m) = s[Len(a) + 1]
           /\ Behind(Append(a, code), i, s)
           /\ Between(Append(a, code), Tail(m), i, s)
<1> DEFINE b == Append(a, code)
           n == Tail(m)
<1>1. /\ Len(a) \in Nat /\ Len(i) \in Nat /\ Len(s) \in Nat
      /\ Len(m) \in Nat \ {0} /\ Head(m) = m[1]
      /\ Len(b) = Len(a) + 1 /\ Len(n) = Len(m) - 1
  BY AppendElements, HeadAndTail
<1>0. \A k \in 1 .. Len(m) - 1 : n[k] = m[k + 1]
  BY HeadAndTail
<1> HIDE DEF b, n
<1>2. Head(m) = s[Len(a) + 1]
  BY <1>1 DEF Between
<1>3. Len(b) + Len(n) + Len(i) = Len(s) /\ Len(b) + Len(i) <= Len(s)
  <2> DEFINE x == Len(a)  y == Len(m)  z == Len(i)  u == Len(s)
  <2>1. x + y + z = u
    BY DEF Between
  <2>2. x \in Nat /\ y \in Nat /\ y # 0 /\ z \in Nat /\ u \in Nat
    BY <1>1
  <2>3. Len(b) = x + 1 /\ Len(n) = y - 1
    BY <1>1
  <2> HIDE DEF x, y, z, u
  <2>4. (x + 1) + (y - 1) + z = u /\ (x + 1) + z <= u
    BY <2>1, <2>2
  <2> QED
    BY <2>3, <2>4 DEF x, y, z, u
<1>4. ASSUME NEW k \in 1 .. Len(n) PROVE n[k] = s[Len(b) + k]
  <2>1. k + 1 \in 1 .. Len(m) /\ Len(a) + (k + 1) = Len(b) + k
    BY <1>1
  <2> QED
    BY <1>0, <1>1, <2>1 DEF Between
<1>5. Behind(b, i, s) /\ Between(b, n, i, s)
  BY <1>3, <1>4 DEF Behind, Between
<1> QED
  BY <1>2, <1>5 DEF b, n

LEMMA NothingDecoded ==
    ASSUME Types, Works, NEW w \in Worker, worker[w] # "serving"
    PROVE  msgs[w] = <<>>
  BY DEF Works

\* A worker without requests takes the connection c, which nobody had.
LEMMA AskedOfTaken ==
    ASSUME Types, Works, Asked, NEW w \in Worker, NEW c \in Conn,
           worker[w] \in {"asking", "waiting"},
           conn[c] = "open", \A v \in Worker : held[v] # c,
           held' = [held EXCEPT ![w] = c],
           UNCHANGED <<msgs, answers, input, sent, conn>>
    PROVE  Asked'
<1>1. held[w] = NoConn /\ msgs[w] = <<>>
  BY DEF Works
<1>2. held'[w] = c /\ \A v \in Worker \ {w} : held'[v] = held[v]
  BY DEF Types
<1>3. Between(answers[c], msgs[w], input[c], sent[c])
  BY <1>1 DEF Asked
<1> QED
  BY <1>1, <1>2, <1>3, ConnAssumption DEF Asked

\* A worker closes its connection and forgets its requests.
LEMMA AskedOfEnded ==
    ASSUME Types, Asked, NEW w \in Worker,
           held' = [held EXCEPT ![w] = NoConn],
           \A v \in Worker \ {w} : msgs'[v] = msgs[v],
           \A c \in Conn : conn'[c] = IF c = held[w] THEN "closed" ELSE conn[c],
           UNCHANGED <<answers, input, sent>>
    PROVE  Asked'
<1>1. held'[w] = NoConn /\ \A v \in Worker \ {w} : held'[v] = held[v]
  BY DEF Types
<1> QED
  BY <1>1, ConnAssumption DEF Asked

\* What the answer to a request changes.
LEMMA AnswerEffect ==
    ASSUME Types, NEW w \in Worker, NEW c \in Conn, NEW rs \in Seq(Request),
           Answers(w, c, rs)
    PROVE  /\ answers'[c] = Append(answers[c], Dispatch(Head(rs)))
           /\ msgs'[w] = Tail(rs)
           /\ \/ worker[w] = "reading" /\ rs = input[c] /\ input'[c] = <<>>
              \/ worker[w] = "serving" /\ rs = msgs[w] /\ input'[c] = input[c]
           /\ \A d \in Conn \ {c} : answers'[d] = answers[d] /\ input'[d] = input[d]
           /\ \A v \in Worker \ {w} : msgs'[v] = msgs[v]
           /\ held[w] = c /\ rs # <<>>
           /\ UNCHANGED <<services, acc, sent, held, conn>>
<1>1. /\ held[w] = c /\ rs # <<>>
      /\ UNCHANGED <<services, acc, sent, held, conn>>
      /\ answers' = [answers EXCEPT ![c] = Append(@, Dispatch(Head(rs)))]
      /\ msgs' = [msgs EXCEPT ![w] = Tail(rs)]
      /\ \/ /\ worker[w] = "reading" /\ rs = input[c]
            /\ input' = [input EXCEPT ![c] = <<>>]
         \/ worker[w] = "serving" /\ rs = msgs[w] /\ input' = input
  BY DEF Answers, Answer, serverVars
<1> QED
  BY <1>1 DEF Types

LEMMA AskedOfAnswered ==
    ASSUME Types, Works, Owned, Asked, NEW w \in Worker, NEW c \in Conn,
           NEW rs \in Seq(Request), Answers(w, c, rs)
    PROVE  /\ Asked'
           /\ Head(rs) = sent[c][Len(answers[c]) + 1]
<1> DEFINE code == Dispatch(Head(rs))
<1>1. /\ answers[c] \in Seq(0 .. 4) /\ input[c] \in Seq(Request)
      /\ sent[c] \in Seq(Request) /\ msgs[w] \in Seq(Request) /\ code \in 0 .. 4
      /\ <<>> \in Seq(Request)
  BY DispatchIsCode DEF Types
<1>2. /\ Behind(answers[c], input[c], sent[c])
      /\ Between(answers[c], msgs[w], input[c], sent[c])
  BY AnswerEffect DEF Asked
<1>3. /\ Behind(answers[c], input'[c], sent[c])
      /\ Between(answers[c], rs, input'[c], sent[c])
      /\ input'[c] \in Seq(Request)
  <2>1. CASE worker[w] = "reading" /\ rs = input[c] /\ input'[c] = <<>>
    <3>1. msgs[w] = <<>>
      BY <2>1, NothingDecoded
    <3> QED
      BY <1>1, <1>2, <2>1, <3>1, AllDecoded
  <2>2. CASE worker[w] = "serving" /\ rs = msgs[w] /\ input'[c] = input[c]
    BY <1>1, <1>2, <2>2
  <2> QED
    BY <2>1, <2>2, AnswerEffect
<1> HIDE DEF code
<1>4. /\ Head(rs) = sent[c][Len(answers[c]) + 1]
      /\ Behind(Append(answers[c], code), input'[c], sent[c])
      /\ Between(Append(answers[c], code), Tail(rs), input'[c], sent[c])
  BY <1>1, <1>3, OneAnswered, AnswerEffect
<1>5. /\ Behind(answers'[c], input'[c], sent'[c])
      /\ Between(answers'[c], msgs'[w], input'[c], sent'[c])
  <2>1. answers'[c] = Append(answers[c], code)
    BY AnswerEffect DEF code
  <2>2. msgs'[w] = Tail(rs) /\ sent' = sent
    BY AnswerEffect
  <2> QED
    BY <1>4, <2>1, <2>2
<1>6. \A v \in Worker \ {w} : held[v] # c
  BY AnswerEffect, ConnAssumption DEF Owned
<1> QED
  BY <1>4, <1>5, <1>6, AnswerEffect DEF Asked

LEMMA AskedOfSent ==
    ASSUME Types, Asked, NEW c \in Conn, NEW r \in Request, SendRequest(c, r)
    PROVE  Asked'
<1>1. /\ UNCHANGED <<held, msgs, conn, answers>>
      /\ \A d \in Conn \ {c} : sent'[d] = sent[d] /\ input'[d] = input[d]
      /\ sent'[c] = Append(sent[c], r) /\ input'[c] = Append(input[c], r)
  BY DEF SendRequest, Types, workerVars
<1>2. /\ answers[c] \in Seq(0 .. 4) /\ input[c] \in Seq(Request)
      /\ sent[c] \in Seq(Request) /\ \A w \in Worker : msgs[w] \in Seq(Request)
      /\ <<>> \in Seq(Request)
  BY DEF Types
<1>3. /\ Behind(answers[c], input'[c], sent'[c])
      /\ \A m \in Seq(Request) : Between(answers[c], m, input[c], sent[c])
            => Between(answers[c], m, input'[c], sent'[c])
  BY <1>1, <1>2, OneSent DEF Asked
<1> QED
  BY <1>1, <1>2, <1>3 DEF Asked

\* Steps that move no request; a closed connection stays closed.
LEMMA AskedStays ==
    ASSUME Asked, UNCHANGED <<held, msgs, answers, input, sent>>,
           \A c \in Conn : conn'[c] # "closed" => conn[c] # "closed"
    PROVE  Asked'
  BY DEF Asked

LEMMA NextAsked ==
    Types /\ Starts /\ Works /\ Owned /\ Asked /\ [Next]_vars => Asked'
<1> SUFFICES ASSUME Types, Starts, Works, Owned, Asked, [Next]_vars
             PROVE  Asked'
  OBVIOUS
<1>1. CASE StartsOn
  BY <1>1, AskedStays DEF StartsOn, workerVars, clientVars
<1>2. CASE StartWorkers \/ Accept \/ Puts
  BY <1>2, AskedStays DEF StartWorkers, Accept, Puts, workerVars, clientVars
<1>3. CASE AcceptLate \/ AcceptFails \/ Stop
  <2>1. \A c \in Conn : conn'[c] # "closed" => conn[c] # "closed"
    BY <1>3, ClosedType DEF AcceptLate, AcceptFails, Stop
  <2> QED
    BY <1>3, <2>1, AskedStays DEF AcceptLate, AcceptFails, Stop, workerVars, clientVars
<1>4. ASSUME NEW w \in Worker, HandsTo(w) PROVE Asked'
  <2>1. /\ acc.conn \in Conn /\ worker[w] = "waiting"
        /\ UNCHANGED <<msgs, answers, input, sent, conn>>
        /\ held' = [held EXCEPT ![w] = acc.conn]
    BY <1>4, HeadAndTail DEF HandsTo, Starts, Works, Types, clientVars
  <2>2. conn[acc.conn] = "open" /\ \A v \in Worker : held[v] # acc.conn
    BY <2>1, ConnAssumption DEF Owned
  <2> QED
    BY <2>1, <2>2, AskedOfTaken
<1>5. ASSUME NEW w \in Worker, Takes(w) PROVE Asked'
  <2>1. PICK c \in Conn : /\ held' = [held EXCEPT ![w] = c]
                          /\ acc.conn = c \/ c \in Elements(queue)
    <3>1. CASE TakeParked(w)
      BY <3>1 DEF TakeParked, Starts, Types
    <3>2. CASE TakeQueued(w)
      BY <3>2, HeadAndTail DEF TakeQueued, Types
    <3> QED
      BY <1>5, <3>1, <3>2 DEF Takes
  <2>2. conn[c] = "open" /\ \A v \in Worker : held[v] # c
    BY <2>1, ConnAssumption DEF Owned
  <2>3. worker[w] = "asking" /\ UNCHANGED <<msgs, answers, input, sent, conn>>
    BY <1>5 DEF Takes, clientVars
  <2> QED
    BY <2>1, <2>2, <2>3, AskedOfTaken
<1>6. ASSUME NEW w \in Worker, WaitsFor(w) \/ Goes(w) \/ Turns(w) PROVE Asked'
  BY <1>6, AskedStays DEF WaitsFor, Goes, Turns, clientVars
<1>7. ASSUME NEW w \in Worker, Refuses(w) \/ Ends(w) PROVE Asked'
  <2>1. /\ held' = [held EXCEPT ![w] = NoConn]
        /\ \A v \in Worker \ {w} : msgs'[v] = msgs[v]
        /\ UNCHANGED <<answers, input, sent>>
    BY <1>7 DEF Refuses, Ends, Finish, Types, clientVars
  <2>2. \A c \in Conn : conn'[c] = IF c = held[w] THEN "closed" ELSE conn[c]
    BY <1>7, ClosedType DEF Refuses, Ends, Finish
  <2> QED
    BY <2>1, <2>2, AskedOfEnded
<1>8. ASSUME NEW w \in Worker, NEW c \in Conn, NEW rs \in Seq(Request),
             Answers(w, c, rs)
      PROVE  Asked'
  BY <1>8, AskedOfAnswered
<1>9. ASSUME NEW c \in Conn, Connect(c) PROVE Asked'
  <2>1. \A d \in Conn : conn'[d] # "closed" => conn[d] # "closed"
    BY <1>9 DEF Connect, Types
  <2> QED
    BY <1>9, <2>1, AskedStays DEF Connect, workerVars, clientVars
<1>10. ASSUME NEW c \in Conn, Leave(c) PROVE Asked'
  BY <1>10, AskedStays DEF Leave, workerVars
<1>11. ASSUME NEW c \in Conn, NEW r \in Request, SendRequest(c, r) PROVE Asked'
  BY <1>11, AskedOfSent
<1>12. CASE UNCHANGED vars
  BY <1>12, AskedStays DEF vars, workerVars, clientVars
<1> QED
  BY Steps, <1>1, <1>2, <1>3, <1>4, <1>5, <1>6, <1>7, <1>8, <1>9, <1>10, <1>11,
     <1>12

\* Answers and requests are only ever appended, and services come before.
LEMMA NextTold ==
    Types /\ Starts /\ Works /\ Owned /\ Asked /\ Told /\ [Next]_vars => Told'
<1> SUFFICES ASSUME Types, Starts, Works, Owned, Asked, Told, [Next]_vars
             PROVE  Told'
  OBVIOUS
<1>1. ASSUME UNCHANGED <<answers, sent>>, acc'.at = "new" => acc.at = "new",
             acc.at # "new" => UNCHANGED services
      PROVE  Told'
  <2>1. CASE acc.at = "new"
    <3>1. \A c \in Conn : answers[c] = <<>>
      BY <2>1 DEF Told
    <3>2. Len(<<>>) = 0
      OBVIOUS
    <3> QED
      BY <1>1, <3>1, <3>2 DEF Told
  <2>2. CASE acc.at # "new"
    BY <1>1, <2>2, DispatchStays DEF Told
  <2> QED
    BY <2>1, <2>2
<1>2. CASE StartsOn
  <2>1. acc'.at = "new" => acc.at = "new"
    BY <1>2 DEF StartsOn
  <2> QED
    BY <1>1, <1>2, <2>1 DEF StartsOn, clientVars
<1>3. CASE StartWorkers \/ Accept \/ AcceptLate \/ AcceptFails \/ Puts \/ Stop
  <2>1. acc'.at = "new" => acc.at = "new"
    <3>1. CASE Accept
      BY <3>1 DEF Accept, Types
    <3>2. CASE Stop
      BY <3>2 DEF Stop, At
    <3>3. CASE StartWorkers \/ AcceptLate \/ AcceptFails \/ Puts
      BY <3>3 DEF StartWorkers, AcceptLate, AcceptFails, Puts, NextAccept, At
    <3> QED
      BY <1>3, <3>1, <3>2, <3>3
  <2> QED
    BY <1>1, <1>3, <2>1
    DEF StartWorkers, Accept, AcceptLate, AcceptFails, Puts, Stop, clientVars,
        serverVars
<1>4. ASSUME NEW w \in Worker,
             \/ HandsTo(w) \/ Takes(w) \/ WaitsFor(w) \/ Goes(w) \/ Turns(w)
             \/ Refuses(w) \/ Ends(w)
      PROVE  Told'
  <2>1. acc' = acc \/ acc'.at = "accepting"
    BY <1>4
    DEF HandsTo, Takes, TakeParked, TakeQueued, WaitsFor, Goes, Turns, Refuses,
        Ends, Finish, At
  <2> QED
    BY <1>1, <1>4, <2>1
    DEF HandsTo, Takes, WaitsFor, Goes, Turns, Refuses, Ends, Finish, clientVars,
        serverVars
<1>5. ASSUME NEW w \in Worker, NEW c \in Conn, NEW rs \in Seq(Request),
             Answers(w, c, rs)
      PROVE  Told'
  <2>1. acc.at # "new" /\ acc' = acc /\ services' = services /\ sent' = sent
    BY <1>5, AnswerEffect DEF Answers, Starts
  <2>2. /\ Len(answers'[c]) = Len(answers[c]) + 1
        /\ \A i \in 1 .. Len(answers[c]) : answers'[c][i] = answers[c][i]
        /\ answers'[c][Len(answers[c]) + 1] = Dispatch(Head(rs))
        /\ \A d \in Conn \ {c} : answers'[d] = answers[d]
        /\ Len(answers[c]) \in Nat
    <3>1. answers[c] \in Seq(0 .. 4) /\ Dispatch(Head(rs)) \in 0 .. 4
      BY DispatchIsCode DEF Types
    <3>2. /\ answers'[c] = Append(answers[c], Dispatch(Head(rs)))
          /\ \A d \in Conn \ {c} : answers'[d] = answers[d]
      BY <1>5, AnswerEffect
    <3> QED
      BY <3>1, <3>2, AppendElements
  <2>3. ASSUME NEW d \in Conn, NEW i \in 1 .. Len(answers'[d])
        PROVE  answers'[d][i] = Dispatch(sent[d][i])
    <3>1. CASE d # c \/ i \in 1 .. Len(answers[c])
      BY <2>2, <2>3, <3>1 DEF Told
    <3>2. CASE d = c /\ i = Len(answers[c]) + 1
      BY <1>5, <2>2, <3>2, AskedOfAnswered
    <3> QED
      BY <2>2, <2>3, <3>1, <3>2
  <2> QED
    BY <2>1, <2>3, DispatchStays DEF Told
<1>6. ASSUME NEW c \in Conn, Connect(c) \/ Leave(c) PROVE Told'
  BY <1>1, <1>6 DEF Connect, Leave, clientVars, serverVars
<1>7. ASSUME NEW c \in Conn, NEW r \in Request, SendRequest(c, r) PROVE Told'
  <2>1. UNCHANGED <<acc, services, answers>>
    BY <1>7 DEF SendRequest, serverVars
  <2>2. ASSUME NEW d \in Conn, NEW i \in 1 .. Len(answers[d])
        PROVE  sent'[d][i] = sent[d][i]
    <3>1. i \in 1 .. Len(sent[d])
      <4>1. /\ Len(answers[d]) \in Nat /\ Len(input[d]) \in Nat
            /\ Len(sent[d]) \in Nat
        BY DEF Types
      <4>2. Len(answers[d]) + Len(input[d]) <= Len(sent[d])
        BY DEF Asked, Behind
      <4>3. \A x, y, z \in Nat : x + y <= z => x <= z
        OBVIOUS
      <4>4. Len(answers[d]) <= Len(sent[d])
        BY <4>1, <4>2, <4>3
      <4> QED
        BY <4>1, <4>4
    <3>2. sent' = [sent EXCEPT ![c] = Append(@, r)]
      BY <1>7 DEF SendRequest
    <3> QED
      BY <3>1, <3>2, AppendElements DEF Types
  <2> QED
    BY <2>1, <2>2, DispatchStays DEF Told
<1>8. CASE UNCHANGED vars
  BY <1>1, <1>8 DEF vars, clientVars, serverVars
<1> QED
  BY Steps, <1>2, <1>3, <1>4, <1>5, <1>6, <1>7, <1>8

-----------------------------------------------------------------------------
LEMMA NextInv == Inv /\ [Next]_vars => Inv'
  BY NextTypes, NextStarts, NextWorks, NextOwned, NextAsked, NextTold DEF Inv

\* A connection that is open has exactly one owner, whatever accepts, hands
\* over, serves, fails or stops: no two workers serve a client, and none is
\* forgotten by start(), the channel and the workers.
THEOREM OwnedByOne == Spec => []OneOwner
<1>1. Inv => OneOwner
  BY OwnedIsOneOwner DEF Inv
<1> QED
  BY <1>1, InitInv, NextInv, PTL DEF Spec

\* The answers that a client has got are those to its first requests, in their
\* order, whichever of its requests come together and whoever serves it.
THEOREM AnsweredInOrder == Spec => []AnswersInOrder
<1>1. Inv => AnswersInOrder
  <2> SUFFICES ASSUME Inv, NEW c \in Conn
               PROVE  /\ Len(answers[c]) <= Len(sent[c])
                      /\ \A i \in DOMAIN answers[c] :
                            answers[c][i] = Dispatch(sent[c][i])
    BY DEF AnswersInOrder
  <2>1. /\ Len(answers[c]) \in Nat /\ Len(input[c]) \in Nat
        /\ Len(sent[c]) \in Nat /\ DOMAIN answers[c] = 1 .. Len(answers[c])
    BY DEF Inv, Types
  <2>2. Len(answers[c]) + Len(input[c]) <= Len(sent[c])
    BY DEF Inv, Asked, Behind
  <2>3. \A x, y, z \in Nat : x + y <= z => x <= z
    OBVIOUS
  <2>4. Len(answers[c]) <= Len(sent[c])
    BY <2>1, <2>2, <2>3
  <2> QED
    BY <2>1, <2>4 DEF Inv, Told
<1> QED
  BY <1>1, InitInv, NextInv, PTL DEF Spec
=============================================================================
