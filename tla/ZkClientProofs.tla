--------------------------- MODULE ZkClientProofs ---------------------------
(***************************************************************************)
(* The operations of the ZooKeeper client are used while they live, unless *)
(* they are swept or their thread is faster than its notification - for    *)
(* any threads, addresses, changes and lost connections.                   *)
(***************************************************************************)
EXTENDS ZkClient, SequenceTheorems, TLAPS

Kinds == [op : {"data", "children", "poll"}]
           \cup [op : {"create", "delete"}, addr : Addr]

Results ==
    [rc : {"none", "ok", "noNode", "exists", "lost", "closing"}, list : SUBSET Addr]

Requests == [from : Thread, kind : Kinds]

Messages ==
    [event : {"answer", "child", "connected", "expired", "refused"},
     to : Thread, kind : Kinds, result : Results]

Types ==
    /\ requests \in Seq(Requests)
    /\ wire \in Seq(Messages)
    /\ children \in (SUBSET Addr) \cup {NoNode}
    /\ pending \in SUBSET Thread
    /\ notifying \in SUBSET Thread
    /\ gone \in BOOLEAN
    /\ op \in [Thread -> {"none", "live", "freed"}]
    /\ ready \in [Thread -> Results]
    /\ pc \in [Thread -> {"idle", "starting", "failed", "listing", "sending",
                          "waiting", "copied", "watching", "lost"}]

-----------------------------------------------------------------------------
\* Where requests of a thread are, and answers to them, in rq and wr.
Asked(t, rq) == {i \in DOMAIN rq : rq[i].from = t /\ rq[i].kind.op # "poll"}

Answered(t, wr) == {i \in DOMAIN wr : wr[i].to = t /\ wr[i].kind.op # "poll"}

Outstanding(t, rq, wr) == Asked(t, rq) # {} \/ Answered(t, wr) # {}

\* There is one at most.
Single(t, rq, wr) ==
    /\ \A i, j \in Asked(t, rq) : i = j
    /\ \A i, j \in Answered(t, wr) : i = j
    /\ Asked(t, rq) = {} \/ Answered(t, wr) = {}

\* What was in rq and wr has moved on in rq2 and wr2, or is gone.
Flows(rq, wr, rq2, wr2) ==
    /\ rq2 \in Seq(Requests) /\ wr2 \in Seq(Messages)
    /\ \A t \in Thread :
          /\ Single(t, rq, wr) => Single(t, rq2, wr2)
          /\ Outstanding(t, rq2, wr2) => Outstanding(t, rq, wr)

LEMMA AppendAt ==
    ASSUME NEW S, NEW s \in Seq(S), NEW e \in S
    PROVE  /\ Append(s, e) \in Seq(S)
           /\ Len(s) \in Nat /\ DOMAIN s = 1..Len(s)
           /\ DOMAIN Append(s, e) = 1..(Len(s) + 1)
           /\ \A i \in 1..Len(s) : Append(s, e)[i] = s[i]
           /\ Append(s, e)[Len(s) + 1] = e
OBVIOUS

LEMMA TailAt ==
    ASSUME NEW S, NEW s \in Seq(S), s # <<>>
    PROVE  /\ Tail(s) \in Seq(S) /\ Head(s) \in S /\ Head(s) = s[1]
           /\ Len(s) \in Nat \ {0} /\ DOMAIN s = 1..Len(s)
           /\ DOMAIN Tail(s) = 1..(Len(s) - 1)
           /\ \A i \in 1..(Len(s) - 1) : Tail(s)[i] = s[i + 1]
OBVIOUS

\* An event, or what the watcher has asked for, concerns no thread that waits.
LEMMA ToldFlows ==
    ASSUME NEW rq \in Seq(Requests), NEW wr \in Seq(Messages), NEW m \in Messages,
           m.kind.op = "poll"
    PROVE  Flows(rq, wr, rq, Append(wr, m))
<1>1. \A t \in Thread : Answered(t, Append(wr, m)) = Answered(t, wr)
  <2> SUFFICES ASSUME NEW t \in Thread
               PROVE  Answered(t, Append(wr, m)) = Answered(t, wr)
    OBVIOUS
  <2> DEFINE l == Len(wr) + 1
  <2>1. /\ DOMAIN wr = 1..Len(wr) /\ DOMAIN Append(wr, m) = 1..l /\ Len(wr) \in Nat
        /\ \A i \in 1..Len(wr) : Append(wr, m)[i] = wr[i]
        /\ Append(wr, m)[l] = m
    BY AppendAt
  <2>2. l \notin Answered(t, Append(wr, m))
    BY <2>1 DEF Answered
  <2> QED
    BY <2>1, <2>2 DEF Answered
<1> QED
  BY <1>1, AppendAt DEF Flows, Single, Outstanding

LEMMA PollFlows ==
    ASSUME NEW rq \in Seq(Requests), NEW wr \in Seq(Messages), NEW r \in Requests,
           r.kind.op = "poll"
    PROVE  Flows(rq, wr, Append(rq, r), wr)
<1>1. \A t \in Thread : Asked(t, Append(rq, r)) = Asked(t, rq)
  <2> SUFFICES ASSUME NEW t \in Thread
               PROVE  Asked(t, Append(rq, r)) = Asked(t, rq)
    OBVIOUS
  <2> DEFINE l == Len(rq) + 1
  <2>1. /\ DOMAIN rq = 1..Len(rq) /\ DOMAIN Append(rq, r) = 1..l /\ Len(rq) \in Nat
        /\ \A i \in 1..Len(rq) : Append(rq, r)[i] = rq[i]
        /\ Append(rq, r)[l] = r
    BY AppendAt
  <2>2. l \notin Asked(t, Append(rq, r))
    BY <2>1 DEF Asked
  <2> QED
    BY <2>1, <2>2 DEF Asked
<1> QED
  BY <1>1, AppendAt DEF Flows, Single, Outstanding

\* The library's thread takes the oldest.
LEMMA TailFlows ==
    ASSUME NEW rq \in Seq(Requests), NEW wr \in Seq(Messages), wr # <<>>
    PROVE  Flows(rq, wr, rq, Tail(wr))
<1> SUFFICES ASSUME NEW t \in Thread
             PROVE  /\ Single(t, rq, wr) => Single(t, rq, Tail(wr))
                    /\ Outstanding(t, rq, Tail(wr)) => Outstanding(t, rq, wr)
  BY TailAt DEF Flows
<1>1. \A i \in Answered(t, Tail(wr)) : i \in Nat /\ i + 1 \in Answered(t, wr)
  BY TailAt DEF Answered
<1>2. \A i, j \in Answered(t, Tail(wr)) : i + 1 = j + 1 => i = j
  BY <1>1
<1> QED
  BY <1>1, <1>2 DEF Single, Outstanding

\* The oldest request becomes an answer.
LEMMA AnswerFlows ==
    ASSUME NEW rq \in Seq(Requests), NEW wr \in Seq(Messages), NEW m \in Messages,
           rq # <<>>, m.to = Head(rq).from, m.kind = Head(rq).kind
    PROVE  Flows(rq, wr, Tail(rq), Append(wr, m))
<1> DEFINE l == Len(wr) + 1
<1>1. /\ Tail(rq) \in Seq(Requests) /\ Head(rq) = rq[1] /\ 1 \in DOMAIN rq
      /\ DOMAIN rq = 1..Len(rq) /\ DOMAIN Tail(rq) = 1..(Len(rq) - 1)
      /\ Len(rq) \in Nat \ {0}
      /\ \A i \in 1..(Len(rq) - 1) : Tail(rq)[i] = rq[i + 1]
  BY TailAt
<1>2. /\ Append(wr, m) \in Seq(Messages) /\ l \in Nat
      /\ DOMAIN wr = 1..Len(wr) /\ DOMAIN Append(wr, m) = 1..l /\ Len(wr) \in Nat
      /\ \A i \in 1..Len(wr) : Append(wr, m)[i] = wr[i]
      /\ Append(wr, m)[l] = m
  BY AppendAt
<1> SUFFICES ASSUME NEW t \in Thread
             PROVE  /\ Single(t, rq, wr) => Single(t, Tail(rq), Append(wr, m))
                    /\ Outstanding(t, Tail(rq), Append(wr, m)) => Outstanding(t, rq, wr)
  BY <1>1, <1>2 DEF Flows
<1>3. \A i \in Asked(t, Tail(rq)) : i \in Nat /\ i # 0 /\ i + 1 \in Asked(t, rq)
  BY <1>1 DEF Asked
<1>4. \A i \in Answered(t, Append(wr, m)) : i # l => i \in Answered(t, wr)
  BY <1>2 DEF Answered
<1>5. l \in Answered(t, Append(wr, m)) => 1 \in Asked(t, rq)
  BY <1>1, <1>2 DEF Answered, Asked
<1>6. l \in Answered(t, Append(wr, m)) /\ Single(t, rq, wr) =>
         Asked(t, Tail(rq)) = {} /\ Answered(t, wr) = {}
  BY <1>3, <1>5 DEF Single
<1>7. \A i, j \in Asked(t, Tail(rq)) : i + 1 = j + 1 => i = j
  BY <1>3
<1> HIDE DEF l
<1>8. ASSUME Single(t, rq, wr) PROVE Single(t, Tail(rq), Append(wr, m))
  <2>1. CASE l \in Answered(t, Append(wr, m))
    BY <1>4, <1>6, <1>8, <2>1 DEF Single
  <2>2. CASE l \notin Answered(t, Append(wr, m))
    BY <1>3, <1>4, <1>7, <1>8, <2>2 DEF Single
  <2> QED
    BY <2>1, <2>2
<1> QED
  BY <1>3, <1>4, <1>5, <1>8 DEF Outstanding

\* All requests become answers.
LEMMA FailFlows ==
    ASSUME NEW rq \in Seq(Requests), NEW wr \in Seq(Messages), NEW f \in Seq(Messages),
           Len(f) = Len(rq),
           \A i \in 1..Len(rq) : f[i].to = rq[i].from /\ f[i].kind = rq[i].kind
    PROVE  Flows(rq, wr, <<>>, wr \o f)
<1> DEFINE w == wr \o f
           n == Len(wr)
<1>1. /\ w \in Seq(Messages) /\ n \in Nat /\ Len(rq) \in Nat
      /\ DOMAIN w = 1..(n + Len(rq)) /\ DOMAIN wr = 1..n /\ DOMAIN rq = 1..Len(rq)
      /\ \A i \in 1..n : w[i] = wr[i]
      /\ \A i \in (n + 1)..(n + Len(rq)) : w[i] = f[i - n]
  OBVIOUS
<1> HIDE DEF w, n
<1>2. Flows(rq, wr, <<>>, w)
  <2> SUFFICES ASSUME NEW t \in Thread
               PROVE  /\ Single(t, rq, wr) => Single(t, <<>>, w)
                      /\ Outstanding(t, <<>>, w) => Outstanding(t, rq, wr)
    <3>1. <<>> \in Seq(Requests)
      OBVIOUS
    <3> QED
      BY <1>1, <3>1 DEF Flows
  <2>1. Asked(t, <<>>) = {}
    BY DEF Asked
  <2>2. \A i \in Answered(t, w) :
           \/ i \in Answered(t, wr)
           \/ i \in Int /\ i - n \in Asked(t, rq)
    <3> SUFFICES ASSUME NEW i \in Answered(t, w), i \notin Answered(t, wr)
                 PROVE  i \in Int /\ i - n \in Asked(t, rq)
      OBVIOUS
    <3>1. i \in 1..(n + Len(rq)) /\ w[i].to = t /\ w[i].kind.op # "poll"
      BY <1>1 DEF Answered
    <3>2. i \notin 1..n
      BY <1>1, <3>1 DEF Answered
    <3>3. i \in (n + 1)..(n + Len(rq)) /\ i - n \in 1..Len(rq)
      BY <1>1, <3>1, <3>2
    <3>4. w[i] = f[i - n]
      BY <1>1, <3>3
    <3> QED
      BY <1>1, <3>1, <3>3, <3>4 DEF Asked
  <2>3. ASSUME Single(t, rq, wr) PROVE Single(t, <<>>, w)
    <3> SUFFICES ASSUME NEW i \in Answered(t, w), NEW j \in Answered(t, w)
                 PROVE  i = j
      BY <2>1 DEF Single
    <3>1. CASE Asked(t, rq) = {}
      <4>1. i \in Answered(t, wr) /\ j \in Answered(t, wr)
        BY <2>2, <3>1
      <4> QED
        BY <2>3, <4>1 DEF Single
    <3>2. CASE Asked(t, rq) # {}
      <4>0. Answered(t, wr) = {}
        BY <2>3, <3>2 DEF Single
      <4>1. /\ i \in Int /\ i - n \in Asked(t, rq)
            /\ j \in Int /\ j - n \in Asked(t, rq)
        BY <2>2, <4>0
      <4>2. i - n = j - n
        BY <2>3, <4>1 DEF Single
      <4> QED
        BY <1>1, <4>1, <4>2
    <3> QED
      BY <3>1, <3>2
  <2> QED
    BY <2>1, <2>2, <2>3 DEF Outstanding
<1> QED
  BY <1>2 DEF w

-----------------------------------------------------------------------------
\* What is listed lives.
ListedAlive == \A t \in pending : op[t] = "live"

\* An op that is deleted under its thread, or under its notification, has been
\* swept, or its thread was hasty.
DeletedBy ==
    /\ \A t \in Thread :
          pc[t] \in {"sending", "waiting", "copied"} /\ op[t] = "freed" => t \in swept
    /\ \A t \in notifying :
          /\ notifying = {t}
          /\ gone \/ pc[t] \notin {"waiting", "copied"} => t \in swept \cup hasty
    /\ gone => notifying # {}

\* A thread whose op was not swept has one request on its way at most, and while
\* it is, the op lives and has no result.
Awaited ==
    \A t \in Thread \ swept :
        /\ Single(t, requests, wire)
        /\ Outstanding(t, requests, wire) => pc[t] = "waiting"
        /\ pc[t] = "sending" \/ Outstanding(t, requests, wire) =>
              op[t] = "live" /\ ready[t] = None

Inv == Types /\ ListedAlive /\ DeletedBy /\ Awaited /\ OpsUsedAlive

\* What the steps leave alone that concern no op.
opsAlone == <<pending, op, ready, notifying, gone, swept, hasty, misused>>

\* A step that moves requests on, and takes threads that neither ask nor wait to
\* where they do neither.
LEMMA FlowInv ==
    ASSUME Inv, UNCHANGED opsAlone, Flows(requests, wire, requests', wire'),
           children' \in (SUBSET Addr) \cup {NoNode},
           \/ pc' = pc
           \/ \E p \in {"starting", "failed", "listing"} :
                 /\ pc[Discovery] \notin {"sending", "waiting", "copied"}
                 /\ pc' = [pc EXCEPT ![Discovery] = p]
    PROVE  Inv'
<1> USE DEF opsAlone
<1> Discovery \in Thread
  BY DEF Thread
<1>1. /\ pc' \in [Thread -> {"idle", "starting", "failed", "listing", "sending",
                             "waiting", "copied", "watching", "lost"}]
      /\ \A t \in Thread : \/ pc'[t] = pc[t]
                           \/ /\ pc[t] \notin {"sending", "waiting", "copied"}
                              /\ pc'[t] \notin {"sending", "waiting", "copied"}
  BY DEF Inv, Types
<1>2. Types'
  BY <1>1 DEF Inv, Types, Flows
<1>3. ListedAlive' /\ OpsUsedAlive'
  BY DEF Inv, ListedAlive, OpsUsedAlive
<1>4. DeletedBy'
  <2>1. \A t \in Thread :
           pc'[t] \in {"sending", "waiting", "copied"} /\ op[t] = "freed" => t \in swept
    BY <1>1 DEF Inv, DeletedBy
  <2>2. \A t \in notifying :
           /\ notifying = {t}
           /\ gone \/ pc'[t] \notin {"waiting", "copied"} => t \in swept \cup hasty
    BY <1>1 DEF Inv, Types, DeletedBy
  <2> QED
    BY <2>1, <2>2 DEF Inv, DeletedBy
<1>5. Awaited'
  <2> SUFFICES ASSUME NEW t \in Thread, t \notin swept
               PROVE  /\ Single(t, requests', wire')
                      /\ Outstanding(t, requests', wire') =>
                            pc'[t] = "waiting"
                      /\ pc'[t] = "sending" \/ Outstanding(t, requests', wire') =>
                            op[t] = "live" /\ ready[t] = None
    BY DEF Awaited
  <2>1. /\ Single(t, requests, wire) => Single(t, requests', wire')
        /\ Outstanding(t, requests', wire') => Outstanding(t, requests, wire)
    BY DEF Flows
  <2> QED
    BY <1>1, <2>1 DEF Inv, Awaited
<1> QED
  BY <1>2, <1>3, <1>4, <1>5 DEF Inv

LEMMA FlowTrans ==
    ASSUME NEW rq, NEW wr, NEW rq1, NEW wr1, NEW rq2, NEW wr2,
           Flows(rq, wr, rq1, wr1), Flows(rq1, wr1, rq2, wr2)
    PROVE  Flows(rq, wr, rq2, wr2)
BY DEF Flows

LEMMA FlowSame ==
    ASSUME Types PROVE Flows(requests, wire, requests, wire)
BY DEF Types, Flows

\* The messages that are made are messages.
LEMMA ToldType ==
    ASSUME NEW e \in {"child", "connected", "expired", "refused"}
    PROVE  Told(e) \in Messages /\ Told(e).kind.op = "poll"
<1>1. Discovery \in Thread /\ [op |-> "poll"] \in Kinds /\ None \in Results
  BY DEF Thread, Kinds, None, Results
<1> QED
  BY <1>1 DEF Told, Messages

LEMMA AnswerType ==
    ASSUME NEW r \in Requests, NEW result \in Results
    PROVE  /\ Answer(r.from, r.kind, result) \in Messages
           /\ Answer(r.from, r.kind, result).to = r.from
           /\ Answer(r.from, r.kind, result).kind = r.kind
BY DEF Answer, Messages, Requests

LEMMA FailedType ==
    ASSUME Types, NEW rc \in {"lost", "closing"}
    PROVE  /\ Failed(rc) \in Seq(Messages) /\ Len(Failed(rc)) = Len(requests)
           /\ \A i \in 1..Len(requests) :
                 /\ Failed(rc)[i].to = requests[i].from
                 /\ Failed(rc)[i].kind = requests[i].kind
<1> DEFINE n == Len(requests)
           result == [rc |-> rc, list |-> {}]
           f == Failed(rc)
<1>1. n \in Nat /\ DOMAIN requests = 1..n /\ \A i \in 1..n : requests[i] \in Requests
  BY DEF Types
<1>2. result \in Results
  BY DEF Results
<1>3. f = [i \in 1..n |-> Answer(requests[i].from, requests[i].kind, result)]
  BY <1>1 DEF Failed
<1> HIDE DEF n, result, f
<1>4. \A i \in 1..n : /\ f[i] \in Messages
                      /\ f[i].to = requests[i].from /\ f[i].kind = requests[i].kind
  BY <1>1, <1>2, <1>3, AnswerType
<1>5. f \in [1..n -> Messages]
  BY <1>3, <1>4
<1>6. f \in Seq(Messages) /\ Len(f) = n
  BY <1>1, <1>3, <1>5
<1> QED
  BY <1>4, <1>6 DEF f, n

LEMMA NoticeFlows ==
    ASSUME Types, NEW list
    PROVE  Flows(requests, wire, requests, wire \o Notice(list))
<1>1. Told("child") \in Messages /\ Told("child").kind.op = "poll"
  BY ToldType
<1>2. CASE Notice(list) = <<Told("child")>>
  <2>1. wire \o Notice(list) = Append(wire, Told("child"))
    BY <1>1, <1>2 DEF Types
  <2> QED
    BY <1>1, <2>1, ToldFlows DEF Types
<1>3. CASE Notice(list) = <<>>
  <2>1. wire \o Notice(list) = wire
    BY <1>3 DEF Types
  <2> QED
    BY <2>1, FlowSame
<1> QED
  BY <1>2, <1>3 DEF Notice

\* Polls, on what is left of the wire.
LEMMA PollFlow ==
    ASSUME Types, wire # <<>>, Poll, wire' = Tail(wire)
    PROVE  Flows(requests, wire, requests', wire')
<1> DEFINE r == [from |-> Discovery, kind |-> [op |-> "poll"]]
<1>1. r \in Requests /\ r.kind.op = "poll"
  BY DEF Requests, Thread, Kinds
<1>2. Flows(requests, wire, requests, Tail(wire))
  BY TailFlows DEF Types
<1>3. Tail(wire) \in Seq(Messages)
  BY <1>2 DEF Flows
<1>4. Flows(requests, Tail(wire), Append(requests, r), Tail(wire))
  BY <1>1, <1>3, PollFlows DEF Types
<1>5. Flows(requests, wire, Append(requests, r), Tail(wire))
  BY <1>2, <1>4, FlowTrans
<1> QED
  BY <1>2, <1>5 DEF Poll

-----------------------------------------------------------------------------
\* A request is sent by a thread that has none under way.
LEMMA SendFlows ==
    ASSUME NEW rq \in Seq(Requests), NEW wr \in Seq(Messages), NEW r \in Requests,
           ~Outstanding(r.from, rq, wr)
    PROVE  /\ Append(rq, r) \in Seq(Requests)
           /\ \A t \in Thread :
                 /\ Single(t, rq, wr) => Single(t, Append(rq, r), wr)
                 /\ t # r.from => (Outstanding(t, Append(rq, r), wr)
                                      => Outstanding(t, rq, wr))
<1> DEFINE l == Len(rq) + 1
<1>1. /\ Append(rq, r) \in Seq(Requests) /\ Len(rq) \in Nat
      /\ DOMAIN rq = 1..Len(rq) /\ DOMAIN Append(rq, r) = 1..l
      /\ \A i \in 1..Len(rq) : Append(rq, r)[i] = rq[i]
      /\ Append(rq, r)[l] = r
  BY AppendAt
<1>2. ASSUME NEW t \in Thread, t # r.from
      PROVE  Asked(t, Append(rq, r)) = Asked(t, rq)
  <2>1. l \notin Asked(t, Append(rq, r))
    BY <1>1, <1>2 DEF Asked
  <2> QED
    BY <1>1, <2>1 DEF Asked
<1>3. Asked(r.from, Append(rq, r)) \subseteq {l}
  <2>1. Asked(r.from, rq) = {}
    BY DEF Outstanding
  <2> QED
    BY <1>1, <2>1 DEF Asked
<1> QED
  BY <1>1, <1>2, <1>3 DEF Single, Outstanding

\* The answer that is taken from the wire was the only one.
LEMMA TakenAlone ==
    ASSUME NEW rq \in Seq(Requests), NEW wr \in Seq(Messages), wr # <<>>,
           Head(wr).kind.op # "poll", Single(Head(wr).to, rq, wr)
    PROVE  /\ Outstanding(Head(wr).to, rq, wr)
           /\ ~Outstanding(Head(wr).to, rq, Tail(wr))
<1> DEFINE t == Head(wr).to
<1>1. 1 \in Answered(t, wr)
  BY TailAt DEF Answered
<1>2. \A i \in Answered(t, Tail(wr)) : i \in Nat /\ i # 0 /\ i + 1 \in Answered(t, wr)
  BY TailAt DEF Answered
<1>3. \A i \in Answered(t, Tail(wr)) : i + 1 = 1
  BY <1>1, <1>2 DEF Single
<1>4. Answered(t, Tail(wr)) = {}
  BY <1>2, <1>3
<1> QED
  BY <1>1, <1>4 DEF Outstanding, Single

-----------------------------------------------------------------------------
LEMMA AskInv ==
    ASSUME Inv, NEW t \in Thread, Ask(t)
    PROVE  Inv'
<1> USE DEF history, serverVars
<1>1. pc[t] \in {"idle", "listing"}
  BY DEF Ask
<1>2. None \in Results
  BY DEF None, Results
<1>3. Types'
  BY <1>2 DEF Inv, Types, Ask
<1>4. ListedAlive' /\ OpsUsedAlive'
  BY DEF Inv, Types, ListedAlive, OpsUsedAlive, Ask
<1>5. DeletedBy'
  BY <1>1 DEF Inv, Types, DeletedBy, Ask
<1>6. Awaited'
  BY <1>1 DEF Inv, Types, Awaited, Ask
<1> QED
  BY <1>3, <1>4, <1>5, <1>6 DEF Inv

LEMMA SendInv ==
    ASSUME Inv, NEW t \in Thread, NEW kind \in Kinds, Send(t, kind)
    PROVE  Inv'
<1> USE DEF opVars, history
<1> DEFINE r == [from |-> t, kind |-> kind]
<1>1. r \in Requests /\ r.from = t
  BY DEF Requests
<1>2. requests' = Append(requests, r) /\ pc[t] = "sending" /\ wire' = wire
      /\ pc' = [pc EXCEPT ![t] = "waiting"]
  BY DEF Send
<1>3. Types'
  <2>1. requests' \in Seq(Requests)
    BY <1>1, <1>2 DEF Inv, Types
  <2> QED
    BY <1>2, <2>1 DEF Inv, Types, Send
<1>4. ListedAlive' /\ OpsUsedAlive' /\ DeletedBy'
  BY <1>2 DEF Inv, Types, ListedAlive, OpsUsedAlive, DeletedBy, Send
<1>5. Awaited'
  <2>1. CASE t \in swept
    <3> SUFFICES ASSUME NEW u \in Thread, u \notin swept
                 PROVE  /\ Single(u, requests', wire)
                        /\ Outstanding(u, requests', wire) => Outstanding(u, requests, wire)
      BY <1>2, <2>1 DEF Inv, Types, Awaited, Send
    <3> DEFINE l == Len(requests) + 1
    <3>1. /\ Len(requests) \in Nat
          /\ DOMAIN requests = 1..Len(requests) /\ DOMAIN requests' = 1..l
          /\ \A i \in 1..Len(requests) : requests'[i] = requests[i]
          /\ requests'[l] = r
      BY <1>1, <1>2, AppendAt DEF Inv, Types
    <3>2. u # r.from
      BY <1>1, <2>1
    <3>3. l \notin Asked(u, requests')
      BY <3>1, <3>2 DEF Asked
    <3>4. Asked(u, requests') = Asked(u, requests)
      BY <3>1, <3>3 DEF Asked
    <3> QED
      BY <3>4 DEF Single, Outstanding, Inv, Awaited
  <2>2. CASE t \notin swept
    <3>1. ~Outstanding(r.from, requests, wire)
      BY <1>1, <1>2, <2>2 DEF Inv, Awaited
    <3> HIDE DEF r
    <3>2. \A u \in Thread :
             /\ Single(u, requests, wire) => Single(u, requests', wire)
             /\ u # t => (Outstanding(u, requests', wire) => Outstanding(u, requests, wire))
      BY <1>1, <1>2, <3>1, SendFlows DEF Inv, Types
    <3>3. op[t] = "live" /\ ready[t] = None
      BY <1>2, <2>2 DEF Inv, Awaited
    <3> QED
      BY <1>2, <3>2, <3>3 DEF Inv, Types, Awaited, Send
  <2> QED
    BY <2>1, <2>2
<1> QED
  BY <1>3, <1>4, <1>5 DEF Inv

\* A thread that has nothing under way lets its op go.
LEMMA ForgetInv ==
    ASSUME Inv, NEW t \in Thread, Refused(t) \/ Done(t)
    PROVE  Inv'
<1> USE DEF serverVars
<1>1. /\ Forget(t) /\ UNCHANGED <<notifying, swept, requests, wire, children>>
      /\ pc[t] \in {"sending", "copied"}
      /\ \E p \in {"lost", "failed", "idle", "listing", "watching"} :
            pc' = [pc EXCEPT ![t] = p]
  BY DEF Refused, Done
<1>2. PICK p \in {"lost", "failed", "idle", "listing", "watching"} :
            pc' = [pc EXCEPT ![t] = p]
  BY <1>1
<1>3. None \in Results
  BY DEF None, Results
<1>4. Types'
  BY <1>1, <1>2, <1>3 DEF Inv, Types, Forget
<1>5. ListedAlive'
  BY <1>1 DEF Inv, Types, ListedAlive, Forget
<1>6. /\ hasty \subseteq hasty' /\ OpsUsedAlive'
      /\ t \in notifying => t \in swept' \cup hasty'
  <2>1. CASE Refused(t)
    BY <2>1 DEF Refused, Inv, DeletedBy, OpsUsedAlive
  <2>2. CASE Done(t)
    BY <2>2 DEF Done, Inv, OpsUsedAlive
  <2> QED
    BY <2>1, <2>2
<1>7. DeletedBy'
  BY <1>1, <1>2, <1>6 DEF Inv, Types, DeletedBy, Forget
<1>8. Awaited'
  <2>1. t \in swept \/ ~Outstanding(t, requests, wire)
    BY <1>1 DEF Inv, Awaited
  <2> QED
    BY <1>1, <1>2, <2>1 DEF Inv, Types, Awaited, Forget
<1> QED
  BY <1>4, <1>5, <1>6, <1>7, <1>8 DEF Inv

\* It copies the result, or finds its op deleted.
LEMMA UseInv ==
    ASSUME Inv, NEW t \in Thread, Woken(t) \/ UseFreed(t)
    PROVE  Inv'
<1> USE DEF opVars, serverVars, history
<1>1. /\ UNCHANGED <<opVars, serverVars, swept, hasty>>
      /\ t \in swept \/ ~Outstanding(t, requests, wire)
      /\ pc[t] \in {"waiting", "copied"}
      /\ \/ pc' = [pc EXCEPT ![t] = "copied"] /\ op[t] = "live"
         \/ pc' = [pc EXCEPT ![t] = "lost"] /\ t \in swept
      /\ misused' \in {misused, misused \cup {t}} /\ (misused' = misused \/ t \in swept)
  BY DEF Woken, UseFreed, Inv, DeletedBy, Awaited
<1>2. Types'
  BY <1>1 DEF Inv, Types
<1>3. ListedAlive' /\ OpsUsedAlive'
  BY <1>1 DEF Inv, ListedAlive, OpsUsedAlive
<1>4. DeletedBy'
  BY <1>1 DEF Inv, Types, DeletedBy
<1>5. Awaited'
  BY <1>1 DEF Inv, Types, Awaited
<1> QED
  BY <1>2, <1>3, <1>4, <1>5 DEF Inv

-----------------------------------------------------------------------------
\* cleanupPendingOps(), in a callback or in close().
LEMMA SweepInv ==
    ASSUME Inv, Sweep, UNCHANGED <<ready, notifying, pc, children>>,
           Flows(requests, wire, requests', wire')
    PROVE  Inv'
<1>1. Types'
  BY DEF Inv, Types, Flows, Sweep
<1>2. swept \subseteq swept' /\ pending \subseteq swept'
  BY DEF Inv, Types, ListedAlive, Sweep
<1>3. ListedAlive' /\ OpsUsedAlive'
  BY <1>2 DEF Inv, ListedAlive, OpsUsedAlive, Sweep
<1>4. DeletedBy'
  BY <1>2 DEF Inv, Types, DeletedBy, Sweep
<1>5. Awaited'
  <2> SUFFICES ASSUME NEW t \in Thread, t \notin swept'
               PROVE  /\ Single(t, requests', wire')
                      /\ Outstanding(t, requests', wire') => pc[t] = "waiting"
                      /\ pc[t] = "sending" \/ Outstanding(t, requests', wire') =>
                            op'[t] = "live" /\ ready[t] = None
    BY DEF Awaited
  <2>1. t \notin swept /\ op'[t] = op[t]
    BY <1>2 DEF Sweep
  <2>2. /\ Single(t, requests, wire) => Single(t, requests', wire')
        /\ Outstanding(t, requests', wire') => Outstanding(t, requests, wire)
    BY DEF Flows
  <2> QED
    BY <2>1, <2>2 DEF Inv, Awaited
<1> QED
  BY <1>1, <1>3, <1>4, <1>5 DEF Inv

\* A result is written into an op that lives, or its thread was swept.
LEMMA OpCompletionInv ==
    ASSUME Inv, wire # <<>>, notifying = {}, Head(wire).kind.op # "poll",
           OpCompletion(Head(wire)), wire' = Tail(wire), UNCHANGED <<pc, children>>
    PROVE  Inv'
<1> DEFINE m == Head(wire)
           t == m.to
<1>1. m \in Messages /\ t \in Thread /\ m.result \in Results
  <2>1. wire \in Seq(Messages)
    BY DEF Inv, Types
  <2>2. m \in Messages
    BY <2>1, TailAt
  <2> QED
    BY <2>2 DEF Messages
<1>2. /\ Flows(requests, wire, requests, Tail(wire))
      /\ UNCHANGED <<pending, op, gone, swept, hasty, requests>>
  BY TailFlows DEF Inv, Types, OpCompletion
<1>3. t \in swept \/ /\ pc[t] = "waiting" /\ op[t] = "live"
                     /\ ~Outstanding(t, requests, Tail(wire))
  BY <1>1, TakenAlone DEF Inv, Types, Awaited
<1>4. /\ \/ ready' = [ready EXCEPT ![t] = m.result] /\ notifying' = {t}
         \/ ready' = ready /\ notifying' = notifying
      /\ misused' = misused \/ (misused' = misused \cup {t} /\ t \in swept)
  BY <1>3 DEF OpCompletion, Completion
<1> HIDE DEF m, t
<1>5. Types'
  BY <1>1, <1>2, <1>4 DEF Inv, Types, Flows
<1>6. ListedAlive' /\ OpsUsedAlive'
  BY <1>2, <1>4 DEF Inv, ListedAlive, OpsUsedAlive
<1>7. DeletedBy'
  <2>1. ~gone
    BY DEF Inv, DeletedBy
  <2>2. CASE notifying' = {t}
    BY <1>2, <1>3, <2>1, <2>2 DEF Inv, DeletedBy
  <2>3. CASE notifying' = notifying
    BY <1>2, <2>1, <2>3 DEF Inv, DeletedBy
  <2> QED
    BY <1>4, <2>2, <2>3
<1>8. Awaited'
  <2> SUFFICES ASSUME NEW u \in Thread, u \notin swept
               PROVE  /\ Single(u, requests, Tail(wire))
                      /\ Outstanding(u, requests, Tail(wire)) => pc[u] = "waiting"
                      /\ pc[u] = "sending" \/ Outstanding(u, requests, Tail(wire)) =>
                            op[u] = "live" /\ ready'[u] = None
    BY <1>2 DEF Awaited
  <2>1. /\ Single(u, requests, wire) => Single(u, requests, Tail(wire))
        /\ Outstanding(u, requests, Tail(wire)) => Outstanding(u, requests, wire)
    BY <1>2 DEF Flows
  <2>2. u # t => ready'[u] = ready[u]
    BY <1>1, <1>4 DEF Inv, Types
  <2>3. CASE u = t
    BY <1>3, <2>1, <2>3 DEF Inv, Awaited
  <2>4. CASE u # t
    BY <2>1, <2>2, <2>4 DEF Inv, Awaited
  <2> QED
    BY <2>3, <2>4
<1> QED
  BY <1>5, <1>6, <1>7, <1>8 DEF Inv

LEMMA NotifyInv ==
    ASSUME Inv, Notify
    PROVE  Inv'
<1> USE DEF sessionVars, serverVars
<1>1. UNCHANGED <<pending, op, ready, pc, swept, hasty, requests, wire, children>>
      /\ notifying' = {} /\ gone' = FALSE
  BY DEF Notify
<1>2. Types' /\ ListedAlive' /\ DeletedBy' /\ Awaited'
  BY <1>1 DEF Inv, Types, ListedAlive, DeletedBy, Awaited
<1>3. OpsUsedAlive'
  BY DEF Inv, DeletedBy, OpsUsedAlive, Notify
<1> QED
  BY <1>2, <1>3 DEF Inv

LEMMA CallbackInv ==
    ASSUME Inv, Callback
    PROVE  Inv'
<1> DEFINE m == Head(wire)
<1> USE DEF opVars, history, opsAlone
<1>1. /\ wire # <<>> /\ notifying = {} /\ wire' = Tail(wire)
      /\ UNCHANGED <<pc, children>>
  BY DEF Callback
<1>2. Flows(requests, wire, requests, Tail(wire)) /\ children \in (SUBSET Addr) \cup {NoNode}
  BY <1>1, TailFlows DEF Inv, Types
<1>3. CASE SessionEvent(m.event)
  <2>1. CASE m.event = "expired"
    BY <1>1, <1>2, <1>3, <2>1, SweepInv DEF SessionEvent
  <2>2. CASE m.event # "expired"
    BY <1>1, <1>2, <1>3, <2>2, FlowInv DEF SessionEvent
  <2> QED
    BY <2>1, <2>2
<1>4. CASE ChildEvent(m.event)
  <2>1. Flows(requests, wire, requests', wire')
    BY <1>1, <1>4, PollFlow DEF ChildEvent, Inv
  <2> QED
    BY <1>1, <1>2, <1>4, <2>1, FlowInv DEF ChildEvent
<1>5. CASE WatchChildrenCompletion(m)
  <2>1. Flows(requests, wire, requests', wire')
    BY <1>1, <1>5, PollFlow DEF WatchChildrenCompletion, Inv
  <2> QED
    BY <1>1, <1>2, <1>5, <2>1, FlowInv DEF WatchChildrenCompletion
<1>6. CASE m.kind.op # "poll" /\ OpCompletion(m)
  BY <1>1, <1>6, OpCompletionInv
<1> QED
  BY <1>3, <1>4, <1>5, <1>6 DEF Callback

-----------------------------------------------------------------------------
\* The server's answers.
LEMMA ListType ==
    ASSUME Types
    PROVE  Listed \in SUBSET Addr
BY DEF Types, Listed

LEMMA ServeFlows ==
    ASSUME Inv, Serve
    PROVE  /\ Flows(requests, wire, requests', wire')
           /\ children' \in (SUBSET Addr) \cup {NoNode}
<1> USE DEF Inv
<1> DEFINE r == Head(requests)
           n == wire \o Notice(After(r.kind))
           a == Answer(r.from, r.kind, Result(r.kind))
<1>1. r \in Requests /\ requests # <<>>
  BY TailAt DEF Serve, Types
<1>2. Result(r.kind) \in Results
  BY ListType DEF Result, Results
<1>3. /\ a \in Messages /\ a.to = r.from /\ a.kind = r.kind
  BY <1>1, <1>2, AnswerType
<1>4. Flows(requests, wire, requests, n)
  BY NoticeFlows
<1>5. n \in Seq(Messages) /\ requests \in Seq(Requests)
  BY <1>4 DEF Flows
<1>6. After(r.kind) \in (SUBSET Addr) \cup {NoNode}
  <2>1. r.kind.op = "create" => r.kind.addr \in Addr
    BY <1>1 DEF Requests, Kinds
  <2>2. children = NoNode => Listed = {}
    BY DEF Listed
  <2> QED
    BY <2>1, <2>2, ListType DEF After, Types, Listed
<1>7. requests' = Tail(requests) /\ wire' = n \o <<a>> /\ children' = After(r.kind)
  BY DEF Serve
<1> HIDE DEF r, n, a
<1>8. n \o <<a>> = Append(n, a)
  BY <1>3, <1>5
<1>9. Flows(requests, n, Tail(requests), Append(n, a))
  BY <1>1, <1>3, <1>5, AnswerFlows DEF r
<1> QED
  BY <1>4, <1>6, <1>7, <1>8, <1>9, FlowTrans

LEMMA LoseFlows ==
    ASSUME Inv, Lose
    PROVE  Flows(requests, wire, requests', wire')
<1> USE DEF Inv
<1>1. PICK e \in {"connected", "expired"} :
         wire' = wire \o <<Told(e)>> \o Failed("lost")
  BY DEF Lose
<1> DEFINE w == wire \o <<Told(e)>>
<1>2. Told(e) \in Messages /\ Told(e).kind.op = "poll"
  BY ToldType
<1>3. w = Append(wire, Told(e))
  BY <1>2 DEF Types
<1>4. Flows(requests, wire, requests, w)
  BY <1>2, <1>3, ToldFlows DEF Types
<1>5. w \in Seq(Messages) /\ requests \in Seq(Requests)
  BY <1>4 DEF Flows
<1>6. requests' = <<>> /\ wire' = w \o Failed("lost")
  BY <1>1 DEF Lose
<1> HIDE DEF w
<1>7. Flows(requests, w, <<>>, w \o Failed("lost"))
  BY <1>5, FailFlows, FailedType
<1> QED
  BY <1>4, <1>6, <1>7, FlowTrans

\* Whatever was under way is gone.
LEMMA NothingFlows ==
    ASSUME NEW wr \in Seq(Messages), \A i \in DOMAIN wr : wr[i].kind.op = "poll"
    PROVE  /\ Flows(requests, wire, <<>>, wr)
           /\ requests \in Seq(Requests) => Flows(requests, wire, requests, wr)
<1>1. \A t \in Thread : Answered(t, wr) = {} /\ Asked(t, <<>>) = {}
  BY DEF Answered, Asked
<1>2. <<>> \in Seq(Requests)
  OBVIOUS
<1> QED
  BY <1>1, <1>2 DEF Flows, Single, Outstanding

LEMMA SessionInv ==
    ASSUME Inv, \/ Start \/ Started \/ NotConnected \/ CloseSession \/ Closed
                \/ Establish \/ Serve \/ Change \/ Lose
    PROVE  Inv'
<1> USE DEF opVars, history, serverVars, opsAlone
<1>1. Flows(requests, wire, requests, wire) /\ children \in (SUBSET Addr) \cup {NoNode}
  BY FlowSame DEF Inv, Types
<1>2. <<>> \in Seq(Messages) /\ Flows(requests, wire, <<>>, <<>>)
  <2>1. <<>> \in Seq(Messages) /\ DOMAIN <<>> = {}
    OBVIOUS
  <2> QED
    BY <2>1, NothingFlows
<1>3. CASE Start
  BY <1>1, <1>3, FlowInv DEF Start
<1>4. CASE Started
  BY <1>1, <1>2, <1>4, FlowInv DEF Started, StartFails
<1>5. CASE NotConnected
  BY <1>1, <1>5, FlowInv DEF NotConnected
<1>6. CASE CloseSession
  <2>1. Flows(requests, wire, <<>>, wire \o Failed("closing"))
    BY FailFlows, FailedType DEF Inv, Types
  <2> QED
    BY <1>1, <1>6, <2>1, FlowInv DEF CloseSession
<1>7. CASE Closed
  BY <1>1, <1>7, FlowInv DEF Closed
<1>8. CASE Establish
  <2>1. PICK e \in {"connected", "refused"} : wire' = <<Told(e)>>
    BY <1>8 DEF Establish
  <2>2. Told(e) \in Messages /\ Told(e).kind.op = "poll"
    BY ToldType
  <2>3. <<Told(e)>> \in Seq(Messages) /\ \A i \in DOMAIN <<Told(e)>> : <<Told(e)>>[i] = Told(e)
    BY <2>2
  <2>4. Flows(requests, wire, requests, wire')
    BY <2>1, <2>2, <2>3, NothingFlows DEF Inv, Types
  <2> QED
    BY <1>1, <1>8, <2>4, FlowInv DEF Establish
<1>9. CASE Serve
  BY <1>9, ServeFlows, FlowInv DEF Serve
<1>10. CASE Change
  <2>1. PICK list \in SUBSET Addr : children' = list /\ wire' = wire \o Notice(list)
    BY <1>10 DEF Change
  <2>2. Flows(requests, wire, requests, wire')
    BY <2>1, NoticeFlows DEF Inv
  <2> QED
    BY <1>10, <2>1, <2>2, FlowInv DEF Change
<1>11. CASE Lose
  BY <1>1, <1>11, LoseFlows, FlowInv DEF Lose
<1> QED
  BY <1>3, <1>4, <1>5, <1>6, <1>7, <1>8, <1>9, <1>10, <1>11

-----------------------------------------------------------------------------
LEMMA InitInv == Init => Inv
<1> SUFFICES ASSUME Init PROVE Inv
  OBVIOUS
<1>1. <<>> \in Seq(Requests) /\ <<>> \in Seq(Messages) /\ None \in Results
  BY DEF None, Results
<1>2. Types /\ ListedAlive /\ OpsUsedAlive /\ DeletedBy
  BY <1>1 DEF Init, Types, ListedAlive, OpsUsedAlive, DeletedBy
<1>3. \A t \in Thread : Answered(t, wire) = {} /\ Asked(t, requests) = {}
  BY DEF Init, Answered, Asked
<1>4. Awaited
  BY <1>3 DEF Init, Awaited, Single, Outstanding
<1> QED
  BY <1>2, <1>4 DEF Inv

LEMMA NextInv ==
    ASSUME Inv, [Next]_vars
    PROVE  Inv'
<1> Discovery \in Thread /\ User \subseteq Thread
  BY DEF Thread
<1>1. /\ [op |-> "data"] \in Kinds /\ [op |-> "children"] \in Kinds
      /\ \A a \in Addr : /\ [op |-> "create", addr |-> a] \in Kinds
                         /\ [op |-> "delete", addr |-> a] \in Kinds
  BY DEF Kinds
<1>2. ASSUME NEW t \in Thread, ThreadStep(t)
      PROVE  Inv'
  <2>1. CASE Data(t)
    BY <1>1, <2>1, SendInv DEF Data
  <2>2. CASE Refused(t) \/ Done(t)
    BY <2>2, ForgetInv
  <2>3. CASE Woken(t) \/ UseFreed(t)
    BY <2>3, UseInv
  <2> QED
    BY <1>2, <2>1, <2>2, <2>3 DEF ThreadStep
<1>3. ASSUME NEW t \in User, Ask(t) \/ Create(t) \/ Delete(t)
      PROVE  Inv'
  <2>1. CASE Ask(t)
    BY <2>1, AskInv
  <2>2. CASE Create(t)
    BY <1>1, <2>2, SendInv DEF Create
  <2>3. CASE Delete(t)
    BY <1>1, <2>3, SendInv DEF Delete
  <2> QED
    BY <1>3, <2>1, <2>2, <2>3
<1>4. CASE DiscoveryStep
  <2>1. CASE Start \/ Started \/ NotConnected
    BY <2>1, SessionInv
  <2>2. CASE Ask(Discovery)
    BY <2>2, AskInv
  <2>3. CASE GetChildren
    BY <1>1, <2>3, SendInv DEF GetChildren
  <2> QED
    BY <1>4, <2>1, <2>2, <2>3 DEF DiscoveryStep
<1>5. CASE Close
  <2>1. Flows(requests, wire, requests, wire)
    BY FlowSame DEF Inv
  <2> QED
    BY <1>5, <2>1, SweepInv DEF Close, serverVars
<1>6. CASE CloseSession \/ Closed \/ Establish \/ Serve \/ Change \/ Lose
  BY <1>6, SessionInv
<1>7. CASE UNCHANGED vars
  BY <1>7 DEF vars, opVars, history, serverVars, Inv, Types, ListedAlive, DeletedBy,
              Awaited, OpsUsedAlive
<1> QED
  BY <1>2, <1>3, <1>4, <1>5, <1>6, <1>7, CallbackInv, NotifyInv DEF Next

\* Of all that threads, completions, watches and the closing of the session do to
\* operations, only cleanupPendingOps() and a thread that is faster than its
\* notification delete one that is still used.
THEOREM OnlySweptOrHasty == Spec => []OpsUsedAlive
<1>1. Inv => OpsUsedAlive
  BY DEF Inv
<1> QED
  BY <1>1, InitInv, NextInv, PTL DEF Spec
=============================================================================
