----------------------------- MODULE TaskProofs -----------------------------
(***************************************************************************)
(* Proofs about Task, for any set of frames, of which any may be wait_for()*)
(* calls: a timer never outlives the frame it writes to, a frame is queued *)
(* only where it may be resumed, and wait_for() tells the truth.           *)
(***************************************************************************)
EXTENDS Task, TLAPS

-----------------------------------------------------------------------------
\* The ready queue.

F(f) == <<"frame", f>>
T(w) == <<"timer", w>>

LEMMA EntriesDiffer ==
    /\ \A f, g : F(f) = F(g) => f = g
    /\ \A f, g : T(f) = T(g) => f = g
    /\ \A f, g : F(f) # T(g)
    /\ \A f : F(f) # Dropped /\ T(f) # Dropped
  BY DEF F, T, Dropped

LEMMA EntryKinds ==
    /\ \A f \in Frame : F(f) \in Entry /\ T(f) \in Entry
    /\ Dropped \in Entry
    /\ \A e \in Entry : /\ e[1] = "frame" => e[2] \in Frame /\ e = F(e[2])
                        /\ e[1] = "timer" => e[2] \in Frame /\ e = T(e[2])
  BY DEF F, T, Entry, Dropped

Has(q, e) == \E k \in DOMAIN q : q[k] = e

Once(q, e) == \A j, k \in DOMAIN q : q[j] = e /\ q[k] = e => j = k

\* An e is in the queue, and before every f.
Ahead(q, e, f) ==
    \E j \in DOMAIN q : q[j] = e /\ \A k \in DOMAIN q : q[k] = f => j < k

Cleared(q, E) == [k \in DOMAIN q |-> IF q[k] \in E THEN Dropped ELSE q[k]]

LEMMA TailQueue ==
    ASSUME NEW q \in Seq(Entry), q # <<>>
    PROVE  /\ Tail(q) \in Seq(Entry) /\ Head(q) \in Entry
           /\ Has(q, Head(q))
           /\ \A e : Has(Tail(q), e) => Has(q, e)
           /\ \A e : Once(q, e) => Once(Tail(q), e)
           /\ \A e : Once(q, e) /\ Head(q) = e => ~Has(Tail(q), e)
           /\ \A e, f : Ahead(q, e, f) =>
                 Head(q) # f /\ (Head(q) # e => Ahead(Tail(q), e, f))
<1>1. /\ Len(q) \in Nat \ {0} /\ DOMAIN q = 1 .. Len(q)
      /\ Tail(q) \in Seq(Entry) /\ DOMAIN Tail(q) = 1 .. Len(q) - 1
      /\ q[1] = Head(q) /\ Head(q) \in Entry
      /\ \A k \in 1 .. Len(q) - 1 : Tail(q)[k] = q[k + 1]
  OBVIOUS
<1>2. Has(q, Head(q))
  BY <1>1 DEF Has
<1>3. \A e : Has(Tail(q), e) => Has(q, e)
  BY <1>1 DEF Has
<1>4. \A e : Once(q, e) => Once(Tail(q), e)
  BY <1>1 DEF Once
<1>5. \A e : Once(q, e) /\ Head(q) = e => ~Has(Tail(q), e)
  BY <1>1 DEF Once, Has
<1>6. ASSUME NEW e, NEW f, Ahead(q, e, f)
      PROVE  Head(q) # f /\ (Head(q) # e => Ahead(Tail(q), e, f))
  <2>1. PICK j \in 1 .. Len(q) :
               q[j] = e /\ \A k \in 1 .. Len(q) : q[k] = f => j < k
    BY <1>1, <1>6 DEF Ahead
  <2>2. Head(q) # f
    BY <1>1, <2>1
  <2>3. ASSUME Head(q) # e
        PROVE  Ahead(Tail(q), e, f)
    <3>1. j - 1 \in DOMAIN Tail(q) /\ Tail(q)[j - 1] = e
      BY <1>1, <2>1, <2>3
    <3>2. \A k \in DOMAIN Tail(q) : Tail(q)[k] = f => j - 1 < k
      BY <1>1, <2>1
    <3>. QED  BY <3>1, <3>2 DEF Ahead
  <2>. QED  BY <2>2, <2>3
<1>. QED  BY <1>1, <1>2, <1>3, <1>4, <1>5, <1>6

LEMMA AppendQueue ==
    ASSUME NEW q \in Seq(Entry), NEW x \in Entry
    PROVE  /\ Append(q, x) \in Seq(Entry)
           /\ \A e : Has(Append(q, x), e) <=> Has(q, e) \/ e = x
           /\ \A e : Once(q, e) /\ (e = x => ~Has(q, e))
                        => Once(Append(q, x), e)
           /\ \A e, f : Ahead(q, e, f) => Ahead(Append(q, x), e, f)
           /\ \A f : ~Has(q, f) /\ f # x => Ahead(Append(q, x), x, f)
<1>1. /\ Len(q) \in Nat /\ DOMAIN q = 1 .. Len(q)
      /\ Append(q, x) \in Seq(Entry) /\ DOMAIN Append(q, x) = 1 .. Len(q) + 1
      /\ Append(q, x)[Len(q) + 1] = x
      /\ \A k \in 1 .. Len(q) : Append(q, x)[k] = q[k]
  OBVIOUS
<1>2. \A e : Has(Append(q, x), e) <=> Has(q, e) \/ e = x
  BY <1>1 DEF Has
<1>3. \A e : Once(q, e) /\ (e = x => ~Has(q, e)) => Once(Append(q, x), e)
  BY <1>1 DEF Once, Has
<1>4. \A e, f : Ahead(q, e, f) => Ahead(Append(q, x), e, f)
  BY <1>1 DEF Ahead
<1>5. ASSUME NEW f, ~Has(q, f), f # x
      PROVE  Ahead(Append(q, x), x, f)
  <2>1. \A k \in DOMAIN Append(q, x) : Append(q, x)[k] # f
    BY <1>1, <1>5 DEF Has
  <2>. QED  BY <1>1, <2>1 DEF Ahead
<1>. QED  BY <1>1, <1>2, <1>3, <1>4, <1>5

LEMMA ClearedQueue ==
    ASSUME NEW q \in Seq(Entry), NEW E
    PROVE  /\ Cleared(q, E) \in Seq(Entry)
           /\ \A e : e # Dropped =>
                 /\ Has(Cleared(q, E), e) <=> Has(q, e) /\ e \notin E
                 /\ Once(q, e) => Once(Cleared(q, E), e)
           /\ \A e, f : Ahead(q, e, f) /\ e \notin E /\ f # Dropped
                           => Ahead(Cleared(q, E), e, f)
<1>1. /\ Len(q) \in Nat /\ DOMAIN q = 1 .. Len(q)
      /\ \A k \in 1 .. Len(q) : q[k] \in Entry
      /\ DOMAIN Cleared(q, E) = 1 .. Len(q)
      /\ \A k \in 1 .. Len(q) :
            Cleared(q, E)[k] = IF q[k] \in E THEN Dropped ELSE q[k]
  BY DEF Cleared
<1>2. Cleared(q, E) \in Seq(Entry)
  BY <1>1, EntryKinds DEF Cleared
<1>3. \A e : e # Dropped =>
         /\ Has(Cleared(q, E), e) <=> Has(q, e) /\ e \notin E
         /\ Once(q, e) => Once(Cleared(q, E), e)
  BY <1>1 DEF Has, Once
<1>4. ASSUME NEW e, NEW f, Ahead(q, e, f), e \notin E, f # Dropped
      PROVE  Ahead(Cleared(q, E), e, f)
  BY <1>1, <1>4 DEF Ahead
<1>. QED  BY <1>2, <1>3, <1>4

-----------------------------------------------------------------------------
\* Types.

\* A wait_for() has a task from the start: it is an argument.
TypeInv == TypeOK /\ \A w \in Waiter : child[w] \in Frame \ (Waiter \cup {Main})

LEMMA InitTypes == Init => TypeInv
<1> SUFFICES ASSUME Init PROVE TypeInv
  OBVIOUS
<1>1. ready \in Seq(Entry)
  BY FrameAssumption, EntryKinds DEF Init, F
<1>. QED  BY <1>1, FrameAssumption DEF Init, TypeInv, TypeOK

\* What the steps that suspend or end a frame leave in the queue.
LEMMA SuspendTypes ==
    ASSUME TypeOK, running \in Frame, NEW f \in Frame, Suspend(running, f)
    PROVE  /\ at' \in [Frame -> {"initial", "running", "child", "io", "final",
                                 "gone"}]
           /\ state' \in [Frame -> {"UNSCHEDULE", "SCHEDULE", "SUSPEND"}]
           /\ parent' \in [Frame -> Frame \cup {NoFrame}]
           /\ child' \in [Frame -> Frame \cup {NoFrame}]
           /\ result' \in [Frame -> {"none", "value", "exception"}]
           /\ running' \in Frame \cup {NoFrame}
           /\ \A g \in Frame : at'[g] = "running" <=> running' = g
           /\ ready' \in Seq(Entry)
           /\ \A w \in Frame \ {running} : child'[w] = child[w]
           /\ child'[running] = f
<1>1. Append(ready, F(f)) \in Seq(Entry)
  BY EntryKinds, AppendQueue DEF TypeOK
<1>. QED  BY <1>1, FrameAssumption DEF TypeOK, Suspend, Scheduled, F

LEMMA NextTypes == TypeInv /\ [Next]_vars => TypeInv'
<1> SUFFICES ASSUME TypeInv, [Next]_vars PROVE TypeInv'
  OBVIOUS
<1> USE FrameAssumption DEF frameVars, waitVars
<1>0. /\ ready \in Seq(Entry)
      /\ ready # <<>> => Tail(ready) \in Seq(Entry) /\ Head(ready) \in Entry
      /\ \A f \in Frame : /\ Append(ready, <<"frame", f>>) \in Seq(Entry)
                          /\ Append(ready, <<"timer", f>>) \in Seq(Entry)
      /\ \A E : Without(E) \in Seq(Entry)
  <2>1. \A E : Without(E) = Cleared(ready, E)
    BY DEF Without, Cleared
  <2>. QED  BY <2>1, TailQueue, AppendQueue, ClearedQueue, EntryKinds
            DEF TypeInv, TypeOK, F, T
<1>1. CASE Run
  <2>1. Head(ready)[2] \in Frame
    BY <1>0, <1>1, EntryKinds DEF Run
  <2>. QED  BY <1>0, <1>1, <2>1 DEF Run, TypeInv, TypeOK
<1>2. CASE RunTimer
  BY <1>0, <1>2 DEF RunTimer, TypeInv, TypeOK
<1>3. CASE Skip
  BY <1>0, <1>3 DEF Skip, TypeInv, TypeOK
<1>4. ASSUME NEW w \in Waiter, Expire(w)
      PROVE  TypeInv'
  BY <1>0, <1>4 DEF Expire, TypeInv, TypeOK
<1>5. ASSUME NEW f \in Frame, Wake(f) \/ Start(f)
      PROVE  TypeInv'
  BY <1>0, <1>5 DEF Wake, Start, Scheduled, TypeInv, TypeOK
<1>6. ASSUME NEW f \in Frame, Await(f)
      PROVE  TypeInv'
  <2>1. running \in Frame
    BY <1>6 DEF Await, TypeInv, TypeOK
  <2>. QED  BY <1>6, <2>1, SuspendTypes DEF Await, TypeInv, TypeOK
<1>7. CASE AwaitIo
  BY <1>7 DEF AwaitIo, TypeInv, TypeOK
<1>8. CASE WaitFor
  <2>1. running \in Frame /\ child[running] \in Frame
    BY <1>8 DEF WaitFor, Suspend, TypeInv, TypeOK
  <2>2. child' = child
    BY <1>8, <2>1 DEF WaitFor, Suspend, TypeInv, TypeOK
  <2>3. timer' \in [Waiter -> {"unborn", "armed", "queued", "over"}]
    BY <1>8 DEF WaitFor, TypeInv, TypeOK
  <2>4. Suspend(running, child[running]) /\ TypeOK
    BY <1>8 DEF WaitFor, TypeInv
  <2>. QED  BY <1>8, <2>1, <2>2, <2>3, <2>4, SuspendTypes
            DEF WaitFor, TypeInv, TypeOK
<1>9. ASSUME NEW outcome \in {"value", "exception"}, Return(outcome)
      PROVE  TypeInv'
  <2>1. running \in Frame /\ parent[running] \in Frame \cup {NoFrame}
    BY <1>9 DEF Return, TypeInv, TypeOK
  <2>2. ready' \in Seq(Entry)
    BY <1>0, <1>9, <2>1 DEF Return, FinalSuspend
  <2>3. state' \in [Frame -> {"UNSCHEDULE", "SCHEDULE", "SUSPEND"}]
    BY <1>9, <2>1 DEF Return, FinalSuspend, TypeInv, TypeOK
  <2>. QED  BY <1>9, <2>1, <2>2, <2>3 DEF Return, TypeInv, TypeOK
<1>10. CASE WaitForReturns
  <2>1. running \in Frame /\ parent[running] \in Frame \cup {NoFrame}
    BY <1>10 DEF WaitForReturns, TypeInv, TypeOK
  <2>2. \A p \in Frame :
           Append(Without({<<"timer", running>>}), <<"frame", p>>) \in Seq(Entry)
    BY <1>0, EntryKinds, AppendQueue DEF F
  <2>3. ready' \in Seq(Entry)
    BY <1>0, <1>10, <2>1, <2>2 DEF WaitForReturns
  <2>4. state' \in [Frame -> {"UNSCHEDULE", "SCHEDULE", "SUSPEND"}]
    BY <1>10, <2>1 DEF WaitForReturns, TypeInv, TypeOK
  <2>5. verdict' \in [Waiter -> SUBSET Verdict]
    BY <1>10 DEF WaitForReturns, TypeInv, TypeOK, Verdict
  <2>. QED  BY <1>10, <2>1, <2>3, <2>4, <2>5
            DEF WaitForReturns, Abort, TypeInv, TypeOK
<1>11. ASSUME NEW f \in Frame, Cancel(f)
       PROVE  TypeInv'
  BY <1>0, <1>11 DEF Cancel, TypeInv, TypeOK
<1>12. CASE UNCHANGED vars
  BY <1>12 DEF vars, TypeInv, TypeOK
<1>. QED  BY <1>1, <1>2, <1>3, <1>4, <1>5, <1>6, <1>7, <1>8, <1>9, <1>10,
             <1>11, <1>12 DEF Next, LoopStep, FrameStep

\* Every reachable state is of the right kind, and only the running frame is
\* marked as running, whatever is started, awaited and cancelled.
THEOREM TypeCorrect == Spec => []TypeOK
<1>1. TypeInv => TypeOK
  BY DEF TypeInv
<1>. QED  BY <1>1, InitTypes, NextTypes, PTL DEF Spec

-----------------------------------------------------------------------------
\* What the steps do, with F and T for the entries of the queue.

LEMMA RunStep ==
    ASSUME TypeInv, Run
    PROVE  \E f \in Frame :
              /\ ready # <<>> /\ Head(ready) = F(f) /\ ready' = Tail(ready)
              /\ running = NoFrame /\ running' = f
              /\ at' = [at EXCEPT ![f] = "running"]
              /\ UNCHANGED <<state, parent, child, result, waitVars>>
<1>1. Head(ready) \in Entry
  BY TailQueue DEF TypeInv, TypeOK, Run
<1>. QED  BY <1>1, EntryKinds DEF Run

LEMMA RunTimerStep ==
    ASSUME TypeInv, RunTimer
    PROVE  \E w \in Frame :
              /\ ready # <<>> /\ Head(ready) = T(w) /\ ready' = Tail(ready)
              /\ running = NoFrame
              /\ timer' = [timer EXCEPT ![w] = "over"]
              /\ fired' = [fired EXCEPT ![w] = @ \/ verdict[w] = {}]
              /\ UNCHANGED <<frameVars, running, verdict, first>>
<1>1. Head(ready) \in Entry
  BY TailQueue DEF TypeInv, TypeOK, RunTimer
<1>. QED  BY <1>1, EntryKinds DEF RunTimer

\* A frame is queued behind what is in the queue, or is not.
LEMMA ScheduledQueue ==
    ASSUME TypeInv, NEW f \in Frame
    PROVE  \/ Scheduled(f) = ready
           \/ state[f] = "UNSCHEDULE" /\ Scheduled(f) = Append(ready, F(f))
  BY DEF Scheduled, F

\* WaitForReturns drops the entry of the timer and queues the parent.
LEMMA WaitForReturnsStep ==
    ASSUME TypeInv, WaitForReturns
    PROVE  LET w == running
               q == Cleared(ready, {T(w)})
           IN  /\ w \in Waiter /\ timer[w] # "unborn"
               /\ verdict' = [verdict EXCEPT ![w] =
                     {[ok |-> result[child[w]] = "value",
                       isTimeout |-> fired[w]]}]
               /\ timer' = [timer EXCEPT ![w] = "over"]
               /\ at' = [at EXCEPT ![w] = "final"]
               /\ result' = [result EXCEPT ![w] = "value"]
               /\ ready' = IF parent[w] = NoFrame THEN q
                                                  ELSE Append(q, F(parent[w]))
               /\ running' = NoFrame
               /\ UNCHANGED <<parent, child, fired, first>>
  BY DEF WaitForReturns, Abort, Without, Cleared, F, T

LEMMA CancelStep ==
    ASSUME NEW f \in Frame, Cancel(f)
    PROVE  /\ at[f] \in {"initial", "io", "child"} /\ running # NoFrame
           /\ at' = [at EXCEPT ![f] = "gone"]
           /\ ready' = Cleared(ready, {F(f), T(f)})
           /\ timer' = IF f \in Waiter THEN [timer EXCEPT ![f] = "over"]
                                       ELSE timer
           /\ UNCHANGED <<state, parent, child, result, running, fired, verdict,
                          first>>
  BY DEF Cancel, Without, CallbacksOf, Cleared, F, T

LEMMA ReturnStep ==
    ASSUME TypeInv, NEW outcome \in {"value", "exception"}, Return(outcome)
    PROVE  /\ running \in Frame \ Waiter /\ running' = NoFrame
           /\ result' = [result EXCEPT ![running] = outcome]
           /\ at' = [at EXCEPT ![running] = "final"]
           /\ ready' = IF parent[running] = NoFrame THEN ready
                       ELSE Append(ready, F(parent[running]))
           /\ \A w \in Waiter : first'[w] =
                 IF first[w] = "none" /\ child[w] = running
                 THEN "child" ELSE first[w]
           /\ UNCHANGED <<parent, child, timer, fired, verdict>>
  BY DEF Return, FinalSuspend, F, TypeInv, TypeOK

\* Await and WaitFor.
LEMMA SuspendStep ==
    ASSUME TypeInv, NEW f \in Frame,
           Await(f) \/ (WaitFor /\ f = child[running])
    PROVE  /\ running \in Frame /\ running' = NoFrame
           /\ at[running] = "running" /\ f # running
           /\ at[f] \notin {"running", "final", "gone"} /\ parent[f] = NoFrame
           /\ at' = [at EXCEPT ![running] = "child"]
           /\ parent' = [parent EXCEPT ![f] = running]
           /\ child' = [child EXCEPT ![running] = f]
           /\ \/ ready' = ready
              \/ /\ state[f] = "UNSCHEDULE"
                 /\ ready' = Append(ready, F(f))
           /\ timer' = IF WaitFor THEN [timer EXCEPT ![running] = "armed"]
                                  ELSE timer
           /\ UNCHANGED <<result, fired, verdict, first>>
<1>1. running \in Frame /\ at[running] = "running"
  BY FrameAssumption DEF Await, WaitFor, TypeInv, TypeOK
<1>2. Suspend(running, f)
  BY DEF Await, WaitFor
<1>3. timer' = IF WaitFor THEN [timer EXCEPT ![running] = "armed"] ELSE timer
  BY DEF Await, WaitFor, waitVars
<1>4. UNCHANGED <<fired, verdict, first>>
  BY DEF Await, WaitFor, waitVars
<1>. QED  BY <1>1, <1>2, <1>3, <1>4, ScheduledQueue DEF Suspend

\* Queueing a frame does not concern the timers.
LEMMA FrameQueued ==
    ASSUME NEW q \in Seq(Entry), NEW f \in Frame, NEW r,
           r = q \/ r = Append(q, F(f))
    PROVE  /\ \A g : /\ Once(q, T(g)) => Once(r, T(g))
                     /\ Has(r, T(g)) => Has(q, T(g))
           /\ \A e, g : Ahead(q, e, g) => Ahead(r, e, g)
<1>1. CASE r = q
  BY <1>1
<1>2. CASE r = Append(q, F(f))
  BY <1>2, EntryKinds, EntriesDiffer, AppendQueue
<1>. QED  BY <1>1, <1>2

-----------------------------------------------------------------------------
\* The timers of wait_for(), whatever the program starts and cancels.

\* A timer is in the queue only while it is due, and once.
Timers ==
    /\ \A w \in Waiter :
          /\ timer[w] = "unborn" => verdict[w] = {}
          /\ timer[w] \in {"armed", "queued"} =>
                at[w] \in {"child", "running"} /\ verdict[w] = {}
    /\ \A f \in Frame :
          Has(ready, T(f)) =>
              f \in Waiter /\ timer[f] = "queued" /\ Once(ready, T(f))

\* Timers that do not enter the queue.
LEMMA TimersKept ==
    ASSUME TypeInv, Timers,
           \A f \in Frame : Once(ready, T(f)) => Once(ready', T(f)),
           \A f \in Frame : Has(ready', T(f)) => Has(ready, T(f)),
           \A f \in Waiter : Has(ready', T(f)) => timer'[f] = timer[f],
           \A w \in Waiter :
              \/ timer'[w] = "over"
              \/ timer'[w] = timer[w] /\ at'[w] = at[w] /\ verdict'[w] = verdict[w]
              \/ /\ timer'[w] # "unborn" /\ at'[w] \in {"child", "running"}
                 /\ verdict'[w] = verdict[w] /\ timer[w] # "over"
    PROVE  Timers'
  BY FrameAssumption DEF Timers, TypeInv, TypeOK

LEMMA NextTimers == TypeInv /\ Timers /\ [Next]_vars => Timers'
<1> SUFFICES ASSUME TypeInv, Timers, [Next]_vars PROVE Timers'
  OBVIOUS
<1> USE DEF frameVars, waitVars
<1>0. /\ ready \in Seq(Entry) /\ Waiter \subseteq Frame
      /\ at \in [Frame -> {"initial", "running", "child", "io", "final", "gone"}]
      /\ timer \in [Waiter -> {"unborn", "armed", "queued", "over"}]
      /\ verdict \in [Waiter -> SUBSET Verdict]
      /\ \A f \in Frame : at[f] = "running" <=> running = f
      /\ NoFrame \notin Frame
  BY FrameAssumption DEF TypeInv, TypeOK
<1>1. CASE Run
  <2>1. PICK f \in Frame :
              /\ ready # <<>> /\ Head(ready) = F(f) /\ ready' = Tail(ready)
              /\ at' = [at EXCEPT ![f] = "running"]
              /\ UNCHANGED waitVars
    BY <1>1, RunStep
  <2>2. \A w \in Waiter : timer[w] \in {"armed", "queued"} =>
           at'[w] \in {"child", "running"}
    BY <1>0, <2>1 DEF Timers
  <2>3. \A w \in Waiter : timer[w] = "unborn" => verdict'[w] = {}
    BY <2>1 DEF Timers
  <2>. QED  BY <1>0, <2>1, <2>2, <2>3, TailQueue DEF Timers
<1>2. CASE RunTimer
  <2>1. PICK w \in Frame :
              /\ ready # <<>> /\ Head(ready) = T(w) /\ ready' = Tail(ready)
              /\ timer' = [timer EXCEPT ![w] = "over"]
              /\ UNCHANGED <<frameVars, running, verdict, first>>
    BY <1>2, RunTimerStep
  <2>2. w \in Waiter /\ Once(ready, T(w))
    BY <1>0, <2>1, TailQueue DEF Timers
  <2>3. \A f \in Frame : Has(ready', T(f)) => Has(ready, T(f)) /\ f # w
    BY <1>0, <2>1, <2>2, TailQueue
  <2>4. \A f \in Frame : Once(ready, T(f)) => Once(ready', T(f))
    BY <1>0, <2>1, TailQueue
  <2>. QED  BY <1>0, <2>1, <2>2, <2>3, <2>4, TimersKept
<1>3. CASE Skip
  BY <1>0, <1>3, TailQueue, TimersKept DEF Skip
<1>4. ASSUME NEW w \in Waiter, Expire(w)
      PROVE  Timers'
  <2>1. /\ timer[w] = "armed" /\ timer' = [timer EXCEPT ![w] = "queued"]
        /\ ready' = Append(ready, T(w)) /\ T(w) \in Entry
        /\ UNCHANGED <<at, verdict>>
    BY <1>0, <1>4, EntryKinds DEF Expire, T
  <2>2. ~Has(ready, T(w))
    BY <1>0, <2>1 DEF Timers
  <2>3. \A f \in Frame : Has(ready', T(f)) <=> Has(ready, T(f)) \/ f = w
    BY <1>0, <2>1, AppendQueue, EntriesDiffer
  <2>4. \A f \in Frame : Once(ready, T(f)) => Once(ready', T(f))
    BY <1>0, <2>1, <2>2, AppendQueue, EntriesDiffer
  <2>5. Once(ready', T(w))
    <3>1. Once(ready, T(w))
      BY <2>2 DEF Has, Once
    <3>. QED  BY <1>0, <2>4, <3>1
  <2>. QED  BY <1>0, <2>1, <2>3, <2>4, <2>5 DEF Timers
<1>5. ASSUME NEW f \in Frame, Wake(f) \/ Start(f)
      PROVE  Timers'
  <2>1. ready' = ready \/ ready' = Append(ready, F(f))
    BY <1>5, ScheduledQueue DEF Wake, Start, F
  <2>2. UNCHANGED <<at, timer, verdict>>
    BY <1>5 DEF Wake, Start
  <2>3. \A g \in Frame : /\ Once(ready, T(g)) => Once(ready', T(g))
                         /\ Has(ready', T(g)) => Has(ready, T(g))
    BY <1>0, <2>1, FrameQueued
  <2>. QED  BY <1>0, <2>2, <2>3, TimersKept
<1>6. ASSUME NEW f \in Frame, Await(f) \/ (WaitFor /\ f = child[running])
      PROVE  Timers'
  <2>1. /\ running \in Frame /\ at' = [at EXCEPT ![running] = "child"]
        /\ ready' = ready \/ ready' = Append(ready, F(f))
        /\ timer' = IF WaitFor THEN [timer EXCEPT ![running] = "armed"]
                               ELSE timer
        /\ verdict' = verdict
    BY <1>6, SuspendStep
  <2>2. /\ WaitFor => running \in Waiter /\ timer[running] = "unborn"
        /\ ~WaitFor => running \notin Waiter
    BY <1>6 DEF WaitFor, Await
  <2>4. \A g \in Frame : /\ Once(ready, T(g)) => Once(ready', T(g))
                         /\ Has(ready', T(g)) => Has(ready, T(g))
    BY <1>0, <2>1, FrameQueued
  <2>5. \A g \in Waiter : Has(ready', T(g)) => timer'[g] = timer[g]
    BY <1>0, <2>1, <2>2, <2>4 DEF Timers
  <2>. QED  BY <1>0, <2>1, <2>2, <2>4, <2>5, TimersKept
<1>7. CASE AwaitIo
  BY <1>0, <1>7, TimersKept DEF AwaitIo
<1>8. ASSUME NEW outcome \in {"value", "exception"}, Return(outcome)
      PROVE  Timers'
  <2>1. /\ running \in Frame \ Waiter /\ at' = [at EXCEPT ![running] = "final"]
        /\ ready' = IF parent[running] = NoFrame THEN ready
                    ELSE Append(ready, F(parent[running]))
        /\ UNCHANGED <<timer, verdict>>
    BY <1>8, ReturnStep
  <2>2. parent[running] # NoFrame => F(parent[running]) \in Entry
    BY <2>1, EntryKinds DEF TypeInv, TypeOK
  <2>3. /\ \A g \in Frame : Once(ready, T(g)) => Once(ready', T(g))
        /\ \A g \in Frame : Has(ready', T(g)) => Has(ready, T(g))
    BY <1>0, <2>1, <2>2, AppendQueue, EntriesDiffer
  <2>. QED  BY <1>0, <2>1, <2>3, TimersKept
<1>9. CASE WaitForReturns
  <2> DEFINE w == running  q == Cleared(ready, {T(w)})
  <2>1. /\ w \in Waiter /\ timer' = [timer EXCEPT ![w] = "over"]
        /\ at' = [at EXCEPT ![w] = "final"]
        /\ \A v \in Waiter \ {w} : verdict'[v] = verdict[v]
        /\ ready' = IF parent[w] = NoFrame THEN q ELSE Append(q, F(parent[w]))
    BY <1>0, <1>9, WaitForReturnsStep
  <2>2. parent[w] # NoFrame => F(parent[w]) \in Entry
    BY <1>0, <2>1, EntryKinds DEF TypeInv, TypeOK
  <2>3. /\ q \in Seq(Entry)
        /\ \A g \in Frame : Once(ready, T(g)) => Once(q, T(g))
        /\ \A g \in Frame : Has(q, T(g)) => Has(ready, T(g)) /\ g # w
    BY <1>0, ClearedQueue, EntriesDiffer
  <2> HIDE DEF q
  <2>4. /\ \A g \in Frame : Once(ready, T(g)) => Once(ready', T(g))
        /\ \A g \in Frame : Has(ready', T(g)) => Has(ready, T(g)) /\ g # w
    BY <1>0, <2>1, <2>2, <2>3, AppendQueue, EntriesDiffer
  <2>. QED  BY <1>0, <2>1, <2>4, TimersKept
<1>10. ASSUME NEW f \in Frame, Cancel(f)
       PROVE  Timers'
  <2>1. /\ at' = [at EXCEPT ![f] = "gone"] /\ verdict' = verdict
        /\ ready' = Cleared(ready, {F(f), T(f)})
        /\ timer' = IF f \in Waiter THEN [timer EXCEPT ![f] = "over"] ELSE timer
    BY <1>10, CancelStep
  <2>2. /\ \A g \in Frame : Once(ready, T(g)) => Once(ready', T(g))
        /\ \A g \in Frame : Has(ready', T(g)) => Has(ready, T(g)) /\ g # f
    BY <1>0, <2>1, ClearedQueue, EntriesDiffer
  <2>. QED  BY <1>0, <2>1, <2>2, TimersKept
<1>11. CASE UNCHANGED vars
  BY <1>11 DEF vars, Timers
<1>12. WaitFor => child[running] \in Frame
  BY DEF WaitFor, TypeInv
<1>. QED  BY <1>1, <1>2, <1>3, <1>4, <1>5, <1>6, <1>7, <1>8, <1>9, <1>10,
             <1>11, <1>12 DEF Next, LoopStep, FrameStep

LEMMA InitTimers == Init => Timers
<1> SUFFICES ASSUME Init PROVE Timers
  OBVIOUS
<1>1. ready = <<F(Main)>>
  BY DEF Init, F
<1>2. \A f : ~Has(ready, T(f))
  BY <1>1, EntriesDiffer DEF Has
<1>. QED  BY <1>2 DEF Init, Timers

\* The callback of a timer never writes to a wait_for() that has ended or was
\* destroyed: abort() and the destructors reach it wherever it is.  It needs
\* no discipline of the program.
THEOREM TimerAlive == Spec => []TimerFrameAlive
<1>1. TypeInv /\ Timers => TimerFrameAlive
  BY FrameAssumption DEF Timers, TimerFrameAlive, Queued, Has, T
<1>. QED  BY <1>1, InitTypes, NextTypes, InitTimers, NextTimers, PTL DEF Spec

-----------------------------------------------------------------------------
\* The frames in the queue, when the program is Careful.

\* Where resuming a frame is right.
CanResume(f) ==
    \/ at[f] \in {"initial", "io"}
    \/ /\ at[f] = "child" /\ child[f] \in Frame
       /\ at[child[f]] = "final" /\ result[child[f]] # "none"

Queue ==
    \A f \in Frame : /\ Once(ready, F(f))
                     /\ Has(ready, F(f)) => CanResume(f)

\* The task of a wait_for() is left alone until that runs, and has it as its
\* parent from then on.
Tasks ==
    \A w \in Waiter :
        /\ at[w] = "initial" => timer[w] = "unborn"
        /\ at[w] = "child" => timer[w] # "unborn"
        /\ at[w] # "io"
        /\ timer[w] = "unborn" =>
              /\ at[child[w]] = "initial" /\ ~Has(ready, F(child[w]))
              /\ \A v \in Waiter : child[v] = child[w] => v = w
        /\ timer[w] \in {"armed", "queued"} => parent[child[w]] = w

\* Whoever awaits a task waits for it, until it has ended or is destroyed.
Family ==
    \A f \in Frame :
        parent[f] # NoFrame /\ at[f] \notin {"final", "gone"} =>
            at[parent[f]] = "child" /\ child[parent[f]] = f

CarefulInv == TypeInv /\ Timers /\ Queue /\ Tasks /\ Family

\* A frame that ends or is suspended is not in the queue.
LEMMA RunningNotQueued ==
    ASSUME CarefulInv, NEW f \in Frame,
           at[f] \in {"running", "final", "gone"}
    PROVE  ~Has(ready, F(f))
  BY DEF CarefulInv, Queue, CanResume

\* What the program may start or await is new, if that queues it.
LEMMA CarefulStep ==
    ASSUME Careful, CarefulInv, NEW f \in Frame,
           \/ Start(f) \/ Await(f)
           \/ WaitFor /\ f = child[running],
           state[f] = "UNSCHEDULE"
    PROVE  /\ at[f] = "initial" /\ ~Has(ready, F(f))
           /\ \A w \in Waiter : timer[w] = "unborn" /\ child[w] = f =>
                 WaitFor /\ running = w
<1>1. CASE Start(f) \/ Await(f)
  <2>1. Fresh(f)
    BY <1>1 DEF Start, Await, MayAwait
  <2>. QED  BY <2>1 DEF Fresh, Reserved, Queued, Has, F
<1>2. CASE WaitFor /\ f = child[running]
  BY <1>2 DEF WaitFor, CarefulInv, Tasks
<1>. QED  BY <1>1, <1>2

\* Frames that leave the queue, or stay in it where they are.
LEMMA QueueKept ==
    ASSUME CarefulInv,
           \A f \in Frame : Once(ready, F(f)) => Once(ready', F(f)),
           \A f \in Frame : Has(ready', F(f)) => Has(ready, F(f)),
           child' = child,
           \A f \in Frame : Has(ready', F(f)) => at'[f] = at[f],
           \A f \in Frame : at[f] = "final" =>
              at'[f] = "final" /\ result'[f] = result[f]
    PROVE  Queue'
<1> SUFFICES ASSUME NEW f \in Frame, Has(ready', F(f)) PROVE CanResume(f)'
  BY DEF CarefulInv, Queue
<1>1. CanResume(f) /\ at'[f] = at[f]
  BY DEF CarefulInv, Queue
<1>. QED  BY <1>1 DEF CanResume

\* A frame is queued behind what is in the queue.
LEMMA QueuedBehind ==
    ASSUME NEW q \in Seq(Entry), NEW p \in Frame
    PROVE  \A g : /\ Has(Append(q, F(p)), F(g)) => Has(q, F(g)) \/ g = p
                  /\ Once(q, F(g)) => \/ Once(Append(q, F(p)), F(g))
                                      \/ Has(q, F(g)) /\ g = p
  BY EntryKinds, EntriesDiffer, AppendQueue

LEMMA NextQueue ==
    ASSUME Careful, CarefulInv, Next
    PROVE  Queue'
<1> USE DEF frameVars, waitVars
<1>0. /\ ready \in Seq(Entry) /\ Waiter \subseteq Frame /\ NoFrame \notin Frame
      /\ at \in [Frame -> {"initial", "running", "child", "io", "final", "gone"}]
      /\ result \in [Frame -> {"none", "value", "exception"}]
      /\ child \in [Frame -> Frame \cup {NoFrame}]
      /\ parent \in [Frame -> Frame \cup {NoFrame}]
      /\ \A f \in Frame : at[f] = "running" <=> running = f
      /\ TypeInv
  BY FrameAssumption DEF CarefulInv, TypeInv, TypeOK
<1>q. \A f \in Frame : /\ Once(ready, F(f))
                       /\ Has(ready, F(f)) => CanResume(f)
  BY DEF CarefulInv, Queue
<1>1. CASE Run
  <2>1. PICK f \in Frame :
              /\ ready # <<>> /\ Head(ready) = F(f) /\ ready' = Tail(ready)
              /\ at' = [at EXCEPT ![f] = "running"]
              /\ UNCHANGED <<child, result>>
    BY <1>0, <1>1, RunStep
  <2>2. Has(ready, F(f)) /\ ~Has(ready', F(f))
    BY <1>0, <1>q, <2>1, TailQueue
  <2>3. at[f] # "final"
    BY <1>q, <2>2 DEF CanResume
  <2>4. \A g \in Frame : /\ Once(ready, F(g)) => Once(ready', F(g))
                         /\ Has(ready', F(g)) => Has(ready, F(g)) /\ g # f
    BY <1>0, <2>1, <2>2, TailQueue
  <2>. QED  BY <1>0, <2>1, <2>3, <2>4, QueueKept
<1>2. CASE RunTimer \/ Skip
  <2>1. /\ ready # <<>> /\ ready' = Tail(ready)
        /\ UNCHANGED <<at, child, result>>
    BY <1>2 DEF RunTimer, Skip
  <2>. QED  BY <1>0, <2>1, TailQueue, QueueKept
<1>3. ASSUME NEW w \in Waiter, Expire(w)
      PROVE  Queue'
  <2>1. /\ ready' = Append(ready, T(w)) /\ T(w) \in Entry
        /\ UNCHANGED <<at, child, result>>
    BY <1>0, <1>3, EntryKinds DEF Expire, T
  <2>2. \A g \in Frame : /\ Once(ready, F(g)) => Once(ready', F(g))
                         /\ Has(ready', F(g)) => Has(ready, F(g))
    BY <1>0, <2>1, AppendQueue, EntriesDiffer
  <2>. QED  BY <2>1, <2>2, QueueKept
<1>4. ASSUME NEW f \in Frame, ~Has(ready, F(f)), at[f] \in {"initial", "io"},
             ready' = Append(ready, F(f)), UNCHANGED <<at, child, result>>
      PROVE  Queue'
  <2>1. \A g \in Frame : /\ Once(ready', F(g))
                         /\ Has(ready', F(g)) <=> Has(ready, F(g)) \/ g = f
    BY <1>0, <1>q, <1>4, EntryKinds, EntriesDiffer, AppendQueue
  <2>. QED  BY <1>4, <1>q, <2>1 DEF Queue, CanResume
<1>5. ASSUME NEW f \in Frame, Wake(f)
      PROVE  Queue'
  BY <1>4, <1>5 DEF Wake, Queued, Has, F
<1>6. ASSUME NEW f \in Frame, Start(f)
      PROVE  Queue'
  <2>1. ready' = Scheduled(f) /\ UNCHANGED <<at, child, result>>
    BY <1>6 DEF Start
  <2>2. CASE ready' = ready
    BY <2>1, <2>2, QueueKept
  <2>3. CASE state[f] = "UNSCHEDULE" /\ ready' = Append(ready, F(f))
    BY <1>4, <1>6, <2>1, <2>3, CarefulStep
  <2>. QED  BY <1>0, <2>1, <2>2, <2>3, ScheduledQueue
<1>7. ASSUME NEW f \in Frame, Await(f) \/ (WaitFor /\ f = child[running])
      PROVE  Queue'
  <2> DEFINE r == running
  <2>1. /\ r \in Frame /\ at[r] = "running" /\ f # r
        /\ at[f] \notin {"running", "final", "gone"}
        /\ at' = [at EXCEPT ![r] = "child"]
        /\ child' = [child EXCEPT ![r] = f] /\ result' = result
        /\ \/ ready' = ready
           \/ state[f] = "UNSCHEDULE" /\ ready' = Append(ready, F(f))
    BY <1>0, <1>7, SuspendStep
  <2>2. ~Has(ready, F(r))
    BY <2>1, RunningNotQueued
  <2>3. \A g \in Frame : Has(ready, F(g)) => CanResume(g)'
    BY <1>0, <1>q, <2>1, <2>2 DEF CanResume
  <2>4. CASE ready' = ready
    BY <1>q, <2>3, <2>4 DEF Queue
  <2>5. CASE state[f] = "UNSCHEDULE" /\ ready' = Append(ready, F(f))
    <3>1. at[f] = "initial" /\ ~Has(ready, F(f))
      BY <1>7, <2>5, CarefulStep
    <3>2. \A g \in Frame : /\ Once(ready', F(g))
                           /\ Has(ready', F(g)) <=> Has(ready, F(g)) \/ g = f
      BY <1>0, <1>q, <2>5, <3>1, EntryKinds, EntriesDiffer, AppendQueue
    <3>3. CanResume(f)'
      BY <1>0, <2>1, <3>1 DEF CanResume
    <3>. QED  BY <2>3, <3>2, <3>3 DEF Queue
  <2>. QED  BY <2>1, <2>4, <2>5
<1>8. CASE AwaitIo
  <2>1. /\ running \in Frame /\ ready' = ready
        /\ at' = [at EXCEPT ![running] = "io"]
        /\ UNCHANGED <<child, result>>
    BY <1>0, <1>8 DEF AwaitIo, TypeInv, TypeOK
  <2>2. ~Has(ready, F(running))
    BY <1>0, <2>1, RunningNotQueued
  <2>. QED  BY <1>0, <2>1, <2>2, QueueKept
\* A frame ends, and the queue gains at most its parent.
<1>9. ASSUME NEW r \in Frame, at[r] = "running",
             NEW outcome \in {"value", "exception"},
             at' = [at EXCEPT ![r] = "final"], child' = child,
             result' = [result EXCEPT ![r] = outcome],
             \A g \in Frame :
                /\ Has(ready', F(g)) => Has(ready, F(g)) \/ g = parent[r]
                /\ ~Once(ready', F(g)) => Has(ready, F(g)) /\ g = parent[r]
      PROVE  Queue'
  <2>1. ~Has(ready, F(r))
    BY <1>9, RunningNotQueued
  <2>2. \A g \in Frame : Has(ready, F(g)) => CanResume(g)' /\ g # parent[r]
    <3> SUFFICES ASSUME NEW g \in Frame, Has(ready, F(g))
                 PROVE  CanResume(g)' /\ g # parent[r]
      OBVIOUS
    <3>1. CanResume(g) /\ g # r
      BY <1>q, <2>1
    <3>2. g # parent[r]
      BY <1>0, <1>9, <3>1 DEF CanResume, CarefulInv, Family
    <3>3. CanResume(g)'
      BY <1>0, <1>9, <3>1 DEF CanResume
    <3>. QED  BY <3>2, <3>3
  <2>3. \A p \in Frame : p = parent[r] => CanResume(p)'
    BY <1>0, <1>9 DEF CanResume, CarefulInv, Family
  <2>. QED  BY <1>9, <2>2, <2>3 DEF Queue
<1>10. ASSUME NEW outcome \in {"value", "exception"}, Return(outcome)
       PROVE  Queue'
  <2>1. /\ running \in Frame /\ child' = child
        /\ result' = [result EXCEPT ![running] = outcome]
        /\ at' = [at EXCEPT ![running] = "final"]
        /\ ready' = IF parent[running] = NoFrame THEN ready
                    ELSE Append(ready, F(parent[running]))
    BY <1>0, <1>10, ReturnStep
  <2>2. \A g \in Frame :
           /\ Has(ready', F(g)) => Has(ready, F(g)) \/ g = parent[running]
           /\ ~Once(ready', F(g)) => Has(ready, F(g)) /\ g = parent[running]
    <3>1. CASE parent[running] = NoFrame
      BY <1>q, <2>1, <3>1
    <3>2. CASE parent[running] # NoFrame
      <4>1. parent[running] \in Frame /\ ready' = Append(ready, F(parent[running]))
        BY <1>0, <2>1, <3>2
      <4>. QED  BY <1>0, <1>q, <4>1, QueuedBehind
    <3>. QED  BY <3>1, <3>2
  <2>. QED  BY <1>0, <1>9, <2>1, <2>2
<1>11. CASE WaitForReturns
  <2> DEFINE q == Cleared(ready, {T(running)})
  <2>1. /\ running \in Frame /\ child' = child
        /\ result' = [result EXCEPT ![running] = "value"]
        /\ at' = [at EXCEPT ![running] = "final"]
        /\ ready' = IF parent[running] = NoFrame THEN q
                    ELSE Append(q, F(parent[running]))
    BY <1>0, <1>11, WaitForReturnsStep
  <2>2. /\ q \in Seq(Entry)
        /\ \A g \in Frame : /\ Once(q, F(g))
                            /\ Has(q, F(g)) => Has(ready, F(g))
    BY <1>0, <1>q, ClearedQueue, EntriesDiffer
  <2>3. \A g \in Frame :
           /\ Has(ready', F(g)) => Has(q, F(g)) \/ g = parent[running]
           /\ ~Once(ready', F(g)) => Has(q, F(g)) /\ g = parent[running]
    <3> HIDE DEF q
    <3>1. CASE parent[running] = NoFrame
      BY <2>1, <2>2, <3>1
    <3>2. CASE parent[running] # NoFrame
      <4>1. parent[running] \in Frame /\ ready' = Append(q, F(parent[running]))
        BY <1>0, <2>1, <3>2
      <4>. QED  BY <2>2, <4>1, QueuedBehind
    <3>. QED  BY <3>1, <3>2
  <2>. QED  BY <1>0, <1>9, <2>1, <2>2, <2>3
<1>12. ASSUME NEW f \in Frame, Cancel(f)
       PROVE  Queue'
  <2>1. /\ at[f] \in {"initial", "io", "child"}
        /\ at' = [at EXCEPT ![f] = "gone"]
        /\ ready' = Cleared(ready, {F(f), T(f)})
        /\ UNCHANGED <<child, result>>
    BY <1>12, CancelStep
  <2>2. \A g \in Frame : /\ Once(ready, F(g)) => Once(ready', F(g))
                         /\ Has(ready', F(g)) => Has(ready, F(g)) /\ g # f
    BY <1>0, <2>1, ClearedQueue, EntriesDiffer
  <2>. QED  BY <1>0, <2>1, <2>2, QueueKept
<1>13. WaitFor => child[running] \in Frame
  BY DEF WaitFor, CarefulInv, TypeInv
<1>. QED  BY <1>1, <1>2, <1>3, <1>5, <1>6, <1>7, <1>8, <1>10, <1>11, <1>12,
             <1>13 DEF Next, LoopStep, FrameStep

LEMMA NextFamily ==
    ASSUME Careful, CarefulInv, Next
    PROVE  Family'
<1> USE DEF frameVars, waitVars
<1>0. /\ ready \in Seq(Entry) /\ NoFrame \notin Frame
      /\ at \in [Frame -> {"initial", "running", "child", "io", "final", "gone"}]
      /\ child \in [Frame -> Frame \cup {NoFrame}]
      /\ parent \in [Frame -> Frame \cup {NoFrame}]
      /\ \A f \in Frame : at[f] = "running" <=> running = f
      /\ TypeInv
  BY FrameAssumption DEF CarefulInv, TypeInv, TypeOK
<1>f. \A f \in Frame : parent[f] # NoFrame /\ at[f] \notin {"final", "gone"} =>
         /\ parent[f] \in Frame
         /\ at[parent[f]] = "child" /\ child[parent[f]] = f
  BY <1>0 DEF CarefulInv, Family
<1>1. CASE Run
  <2>1. PICK f \in Frame :
              /\ ready # <<>> /\ Head(ready) = F(f)
              /\ at' = [at EXCEPT ![f] = "running"]
              /\ UNCHANGED <<parent, child>>
    BY <1>0, <1>1, RunStep
  <2>2. CanResume(f)
    BY <1>0, <2>1, TailQueue DEF CarefulInv, Queue
  <2>3. \A g \in Frame : parent[g] = f => at[g] \in {"final", "gone"}
    BY <1>0, <1>f, <2>2 DEF CanResume
  <2>. QED  BY <1>0, <1>f, <2>1, <2>2, <2>3 DEF Family, CanResume
<1>2. ASSUME UNCHANGED <<at, parent, child>>
      PROVE  Family'
  BY <1>2 DEF CarefulInv, Family
<1>3. ASSUME NEW f \in Frame, Await(f) \/ (WaitFor /\ f = child[running])
      PROVE  Family'
  <2> DEFINE r == running
  <2>1. /\ r \in Frame /\ at[r] = "running" /\ f # r
        /\ at[f] \notin {"running", "final", "gone"} /\ parent[f] = NoFrame
        /\ at' = [at EXCEPT ![r] = "child"]
        /\ parent' = [parent EXCEPT ![f] = r]
        /\ child' = [child EXCEPT ![r] = f]
    BY <1>0, <1>3, SuspendStep
  <2>. QED  BY <1>0, <1>f, <2>1 DEF Family
<1>4. CASE AwaitIo
  <2>1. /\ running \in Frame /\ at[running] = "running"
        /\ at' = [at EXCEPT ![running] = "io"]
        /\ UNCHANGED <<parent, child>>
    BY <1>0, <1>4 DEF AwaitIo, TypeInv, TypeOK
  <2>. QED  BY <1>0, <1>f, <2>1 DEF Family
<1>5. ASSUME NEW outcome \in {"value", "exception"},
             Return(outcome) \/ WaitForReturns
      PROVE  Family'
  <2>1. /\ running \in Frame /\ at[running] = "running"
        /\ at' = [at EXCEPT ![running] = "final"]
        /\ UNCHANGED <<parent, child>>
    BY <1>0, <1>5, FrameAssumption, ReturnStep, WaitForReturnsStep
  <2>. QED  BY <1>0, <1>f, <2>1 DEF Family
<1>6. ASSUME NEW f \in Frame, Cancel(f)
      PROVE  Family'
  <2>1. /\ at[f] \in {"initial", "io", "child"}
        /\ at' = [at EXCEPT ![f] = "gone"]
        /\ UNCHANGED <<parent, child>>
    BY <1>6, CancelStep
  <2>2. at[f] = "child" => at[child[f]] = "gone"
    BY <1>6 DEF Cancel, MayCancel
  <2>. QED  BY <1>0, <1>f, <2>1, <2>2 DEF Family
<1>7. WaitFor => child[running] \in Frame
  BY <1>0 DEF WaitFor, TypeInv
<1>. QED  BY <1>1, <1>2, <1>3, <1>4, <1>5, <1>6, <1>7
          DEF Next, LoopStep, FrameStep, RunTimer, Skip, Expire, Wake, Start

LEMMA NextTasks ==
    ASSUME Careful, CarefulInv, Next
    PROVE  Tasks'
<1> USE DEF frameVars, waitVars
<1>0. /\ ready \in Seq(Entry) /\ NoFrame \notin Frame /\ Waiter \subseteq Frame
      /\ at \in [Frame -> {"initial", "running", "child", "io", "final", "gone"}]
      /\ child \in [Frame -> Frame \cup {NoFrame}]
      /\ parent \in [Frame -> Frame \cup {NoFrame}]
      /\ timer \in [Waiter -> {"unborn", "armed", "queued", "over"}]
      /\ \A f \in Frame : at[f] = "running" <=> running = f
      /\ \A w \in Waiter : child[w] \in Frame \ Waiter
      /\ TypeInv
  BY FrameAssumption DEF CarefulInv, TypeInv, TypeOK
<1>t. \A w \in Waiter :
        /\ at[w] = "initial" => timer[w] = "unborn"
        /\ at[w] = "child" => timer[w] # "unborn"
        /\ at[w] # "io"
        /\ timer[w] = "unborn" =>
              /\ at[child[w]] = "initial" /\ ~Has(ready, F(child[w]))
              /\ \A v \in Waiter : child[v] = child[w] => v = w
        /\ timer[w] \in {"armed", "queued"} => parent[child[w]] = w
  BY DEF CarefulInv, Tasks
<1>1. CASE Run
  <2>1. PICK f \in Frame :
              /\ ready # <<>> /\ Head(ready) = F(f) /\ ready' = Tail(ready)
              /\ at' = [at EXCEPT ![f] = "running"]
              /\ UNCHANGED <<parent, child, timer>>
    BY <1>0, <1>1, RunStep
  <2>2. /\ Has(ready, F(f))
        /\ \A g \in Frame : Has(ready', F(g)) => Has(ready, F(g))
    BY <1>0, <2>1, TailQueue
  <2>. QED  BY <1>0, <1>t, <2>1, <2>2 DEF Tasks
<1>2. CASE RunTimer
  <2>1. PICK w \in Frame :
              /\ ready # <<>> /\ Head(ready) = T(w) /\ ready' = Tail(ready)
              /\ timer' = [timer EXCEPT ![w] = "over"]
              /\ UNCHANGED <<at, parent, child>>
    BY <1>0, <1>2, RunTimerStep
  <2>2. /\ Has(ready, T(w))
        /\ \A g \in Frame : Has(ready', F(g)) => Has(ready, F(g))
    BY <1>0, <2>1, TailQueue
  <2>3. w \in Waiter /\ timer[w] = "queued"
    BY <2>2 DEF CarefulInv, Timers
  <2>. QED  BY <1>0, <1>t, <2>1, <2>2, <2>3 DEF Tasks
<1>3. CASE Skip
  BY <1>0, <1>t, <1>3, TailQueue DEF Skip, Tasks
<1>4. ASSUME NEW w \in Waiter, Expire(w)
      PROVE  Tasks'
  <2>1. /\ ready' = Append(ready, T(w)) /\ T(w) \in Entry
        /\ timer[w] = "armed" /\ timer' = [timer EXCEPT ![w] = "queued"]
        /\ UNCHANGED <<at, parent, child>>
    BY <1>0, <1>4, EntryKinds DEF Expire, T
  <2>2. \A g \in Frame : Has(ready', F(g)) => Has(ready, F(g))
    BY <1>0, <2>1, AppendQueue, EntriesDiffer
  <2>. QED  BY <1>0, <1>t, <2>1, <2>2 DEF Tasks
\* A frame that is queued is not the task of a wait_for() that has not run.
<1>5. ASSUME NEW f \in Frame, ready' = ready \/ ready' = Append(ready, F(f)),
             ready' # ready => \A w \in Waiter : timer[w] = "unborn" =>
                                                     child[w] # f
      PROVE  \A w \in Waiter : timer[w] = "unborn" => ~Has(ready', F(child[w]))
  <2>1. CASE ready' = ready
    BY <1>t, <2>1
  <2>2. CASE ready' # ready
    <3>1. \A g : Has(Append(ready, F(f)), F(g)) => Has(ready, F(g)) \/ g = f
      BY <1>0, QueuedBehind
    <3>. QED  BY <1>t, <1>5, <2>2, <3>1
  <2>. QED  BY <2>1, <2>2
<1>6. ASSUME NEW f \in Frame, Wake(f) \/ Start(f)
      PROVE  Tasks'
  <2>1. /\ ready' = ready \/ ready' = Append(ready, F(f))
        /\ UNCHANGED <<at, parent, child, timer>>
    BY <1>0, <1>6, ScheduledQueue DEF Wake, Start, F
  <2>2. \A w \in Waiter : timer[w] = "unborn" => child[w] # f
    BY <1>0, <1>t, <1>6 DEF Wake, Start, Fresh, Reserved
  <2>3. \A w \in Waiter : timer[w] = "unborn" => ~Has(ready', F(child[w]))
    BY <1>5, <2>1, <2>2
  <2>. QED  BY <1>0, <1>t, <2>1, <2>3 DEF Tasks
<1>7. ASSUME NEW f \in Frame, Await(f) \/ (WaitFor /\ f = child[running])
      PROVE  Tasks'
  <2> DEFINE r == running
  <2>1. /\ r \in Frame /\ at[r] = "running" /\ f # r
        /\ at[f] \notin {"running", "final", "gone"} /\ parent[f] = NoFrame
        /\ at' = [at EXCEPT ![r] = "child"]
        /\ parent' = [parent EXCEPT ![f] = r]
        /\ child' = [child EXCEPT ![r] = f]
        /\ \/ ready' = ready
           \/ state[f] = "UNSCHEDULE" /\ ready' = Append(ready, F(f))
        /\ timer' = IF WaitFor THEN [timer EXCEPT ![r] = "armed"] ELSE timer
    BY <1>0, <1>7, SuspendStep
  <2>2. /\ WaitFor => r \in Waiter /\ timer[r] = "unborn" /\ f = child[r]
        /\ ~WaitFor => r \notin Waiter
    BY <1>7 DEF WaitFor, Await
  <2>3. \A w \in Waiter : /\ child'[w] = child[w]
                          /\ w # r => at'[w] = at[w] /\ timer'[w] = timer[w]
    BY <1>0, <2>1, <2>2
  <2>4. \A w \in Waiter \ {r} : timer[w] = "unborn" =>
           child[w] # f \/ ready' = ready
    BY <1>7, <2>1, CarefulStep
  <2>5. \A w \in Waiter \ {r} : timer[w] = "unborn" =>
           ~Has(ready', F(child[w]))
    <3>1. CASE ready' = ready
      BY <1>t, <3>1
    <3>2. CASE ready' # ready
      <4>1. \A g : Has(Append(ready, F(f)), F(g)) => Has(ready, F(g)) \/ g = f
        BY <1>0, QueuedBehind
      <4>. QED  BY <1>t, <2>1, <2>4, <3>2, <4>1
    <3>. QED  BY <3>1, <3>2
  <2>6. \A w \in Waiter \ {r} : timer[w] = "unborn" => at'[child[w]] = "initial"
    BY <1>0, <1>t, <2>1
  <2>7. \A w \in Waiter \ {r} : timer[w] \in {"armed", "queued"} =>
           parent'[child[w]] = w
    BY <1>0, <1>t, <2>1
  <2>8. CASE WaitFor
    <3>1. timer'[r] = "armed" /\ at'[r] = "child" /\ parent'[child'[r]] = r
      BY <1>0, <2>1, <2>2, <2>3, <2>8
    <3>. QED  BY <1>t, <2>2, <2>3, <2>5, <2>6, <2>7, <3>1 DEF Tasks
  <2>9. CASE ~WaitFor
    BY <1>t, <2>2, <2>3, <2>5, <2>6, <2>7, <2>9 DEF Tasks
  <2>. QED  BY <2>8, <2>9
<1>8. CASE AwaitIo
  <2>1. /\ running \in Frame \ Waiter /\ at[running] = "running"
        /\ at' = [at EXCEPT ![running] = "io"]
        /\ UNCHANGED <<parent, child, timer, ready>>
    BY <1>0, <1>8 DEF AwaitIo, TypeInv, TypeOK
  <2>. QED  BY <1>0, <1>t, <2>1 DEF Tasks
\* The parent of a frame that ends is not the task of such a wait_for().
<1>9. ASSUME NEW p \in Frame, parent[running] = p, running \in Frame
      PROVE  \A w \in Waiter : timer[w] = "unborn" => child[w] # p
  BY <1>0, <1>t, <1>9 DEF CarefulInv, Family
<1>10. ASSUME NEW outcome \in {"value", "exception"}, Return(outcome)
       PROVE  Tasks'
  <2>1. /\ running \in Frame \ Waiter /\ at[running] = "running"
        /\ at' = [at EXCEPT ![running] = "final"]
        /\ ready' = IF parent[running] = NoFrame THEN ready
                    ELSE Append(ready, F(parent[running]))
        /\ UNCHANGED <<parent, child, timer>>
    BY <1>0, <1>10, ReturnStep
  <2>2. \A w \in Waiter : timer[w] = "unborn" => ~Has(ready', F(child[w]))
    <3>1. CASE parent[running] = NoFrame
      BY <1>t, <2>1, <3>1
    <3>2. CASE parent[running] # NoFrame
      <4>1. parent[running] \in Frame /\ ready' = Append(ready, F(parent[running]))
        BY <1>0, <2>1, <3>2
      <4>. QED  BY <1>0, <1>5, <1>9, <2>1, <4>1
    <3>. QED  BY <3>1, <3>2
  <2>. QED  BY <1>0, <1>t, <2>1, <2>2 DEF Tasks
<1>11. CASE WaitForReturns
  <2> DEFINE w == running  q == Cleared(ready, {T(w)})
  <2>1. /\ w \in Waiter /\ at[w] = "running"
        /\ at' = [at EXCEPT ![w] = "final"]
        /\ timer' = [timer EXCEPT ![w] = "over"]
        /\ ready' = IF parent[w] = NoFrame THEN q ELSE Append(q, F(parent[w]))
        /\ UNCHANGED <<parent, child>>
    BY <1>0, <1>11, WaitForReturnsStep
  <2>2. q \in Seq(Entry) /\ \A g \in Frame : Has(q, F(g)) => Has(ready, F(g))
    BY <1>0, ClearedQueue, EntriesDiffer
  <2>3. \A v \in Waiter : timer[v] = "unborn" => ~Has(ready', F(child[v]))
    <3> HIDE DEF q
    <3>1. CASE parent[running] = NoFrame
      BY <1>0, <1>t, <2>1, <2>2, <3>1
    <3>2. CASE parent[running] # NoFrame
      <4>1. parent[w] \in Frame /\ ready' = Append(q, F(parent[w]))
        BY <1>0, <2>1, <3>2
      <4>2. \A v \in Waiter : timer[v] = "unborn" => child[v] # parent[w]
        BY <1>0, <1>9, <2>1, <4>1
      <4>3. \A g : Has(Append(q, F(parent[w])), F(g)) =>
               Has(q, F(g)) \/ g = parent[w]
        BY <2>2, <4>1, QueuedBehind
      <4>. QED  BY <1>0, <1>t, <2>2, <4>1, <4>2, <4>3
    <3>. QED  BY <3>1, <3>2
  <2> HIDE DEF q
  <2>. QED  BY <1>0, <1>t, <2>1, <2>3 DEF Tasks
<1>12. ASSUME NEW f \in Frame, Cancel(f)
       PROVE  Tasks'
  <2>1. /\ at' = [at EXCEPT ![f] = "gone"]
        /\ ready' = Cleared(ready, {F(f), T(f)})
        /\ timer' = IF f \in Waiter THEN [timer EXCEPT ![f] = "over"] ELSE timer
        /\ UNCHANGED <<parent, child>>
    BY <1>12, CancelStep
  <2>2. \A g \in Frame : Has(ready', F(g)) => Has(ready, F(g))
    BY <1>0, <2>1, ClearedQueue, EntriesDiffer
  <2>3. \A w \in Waiter : timer[w] = "unborn" => child[w] # f
    BY <1>12 DEF Cancel, MayCancel, Reserved
  <2>. QED  BY <1>0, <1>t, <2>1, <2>2, <2>3 DEF Tasks
<1>13. WaitFor => child[running] \in Frame
  BY <1>0 DEF WaitFor
<1>. QED  BY <1>1, <1>2, <1>3, <1>4, <1>6, <1>7, <1>8, <1>10, <1>11, <1>12,
             <1>13 DEF Next, LoopStep, FrameStep

LEMMA NextCarefulInv == Careful /\ CarefulInv /\ [Next]_vars => CarefulInv'
<1> SUFFICES ASSUME Careful, CarefulInv, [Next]_vars PROVE CarefulInv'
  OBVIOUS
<1>1. TypeInv' /\ Timers'
  BY NextTypes, NextTimers DEF CarefulInv
<1>2. CASE Next
  BY <1>1, <1>2, NextQueue, NextTasks, NextFamily DEF CarefulInv
<1>3. CASE UNCHANGED vars
  BY <1>1, <1>3
     DEF vars, CarefulInv, Queue, CanResume, Tasks, Family
<1>. QED  BY <1>2, <1>3

LEMMA InitCarefulInv == Init => CarefulInv
<1> SUFFICES ASSUME Init PROVE CarefulInv
  OBVIOUS
<1>1. ready = <<F(Main)>> /\ TypeInv /\ Timers
  BY InitTypes, InitTimers DEF Init, F
<1>2. \A f : Once(ready, F(f)) /\ (Has(ready, F(f)) => f = Main)
  BY <1>1, EntriesDiffer DEF Has, Once
<1>3. Queue
  BY <1>2, FrameAssumption DEF Init, Queue, CanResume
<1>4. Tasks
  BY <1>1, <1>2, FrameAssumption DEF Init, Tasks, TypeInv
<1>5. Family
  BY DEF Init, Family
<1>. QED  BY <1>1, <1>3, <1>4, <1>5 DEF CarefulInv

\* The tasks, awaiters, timers and the final suspension of a careful program
\* queue a frame at most once, and only where it may be resumed.
THEOREM QueuedRight ==
    ASSUME Careful
    PROVE  Spec => []QueuedWhereSuspended
<1>1. CarefulInv => QueuedWhereSuspended
  <2> SUFFICES ASSUME CarefulInv, NEW j \in DOMAIN ready, NEW k \in DOMAIN ready,
                      ready[j][1] = "frame"
               PROVE  LET f == ready[j][2]
                      IN  /\ ready[j] = ready[k] => j = k
                          /\ \/ at[f] \in {"initial", "io"}
                             \/ /\ at[f] = "child"
                                /\ at[child[f]] = "final"
                                /\ result[child[f]] # "none"
    BY DEF QueuedWhereSuspended
  <2>1. ready[j] \in Entry
    BY DEF CarefulInv, TypeInv, TypeOK
  <2>2. PICK f \in Frame : ready[j] = F(f) /\ f = ready[j][2]
    BY <2>1, EntryKinds
  <2>3. Has(ready, F(f))
    BY <2>2 DEF Has
  <2>4. Once(ready, F(f)) /\ CanResume(f)
    BY <2>3 DEF CarefulInv, Queue
  <2>. QED  BY <2>2, <2>4 DEF Once, CanResume
<1>2. CarefulInv /\ [Next]_vars => CarefulInv'
  BY NextCarefulInv
<1>. QED  BY <1>1, <1>2, InitCarefulInv, PTL DEF Spec

-----------------------------------------------------------------------------
\* The race between a timer and a child.

\* The queue remembers who came first until the wait_for() has run.
RaceOf(w) ==
    /\ first[w] = "child" => at[child[w]] = "final"
    /\ at[child[w]] = "final" => first[w] # "none"
    /\ timer[w] = "queued" => first[w] # "none"
    /\ first[w] = "timer" => timer[w] \in {"queued", "over"}
    /\ first[w] = "child" /\ timer[w] \in {"armed", "queued"} =>
          at[w] = "running" \/ Ahead(ready, F(w), T(w))
    /\ first[w] = "timer" /\ timer[w] = "queued" =>
          at[w] # "running" /\ Ahead(ready, T(w), F(w))
    /\ fired[w] => first[w] = "timer"
    /\ timer[w] = "over" => fired[w] \/ at[w] \in {"gone", "final"}
    /\ at[w] = "running" /\ timer[w] # "unborn" => at[child[w]] = "final"

\* What wait_for() has returned no longer changes.
VerdictOf(w) ==
    verdict[w] # {} =>
        /\ at[w] = "final" /\ timer[w] = "over" /\ at[child[w]] = "final"
        /\ \A v \in verdict[w] : /\ v.isTimeout <=> first[w] = "timer"
                                 /\ v.ok <=> result[child[w]] = "value"

Races == \A w \in Waiter : RaceOf(w) /\ VerdictOf(w)

\* Steps that take no part in the race of w.
LEMMA RaceKept ==
    ASSUME CarefulInv, NEW w \in Waiter, RaceOf(w), VerdictOf(w),
           child'[w] = child[w], first'[w] = first[w], timer'[w] = timer[w],
           fired'[w] = fired[w], verdict'[w] = verdict[w], at'[w] = at[w],
           at'[child[w]] = "final" <=> at[child[w]] = "final",
           at[child[w]] = "final" => result'[child[w]] = result[child[w]],
           \A e, f : e \in {F(w), T(w)} /\ f \in {F(w), T(w)} =>
              (Ahead(ready, e, f) => Ahead(ready', e, f))
    PROVE  RaceOf(w)' /\ VerdictOf(w)'
  BY DEF RaceOf, VerdictOf

LEMMA NextRace ==
    ASSUME Careful, CarefulInv, NEW w \in Waiter, RaceOf(w), VerdictOf(w), Next
    PROVE  RaceOf(w)' /\ VerdictOf(w)'
<1> USE DEF frameVars, waitVars
<1>0. /\ ready \in Seq(Entry) /\ NoFrame \notin Frame /\ Waiter \subseteq Frame
      /\ at \in [Frame -> {"initial", "running", "child", "io", "final", "gone"}]
      /\ child \in [Frame -> Frame \cup {NoFrame}]
      /\ parent \in [Frame -> Frame \cup {NoFrame}]
      /\ result \in [Frame -> {"none", "value", "exception"}]
      /\ timer \in [Waiter -> {"unborn", "armed", "queued", "over"}]
      /\ fired \in [Waiter -> BOOLEAN]
      /\ verdict \in [Waiter -> SUBSET Verdict]
      /\ first \in [Waiter -> {"none", "child", "timer"}]
      /\ \A f \in Frame : at[f] = "running" <=> running = f
      /\ child[w] \in Frame \ Waiter
      /\ TypeInv
  BY FrameAssumption DEF CarefulInv, TypeInv, TypeOK
<1>q. \A f \in Frame : Has(ready, F(f)) => CanResume(f)
  BY DEF CarefulInv, Queue
<1>t. /\ at[w] = "initial" => timer[w] = "unborn"
      /\ at[w] # "io"
      /\ timer[w] = "unborn" => at[child[w]] = "initial" /\ verdict[w] = {}
      /\ timer[w] \in {"armed", "queued"} =>
            /\ parent[child[w]] = w /\ at[w] \in {"child", "running"}
            /\ verdict[w] = {}
      /\ timer[w] # "queued" => ~Has(ready, T(w))
  BY <1>0 DEF CarefulInv, Tasks, Timers
<1>1. CASE Run
  <2>1. PICK f \in Frame :
              /\ ready # <<>> /\ Head(ready) = F(f) /\ ready' = Tail(ready)
              /\ running = NoFrame /\ at' = [at EXCEPT ![f] = "running"]
              /\ UNCHANGED <<child, result, waitVars>>
    BY <1>0, <1>1, RunStep
  <2>2. CanResume(f) /\ at[w] # "running"
    BY <1>0, <1>q, <2>1, TailQueue
  <2>3. at'[child[w]] = "final" <=> at[child[w]] = "final"
    BY <1>0, <2>1, <2>2 DEF CanResume
  <2>4. CASE f # w
    <3>1. Head(ready) \notin {F(w), T(w)}
      BY <2>1, <2>4, EntriesDiffer
    <3>2. \A e, g : e \in {F(w), T(w)} /\ Ahead(ready, e, g) =>
             Ahead(ready', e, g)
      BY <1>0, <2>1, <3>1, TailQueue
    <3>. QED  BY <1>0, <2>1, <2>3, <2>4, <3>2, RaceKept
  <2>5. CASE f = w
    <3>1. at[w] \in {"initial", "child"} /\ at'[w] = "running"
      BY <1>0, <1>t, <2>1, <2>2, <2>5 DEF CanResume
    <3>2. ~Ahead(ready, T(w), F(w))
      BY <1>0, <2>1, <2>5, TailQueue
    <3>3. timer[w] # "unborn" => at[child[w]] = "final"
      BY <1>t, <2>2, <2>5, <3>1 DEF CanResume
    <3>. QED  BY <1>0, <2>1, <2>3, <3>1, <3>2, <3>3 DEF RaceOf, VerdictOf
  <2>. QED  BY <2>4, <2>5
<1>2. CASE RunTimer
  <2>1. PICK v \in Frame :
              /\ ready # <<>> /\ Head(ready) = T(v) /\ ready' = Tail(ready)
              /\ running = NoFrame
              /\ timer' = [timer EXCEPT ![v] = "over"]
              /\ fired' = [fired EXCEPT ![v] = @ \/ verdict[v] = {}]
              /\ UNCHANGED <<frameVars, running, verdict, first>>
    BY <1>0, <1>2, RunTimerStep
  <2>2. Has(ready, T(v))
    BY <1>0, <2>1, TailQueue
  <2>3. CASE v # w
    <3>1. Head(ready) \notin {F(w), T(w)}
      BY <2>1, <2>3, EntriesDiffer
    <3>2. \A e, g : e \in {F(w), T(w)} /\ Ahead(ready, e, g) =>
             Ahead(ready', e, g)
      BY <1>0, <2>1, <3>1, TailQueue
    <3>. QED  BY <1>0, <2>1, <2>3, <3>2, RaceKept
  <2>4. CASE v = w
    <3>1. timer[w] = "queued" /\ verdict[w] = {}
      BY <1>t, <2>2, <2>4
    <3>2. timer'[w] = "over" /\ fired'[w]
      BY <1>0, <2>1, <2>4, <3>1
    <3>3. ~Ahead(ready, F(w), T(w)) /\ at[w] # "running"
      BY <1>0, <2>1, <2>4, TailQueue
    <3>4. first[w] = "timer"
      BY <1>0, <3>1, <3>3 DEF RaceOf
    <3>. QED  BY <2>1, <3>1, <3>2, <3>3, <3>4 DEF RaceOf, VerdictOf
  <2>. QED  BY <2>3, <2>4
<1>3. CASE Skip
  <2>1. /\ ready # <<>> /\ Head(ready) = Dropped /\ ready' = Tail(ready)
        /\ UNCHANGED <<frameVars, waitVars>>
    BY <1>3 DEF Skip
  <2>2. Head(ready) \notin {F(w), T(w)}
    BY <2>1, EntriesDiffer
  <2>3. \A e, g : e \in {F(w), T(w)} /\ Ahead(ready, e, g) =>
           Ahead(ready', e, g)
    BY <1>0, <2>1, <2>2, TailQueue
  <2>. QED  BY <2>1, <2>3, RaceKept
<1>4. ASSUME NEW v \in Waiter, Expire(v)
      PROVE  RaceOf(w)' /\ VerdictOf(w)'
  <2>1. /\ ready' = Append(ready, T(v)) /\ T(v) \in Entry
        /\ timer[v] = "armed" /\ timer' = [timer EXCEPT ![v] = "queued"]
        /\ first' = [first EXCEPT ![v] = IF @ = "none" THEN "timer" ELSE @]
        /\ UNCHANGED <<frameVars, running, fired, verdict>>
    BY <1>0, <1>4, EntryKinds DEF Expire, T
  <2>2. \A e, g : Ahead(ready, e, g) => Ahead(ready', e, g)
    BY <1>0, <2>1, AppendQueue
  <2>3. CASE v # w
    BY <1>0, <2>1, <2>2, <2>3, RaceKept
  <2>4. CASE v = w
    <3>1. timer'[w] = "queued" /\ first[w] # "timer"
      BY <1>0, <2>1, <2>4 DEF RaceOf
    <3>2. CASE first[w] = "child"
      <4>1. first'[w] = "child"
        BY <1>0, <2>1, <2>4, <3>2
      <4>. QED  BY <2>1, <2>2, <2>4, <3>1, <3>2, <4>1 DEF RaceOf, VerdictOf
    <3>3. CASE first[w] = "none"
      <4>1. first'[w] = "timer"
        BY <1>0, <2>1, <2>4, <3>3
      <4>2. at[w] = "child" /\ at[child[w]] # "final" /\ verdict[w] = {}
        BY <1>t, <2>1, <2>4, <3>3 DEF RaceOf
      <4>3. ~Has(ready, F(w))
        BY <1>0, <1>q, <4>2 DEF CanResume
      <4>4. Ahead(ready', T(w), F(w))
        BY <1>0, <2>1, <2>4, <4>3, AppendQueue, EntriesDiffer
      <4>. QED  BY <2>1, <3>1, <3>3, <4>1, <4>2, <4>4 DEF RaceOf, VerdictOf
    <3>. QED  BY <1>0, <3>1, <3>2, <3>3
  <2>. QED  BY <2>3, <2>4
<1>5. ASSUME NEW f \in Frame, Wake(f) \/ Start(f)
      PROVE  RaceOf(w)' /\ VerdictOf(w)'
  <2>1. /\ ready' = ready \/ ready' = Append(ready, F(f))
        /\ UNCHANGED <<frameVars, waitVars>>
    BY <1>0, <1>5, ScheduledQueue DEF Wake, Start, F
  <2>2. \A e, g : Ahead(ready, e, g) => Ahead(ready', e, g)
    BY <1>0, <2>1, FrameQueued
  <2>. QED  BY <2>1, <2>2, RaceKept
<1>6. ASSUME NEW f \in Frame, Await(f) \/ (WaitFor /\ f = child[running])
      PROVE  RaceOf(w)' /\ VerdictOf(w)'
  <2> DEFINE r == running
  <2>1. /\ r \in Frame /\ at[r] = "running"
        /\ at' = [at EXCEPT ![r] = "child"]
        /\ child' = [child EXCEPT ![r] = f]
        /\ ready' = ready \/ ready' = Append(ready, F(f))
        /\ timer' = IF WaitFor THEN [timer EXCEPT ![r] = "armed"] ELSE timer
        /\ UNCHANGED <<result, fired, verdict, first>>
    BY <1>0, <1>6, SuspendStep
  <2>2. \A e, g : Ahead(ready, e, g) => Ahead(ready', e, g)
    BY <1>0, <2>1, FrameQueued
  <2>3. /\ WaitFor => r \in Waiter /\ timer[r] = "unborn" /\ f = child[r]
        /\ ~WaitFor => r \notin Waiter
    BY <1>6 DEF WaitFor, Await
  <2>4. /\ child'[w] = child[w]
        /\ at'[child[w]] = "final" <=> at[child[w]] = "final"
    BY <1>0, <2>1, <2>3
  <2>5. CASE w # r
    <3>1. at'[w] = at[w] /\ timer'[w] = timer[w]
      BY <1>0, <2>1, <2>5
    <3>. QED  BY <2>1, <2>2, <2>4, <3>1, RaceKept
  <2>6. CASE w = r
    <3>1. timer[w] = "unborn" /\ timer'[w] = "armed" /\ at'[w] = "child"
      BY <1>0, <2>1, <2>3, <2>6
    <3>2. first[w] = "none" /\ verdict[w] = {} /\ at[child[w]] = "initial"
      BY <1>0, <1>t, <3>1 DEF RaceOf
    <3>. QED  BY <2>1, <2>4, <3>1, <3>2 DEF RaceOf, VerdictOf
  <2>. QED  BY <2>5, <2>6
<1>7. CASE AwaitIo
  <2>1. /\ running \in Frame \ Waiter /\ at[running] = "running"
        /\ at' = [at EXCEPT ![running] = "io"]
        /\ UNCHANGED <<child, result, ready, waitVars>>
    BY <1>0, <1>7 DEF AwaitIo, TypeInv, TypeOK
  <2>2. /\ at'[w] = at[w]
        /\ at'[child[w]] = "final" <=> at[child[w]] = "final"
    BY <1>0, <2>1
  <2>. QED  BY <2>1, <2>2, RaceKept
<1>8. ASSUME NEW outcome \in {"value", "exception"}, Return(outcome)
      PROVE  RaceOf(w)' /\ VerdictOf(w)'
  <2> DEFINE r == running
  <2>1. /\ r \in Frame \ Waiter /\ at[r] = "running"
        /\ result' = [result EXCEPT ![r] = outcome]
        /\ at' = [at EXCEPT ![r] = "final"]
        /\ ready' = IF parent[r] = NoFrame THEN ready
                    ELSE Append(ready, F(parent[r]))
        /\ first'[w] = IF first[w] = "none" /\ child[w] = r
                       THEN "child" ELSE first[w]
        /\ UNCHANGED <<child, timer, fired, verdict>>
    BY <1>0, <1>8, ReturnStep
  <2>2. \A e, g : Ahead(ready, e, g) => Ahead(ready', e, g)
    BY <1>0, <2>1, EntryKinds, AppendQueue
  <2>3. at'[w] = at[w] /\ at[w] # "running"
    BY <1>0, <2>1
  <2>4. CASE child[w] # r
    BY <1>0, <2>1, <2>2, <2>3, <2>4, RaceKept
  <2>5. CASE child[w] = r
    <3>1. at[child[w]] # "final" /\ at'[child[w]] = "final"
      BY <1>0, <2>1, <2>5
    <3>2. verdict[w] = {} /\ first[w] # "child"
      BY <3>1 DEF RaceOf, VerdictOf
    <3>3. CASE first[w] = "timer"
      BY <2>1, <2>2, <2>3, <3>1, <3>2, <3>3 DEF RaceOf, VerdictOf
    <3>4. CASE first[w] = "none"
      <4>1. first'[w] = "child" /\ timer[w] # "queued"
        BY <2>1, <2>5, <3>4 DEF RaceOf
      <4>2. ASSUME timer[w] = "armed"
            PROVE  Ahead(ready', F(w), T(w))
        <5>1. ready' = Append(ready, F(w))
          BY <1>0, <1>t, <2>1, <2>5, <4>2
        <5>. QED  BY <1>0, <1>t, <4>1, <5>1, EntryKinds, EntriesDiffer,
                     AppendQueue
      <4>. QED  BY <2>1, <2>3, <3>1, <3>2, <3>4, <4>1, <4>2
                DEF RaceOf, VerdictOf
    <3>. QED  BY <1>0, <3>2, <3>3, <3>4
  <2>. QED  BY <2>4, <2>5
<1>9. CASE WaitForReturns
  <2> DEFINE r == running  q == Cleared(ready, {T(r)})
  <2>1. /\ r \in Waiter /\ timer[r] # "unborn" /\ at[r] = "running"
        /\ verdict' = [verdict EXCEPT ![r] =
              {[ok |-> result[child[r]] = "value", isTimeout |-> fired[r]]}]
        /\ timer' = [timer EXCEPT ![r] = "over"]
        /\ at' = [at EXCEPT ![r] = "final"]
        /\ result' = [result EXCEPT ![r] = "value"]
        /\ ready' = IF parent[r] = NoFrame THEN q ELSE Append(q, F(parent[r]))
        /\ UNCHANGED <<child, fired, first>>
    BY <1>0, <1>9, WaitForReturnsStep
  <2>2. /\ at'[child[w]] = at[child[w]]
        /\ result'[child[w]] = result[child[w]]
    BY <1>0, <2>1
  <2>3. CASE w # r
    <3>1. /\ q \in Seq(Entry)
          /\ \A e, g : e \in {F(w), T(w)} /\ g \in {F(w), T(w)} =>
                (Ahead(ready, e, g) => Ahead(q, e, g))
      BY <1>0, <2>3, ClearedQueue, EntriesDiffer
    <3> HIDE DEF q
    <3>2. \A e, g : Ahead(q, e, g) => Ahead(ready', e, g)
      BY <1>0, <2>1, <3>1, EntryKinds, AppendQueue
    <3>3. at'[w] = at[w] /\ timer'[w] = timer[w] /\ verdict'[w] = verdict[w]
      BY <1>0, <2>1, <2>3
    <3>. QED  BY <2>1, <2>2, <3>1, <3>2, <3>3, RaceKept
  <2>4. CASE w = r
    <3> HIDE DEF q
    <3>1. at'[w] = "final" /\ timer'[w] = "over" /\ at[child[w]] = "final"
      BY <1>0, <2>1, <2>4 DEF RaceOf
    <3>2. verdict'[w] =
             {[ok |-> result[child[w]] = "value", isTimeout |-> fired[w]]}
      BY <1>0, <2>1, <2>4
    <3>3. fired[w] <=> first[w] = "timer"
      BY <1>0, <2>1, <2>4 DEF RaceOf
    <3>4. \A v \in verdict'[w] : /\ v.isTimeout <=> first[w] = "timer"
                                 /\ v.ok <=> result[child[w]] = "value"
      <4> SUFFICES ASSUME NEW v \in verdict'[w]
                   PROVE  /\ v.isTimeout <=> first[w] = "timer"
                          /\ v.ok <=> result[child[w]] = "value"
        OBVIOUS
      <4>1. v = [ok |-> result[child[w]] = "value", isTimeout |-> fired[w]]
        BY <3>2
      <4>2. v.ok = (result[child[w]] = "value") /\ v.isTimeout = fired[w]
        BY <4>1
      <4>. QED  BY <3>3, <4>2
    <3>. QED  BY <2>1, <2>2, <3>1, <3>3, <3>4 DEF RaceOf, VerdictOf
  <2>. QED  BY <2>3, <2>4
<1>10. ASSUME NEW f \in Frame, Cancel(f)
       PROVE  RaceOf(w)' /\ VerdictOf(w)'
  <2>1. /\ at[f] \in {"initial", "io", "child"}
        /\ at' = [at EXCEPT ![f] = "gone"]
        /\ ready' = Cleared(ready, {F(f), T(f)})
        /\ timer' = IF f \in Waiter THEN [timer EXCEPT ![f] = "over"] ELSE timer
        /\ UNCHANGED <<child, result, fired, verdict, first>>
    BY <1>10, CancelStep
  <2>2. at'[child[w]] = "final" <=> at[child[w]] = "final"
    BY <1>0, <2>1
  <2>3. CASE f # w
    <3>1. \A e, g : e \in {F(w), T(w)} /\ g \in {F(w), T(w)} =>
             (Ahead(ready, e, g) => Ahead(ready', e, g))
      <4> DEFINE E == {F(f), T(f)}
      <4> SUFFICES ASSUME NEW e \in {F(w), T(w)}, NEW g \in {F(w), T(w)},
                          Ahead(ready, e, g)
                   PROVE  Ahead(Cleared(ready, E), e, g)
        BY <2>1
      <4>1. e \notin E /\ g # Dropped
        BY <2>3, EntriesDiffer
      <4> HIDE DEF E
      <4>. QED  BY <1>0, <4>1, ClearedQueue
    <3>2. at'[w] = at[w] /\ timer'[w] = timer[w]
      BY <1>0, <2>1, <2>3
    <3>. QED  BY <2>1, <2>2, <3>1, <3>2, RaceKept
  <2>4. CASE f = w
    <3>1. at'[w] = "gone" /\ timer'[w] = "over"
      BY <1>0, <2>1, <2>4
    <3>2. verdict[w] = {}
      BY <2>1, <2>4 DEF VerdictOf
    <3>. QED  BY <2>1, <2>2, <3>1, <3>2 DEF RaceOf, VerdictOf
  <2>. QED  BY <2>3, <2>4
<1>11. WaitFor => child[running] \in Frame
  BY <1>0 DEF WaitFor, TypeInv
<1>. QED  BY <1>1, <1>2, <1>3, <1>4, <1>5, <1>6, <1>7, <1>8, <1>9, <1>10,
             <1>11 DEF Next, LoopStep, FrameStep

RacesInv == CarefulInv /\ Races

LEMMA NextRaces == Careful /\ RacesInv /\ [Next]_vars => RacesInv'
<1> SUFFICES ASSUME Careful, RacesInv, [Next]_vars PROVE Races'
  BY NextCarefulInv DEF RacesInv
<1>1. CASE Next
  BY <1>1, NextRace DEF RacesInv, Races
<1>2. CASE UNCHANGED vars
  BY <1>2 DEF vars, RacesInv, Races, RaceOf, VerdictOf, Ahead
<1>. QED  BY <1>1, <1>2

\* wait_for() of a careful program reports a timeout if and only if its
\* deadline passed before the child ended, and success if and only if the child
\* returned: the order of the ready queue decides the race, with no clock.
THEOREM VerdictTrue ==
    ASSUME Careful
    PROVE  Spec => []VerdictIsTrue
<1>1. Init => RacesInv
  <2> SUFFICES ASSUME Init, NEW w \in Waiter PROVE RaceOf(w) /\ VerdictOf(w)
    BY InitCarefulInv DEF RacesInv, Races
  <2>1. /\ child[w] \in Frame /\ timer[w] = "unborn" /\ first[w] = "none"
        /\ ~fired[w] /\ verdict[w] = {} /\ at[child[w]] = "initial"
    BY FrameAssumption DEF Init
  <2>. QED  BY <2>1 DEF RaceOf, VerdictOf
<1>2. RacesInv => VerdictIsTrue
  BY DEF RacesInv, Races, VerdictOf, VerdictIsTrue
<1>3. RacesInv /\ [Next]_vars => RacesInv'
  BY NextRaces
<1>. QED  BY <1>1, <1>2, <1>3, PTL DEF Spec
=============================================================================
