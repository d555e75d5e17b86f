------------------------------ MODULE Wakeups ------------------------------
(***************************************************************************)
(* What an event loop promises to the coroutines that wait in it: one runs *)
(* at a time; each suspension is ended at most once, by a wake-up that     *)
(* comes when its cause is there; a cancelled one is never resumed.        *)
(***************************************************************************)
CONSTANTS Coroutine

VARIABLES
    life,   \* "new", "waiting", "woken", "running" or "done"
    due     \* the coroutines the cause of whose suspension is there

wakeupVars == <<life, due>>

WakeupsInit ==
    /\ \E c \in Coroutine :
         life = [d \in Coroutine |-> IF d = c THEN "woken" ELSE "new"]
    /\ due = {}

SomebodyRuns == \E c \in Coroutine : life[c] = "running"

Become(c, st) == life' = [life EXCEPT ![c] = st]

Start(c) == SomebodyRuns /\ life[c] = "new" /\ Become(c, "woken")

Suspend(c) == life[c] = "running" /\ Become(c, "waiting")

Wake(S) ==
    /\ \A c \in S : life[c] = "waiting" /\ c \in due
    /\ life' = [c \in Coroutine |-> IF c \in S THEN "woken" ELSE life[c]]

Resume(c) == ~SomebodyRuns /\ life[c] = "woken" /\ Become(c, "running")

Finish(c) == life[c] = "running" /\ Become(c, "done")

Cancel(c) ==
    SomebodyRuns /\ life[c] \in {"waiting", "woken"} /\ Become(c, "done")

\* Causes come and go with time, peers and suspensions.
WakeupsNext ==
    \/ \E c \in Coroutine :
         Start(c) \/ Suspend(c) \/ Resume(c) \/ Finish(c) \/ Cancel(c)
    \/ \E S \in SUBSET Coroutine : Wake(S)
    \/ UNCHANGED life

WakeupsSpec == WakeupsInit /\ [][WakeupsNext]_wakeupVars
=============================================================================
