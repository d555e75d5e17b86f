----------------------------- MODULE ItemPool ------------------------------
(***************************************************************************)
(* What a channel promises about the items put into it, whoever runs on    *)
(* whatever thread: an accepted item is taken at most once, in order if    *)
(* the channel is ordered; an item leaves without being taken only when    *)
(* its sender is told so, or after the channel was closed.                 *)
(***************************************************************************)
EXTENDS Naturals, Sequences, FiniteSets

CONSTANT Ordered    \* items are taken in the order of their acceptance

VARIABLES
    open,       \* the channel was not closed
    accepted,   \* items accepted so far: 1 .. accepted
    pending,    \* accepted and not yet taken
    taken,      \* taken items, in order
    returned    \* items whose sender was told that they were not taken

poolVars == <<open, accepted, pending, taken, returned>>

PoolInit ==
    /\ open = TRUE
    /\ accepted = 0
    /\ pending = {}
    /\ taken = <<>>
    /\ returned = {}

Accept ==
    /\ accepted' = accepted + 1
    /\ pending' = pending \cup {accepted + 1}
    /\ UNCHANGED <<open, taken, returned>>

Take(i) ==
    /\ i \in pending
    /\ Ordered => \A j \in pending : i <= j
    /\ pending' = pending \ {i}
    /\ taken' = Append(taken, i)
    /\ UNCHANGED <<open, accepted, returned>>

Remove(back, drop) ==
    /\ back \cup drop \subseteq pending
    /\ back \cap drop = {}
    /\ drop # {} => ~open
    /\ pending' = pending \ (back \cup drop)
    /\ returned' = returned \cup back
    /\ UNCHANGED <<open, accepted, taken>>

Close ==
    /\ open
    /\ open' = FALSE
    /\ UNCHANGED <<accepted, pending, taken, returned>>

PoolNext ==
    \/ Accept
    \/ \E i \in pending : Take(i)
    \/ \E back, drop \in SUBSET pending : Remove(back, drop)
    \/ Close

PoolSpec == PoolInit /\ [][PoolNext]_poolVars
=============================================================================
