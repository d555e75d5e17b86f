------------------------------- MODULE Epoll -------------------------------
(***************************************************************************)
(* The epoll wrapper of src/epoll.cc (one waiter per file descriptor and   *)
(* direction, named by its wait id) on top of the kernel's interest list,  *)
(* which is external: edge triggered, checked for readiness whenever a     *)
(* descriptor is added or modified, and emptied of a descriptor when that  *)
(* is closed.  The operations are actions over the variables of this       *)
(* module, for the event loop to use in its own.                           *)
(***************************************************************************)
EXTENDS Naturals, FiniteSets

CONSTANT Fd     \* numbers of file descriptors

Dir == {"in", "out"}

NoWait == 0     \* the wait id that stands for "no waiter"

VARIABLES
    eventMap,   \* m_event_map: the entry of a descriptor, if it is present
    waitToFd,   \* m_wait_to_fd, as a set of pairs
    interest,   \* kernel: directions watched, by registered descriptor
    registered, \* kernel: descriptors in the interest list
    level,      \* kernel: what a descriptor is ready for
    edge        \* kernel: readiness not reported yet

epollVars == <<eventMap, waitToFd, interest, registered, level, edge>>

NoEntry == [present |-> FALSE, wait |-> [d \in Dir |-> NoWait], events |-> {}]

Entry(wait, events) == [present |-> TRUE, wait |-> wait, events |-> events]

EpollTypeOK ==
    /\ eventMap \in [Fd -> [present : BOOLEAN, wait : [Dir -> Nat],
                            events : SUBSET Dir]]
    /\ waitToFd \subseteq [id : Nat, fd : Fd]
    /\ interest \in [Fd -> SUBSET Dir]
    /\ registered \subseteq Fd
    /\ level \in [Fd -> SUBSET Dir]
    /\ edge \in [Fd -> SUBSET Dir]

EpollInit ==
    /\ eventMap = [fd \in Fd |-> NoEntry]
    /\ waitToFd = {}
    /\ interest = [fd \in Fd |-> {}]
    /\ registered = {}
    /\ level = [fd \in Fd |-> {}]
    /\ edge = [fd \in Fd |-> {}]

\* Epoll::is_stop().
EpollIdle == \A fd \in Fd : ~eventMap[fd].present

-----------------------------------------------------------------------------
\* epoll_ctl: ADD wants a new descriptor, MOD a registered one; both report
\* again whatever the descriptor is ready for.

CtlWorks(fd, open) ==
    /\ fd \in open
    /\ eventMap[fd].events = {} <=> fd \notin registered

Watch(fd, events) ==
    /\ registered' = registered \cup {fd}
    /\ interest' = [interest EXCEPT ![fd] = events]
    /\ edge' = [edge EXCEPT ![fd] = level[fd]]

Unwatch(fd) ==
    /\ registered' = registered \ {fd}
    /\ interest' = [interest EXCEPT ![fd] = {}]
    /\ edge' = [edge EXCEPT ![fd] = {}]

\* Mutant: the mask is set, not extended.
OnlyNewEvent(fd, dir) == {dir}

WithEvent(fd, dir) == eventMap[fd].events \cup {dir}

\* add_reader() and add_writer(): the waiter replaces the one that was there.
\* When epoll_ctl fails the whole entry goes, the other direction included.
AddWaiter(fd, dir, id) ==
    LET old == eventMap[fd]
        others == {w \in waitToFd : w.id # old.wait[dir]}
        events == WithEvent(fd, dir)
    IN  /\ eventMap' = [eventMap EXCEPT ![fd] =
                          Entry([old.wait EXCEPT ![dir] = id], events)]
        /\ waitToFd' = others \cup {[id |-> id, fd |-> fd]}
        /\ Watch(fd, events)

AddWaiterFails(fd, dir, id) ==
    /\ eventMap' = [eventMap EXCEPT ![fd] = NoEntry]
    /\ waitToFd' = {w \in waitToFd : w.id \notin {eventMap[fd].wait[dir], id}}
    /\ UNCHANGED <<interest, registered, edge>>

-----------------------------------------------------------------------------
\* cancel_wait(): the waiter leaves its entry, and the entry goes with its
\* last waiter.  An id whose entry has been replaced or dropped is forgotten;
\* looking its descriptor up creates an empty entry if there was none.

\* Mutant: the descriptor is dropped with its first waiter.
NothingRemaining(fd, id) == {}

Remaining(fd, id) == {d \in eventMap[fd].events : eventMap[fd].wait[d] # id}

ForgetWaiter(id) ==
    /\ \A w \in waitToFd : w.id # id
    /\ UNCHANGED <<eventMap, waitToFd, interest, registered, edge>>

DropStaleWaiter(id, fd) ==
    /\ \A d \in Dir : eventMap[fd].wait[d] # id
    /\ eventMap' = [eventMap EXCEPT ![fd] = Entry(@.wait, @.events)]
    /\ UNCHANGED <<interest, registered, edge>>

DropLastWaiter(id, fd) ==
    /\ \E d \in Dir : eventMap[fd].wait[d] = id
    /\ Remaining(fd, id) = {}
    /\ eventMap' = [eventMap EXCEPT ![fd] = NoEntry]
    /\ Unwatch(fd)

DropOneWaiter(id, fd) ==
    /\ \E d \in Dir : eventMap[fd].wait[d] = id
    /\ Remaining(fd, id) # {}
    /\ eventMap' = [eventMap EXCEPT ![fd] =
                      Entry([d \in Dir |-> IF @.wait[d] = id THEN NoWait
                                                           ELSE @.wait[d]],
                            Remaining(fd, id))]
    /\ IF fd \in registered THEN Watch(fd, Remaining(fd, id))
                            ELSE UNCHANGED <<interest, registered, edge>>

CancelWaiter(id) ==
    \/ ForgetWaiter(id)
    \/ \E w \in waitToFd :
         /\ w.id = id
         /\ waitToFd' = waitToFd \ {w}
         /\ \/ DropStaleWaiter(id, w.fd)
            \/ DropLastWaiter(id, w.fd)
            \/ DropOneWaiter(id, w.fd)

-----------------------------------------------------------------------------
\* epoll_wait: every registered descriptor with news is reported, with all it
\* is ready for, and the wait ids of the directions reported are the result.

Reported(fd) == level[fd] \cap interest[fd]

Fired == {fd \in registered : edge[fd] \cap Reported(fd) # {}}

FiredWaits ==
    (UNION {{eventMap[fd].wait[d] : d \in Reported(fd)} : fd \in Fired}) \ {NoWait}

ReportFired ==
    /\ edge' = [fd \in Fd |-> IF fd \in Fired THEN {} ELSE edge[fd]]
    /\ UNCHANGED <<eventMap, waitToFd, interest, registered, level>>

\* The peer acts: the descriptor becomes readable or writable.
Arrive(fd, d) ==
    /\ d \notin level[fd]
    /\ level' = [level EXCEPT ![fd] = @ \cup {d}]
    /\ edge' = [edge EXCEPT ![fd] = @ \cup {d}]
    /\ UNCHANGED <<eventMap, waitToFd, interest, registered>>

\* close(2): the kernel forgets the descriptor, this class is not told.
CloseFd(fd) ==
    /\ registered' = registered \ {fd}
    /\ interest' = [interest EXCEPT ![fd] = {}]
    /\ level' = [level EXCEPT ![fd] = {}]
    /\ edge' = [edge EXCEPT ![fd] = {}]
    /\ UNCHANGED <<eventMap, waitToFd>>
=============================================================================
