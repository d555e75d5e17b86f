----------------------------- MODULE RpcChannel -----------------------------
(***************************************************************************)
(* Channels of an RPC client (include/rpc/rpc_channel.inl): each is one    *)
(* TCP stream, on which a call writes its request and reads whatever       *)
(* answer comes first.  A call is a coroutine of the loop; it may share    *)
(* its channel with other calls, and the channel may be closed under it.   *)
(***************************************************************************)
EXTENDS Naturals, Sequences, FiniteSets

CONSTANTS
    Call,       \* calls, each with a controller of its own
    Chan,       \* channels; one that nobody refers to is created anew
    NoCall,     \* no awaiter
    NoChan      \* a null pointer

ASSUME NullAssumption == NoCall \notin Call /\ NoChan \notin Chan

VARIABLES
    chan,       \* the channels and both ends of their streams
    on,         \* the channel each call uses
    io,         \* where its task of write() and readToBuffer() is
    late,       \* the timer of its wait_for() came first
    failed,     \* m_failed of its controller
    own,        \* history: the answer taken last was to the call itself
    executed    \* history: how often the server has executed the call
                \* while it lasts, up to 2

callVars == <<on, io, late, failed>>
history == <<own, executed>>

\* A channel without a stream: requests and answers are on their way to the
\* server and back, and buffer holds answers too.  History: shared, two calls
\* were using it at once; missed, a call ended without its answer.
Closed ==
    [connected |-> FALSE, stream |-> FALSE, peer |-> FALSE, requests |-> <<>>,
     answers |-> <<>>, buffer |-> <<>>, reader |-> NoCall, shared |-> FALSE,
     missed |-> FALSE]

\* connect() has succeeded.
Opened == [Closed EXCEPT !.connected = TRUE, !.stream = TRUE, !.peer = TRUE]

ChannelInit ==
    /\ chan = [ch \in Chan |-> Closed]
    /\ on = [c \in Call |-> NoChan]
    /\ io = [c \in Call |-> "none"]
    /\ late = [c \in Call |-> FALSE]
    /\ failed = [c \in Call |-> FALSE]
    /\ own = [c \in Call |-> FALSE]
    /\ executed = [c \in Call |-> 0]

\* close() of some channels: what is in their streams is lost, and a reader
\* that waits is forgotten with its descriptor.
Close(S) ==
    [ch \in Chan |->
        IF ch \notin S THEN chan[ch]
        ELSE [Closed EXCEPT !.shared = chan[ch].shared, !.missed = chan[ch].missed]]

-----------------------------------------------------------------------------
\* CallMethodAsync().

Alone(c) ==
    \A d \in Call \ {c} :
        on[d] = on[c] => io[d] \notin {"write", "read", "reading", "done", "error"}

\* Mutant: the stream is taken to be there.
CallMethodAsyncUntested(c) ==
    LET ch == on[c]
    IN  /\ io' = [io EXCEPT ![c] = "write"]
        /\ chan' = [chan EXCEPT ![ch].shared = @ \/ ~Alone(c)]
        /\ UNCHANGED <<on, late, failed, history>>

\* Mutant: the controller is reset first.
CallMethodAsyncAnew(c) ==
    LET ch == on[c]
        open == chan[ch].connected /\ chan[ch].stream
    IN  /\ io' = [io EXCEPT ![c] = IF open THEN "write" ELSE "ended"]
        /\ failed' = [failed EXCEPT ![c] = ~open]
        /\ chan' = [chan EXCEPT ![ch].shared = @ \/ (open /\ ~Alone(c))]
        /\ UNCHANGED <<on, late, history>>

\* Up to the wait_for() of its I/O.
CallMethodAsync(c) ==
    LET ch == on[c]
    IN  /\ IF chan[ch].connected /\ chan[ch].stream
           THEN /\ io' = [io EXCEPT ![c] = "write"]
                /\ chan' = [chan EXCEPT ![ch].shared = @ \/ ~Alone(c)]
                /\ UNCHANGED failed
           ELSE /\ io' = [io EXCEPT ![c] = "ended"]
                /\ failed' = [failed EXCEPT ![c] = TRUE]
                /\ UNCHANGED chan
        /\ UNCHANGED <<on, late, history>>

\* m_stream is null where it is used.
NullStream(c) ==
    /\ ~chan[on[c]].stream
    /\ io' = [io EXCEPT ![c] = "crashed"]
    /\ UNCHANGED <<chan, on, late, failed, history>>

\* m_stream->write().  Bytes for a peer that is gone may be accepted.
Write(c) ==
    /\ io[c] = "write"
    /\ chan[on[c]].stream
    /\ IF chan[on[c]].peer
       THEN /\ chan' = [chan EXCEPT ![on[c]].requests = Append(@, c)]
            /\ io' = [io EXCEPT ![c] = "read"]
       ELSE /\ io' \in {[io EXCEPT ![c] = "read"], [io EXCEPT ![c] = "error"]}
            /\ UNCHANGED chan
    /\ UNCHANGED <<on, late, failed, history>>

\* Mutant: the end of the stream is not readable.
ReadableUntilEnd(ch) == chan[ch].answers # <<>>

\* Answers have come, or the end of the stream.
Readable(ch) == chan[ch].answers # <<>> \/ ~chan[ch].peer

\* readToBuffer() returns with all that has come.
ReadAll(c) ==
    LET ch == on[c]
    IN  /\ chan[ch].stream
        /\ Readable(ch)
        /\ io[c] = "read" \/ (io[c] = "reading" /\ chan[ch].reader = c)
        /\ chan' = [chan EXCEPT ![ch].buffer = @ \o chan[ch].answers,
                                ![ch].answers = <<>>,
                                ![ch].reader = IF @ = c THEN NoCall ELSE @]
        /\ io' = [io EXCEPT ![c] = "done"]
        /\ UNCHANGED <<on, late, failed, history>>

\* Or it waits: its awaiter displaces the one that is there.
ReadWaits(c) ==
    LET ch == on[c]
    IN  /\ io[c] = "read"
        /\ chan[ch].stream
        /\ ~Readable(ch)
        /\ chan' = [chan EXCEPT ![ch].reader = c]
        /\ io' = [io EXCEPT ![c] = "reading"]
        /\ UNCHANGED <<on, late, failed, history>>

\* The timeout passes while the I/O is going on.
Expire(c) ==
    /\ io[c] \in {"write", "read", "reading"}
    /\ ~late[c]
    /\ late' = [late EXCEPT ![c] = TRUE]
    /\ UNCHANGED <<chan, on, io, failed, history>>

\* A call that is late, or whose I/O has failed, decodes nothing.
FinishUnanswered(c) ==
    /\ io[c] = "error" \/ (io[c] = "done" /\ late[c])
    /\ io' = [io EXCEPT ![c] = "ended"]
    /\ failed' = [failed EXCEPT ![c] = TRUE]
    /\ late' = [late EXCEPT ![c] = FALSE]
    /\ own' = [own EXCEPT ![c] = FALSE]
    /\ chan' = [chan EXCEPT ![on[c]].missed = TRUE]
    /\ UNCHANGED <<on, executed>>

\* Mutant: decode() leaves what it has decoded in the buffer.
Undecoded(msgs) == msgs

\* decode() takes all answers out of the buffer.
Decoded(msgs) == <<>>

\* Of the decoded answers the first is taken, and the others are dropped.
Finish(c) ==
    LET msgs == chan[on[c]].buffer
    IN  /\ io[c] = "done" /\ ~late[c]
        /\ chan[on[c]].stream
        /\ io' = [io EXCEPT ![c] = "ended"]
        /\ failed' = [failed EXCEPT ![c] = @ \/ msgs = <<>> \/ ~Head(msgs)[2]]
        /\ own' = [own EXCEPT ![c] = msgs # <<>> /\ Head(msgs)[1] = c]
        /\ chan' = [chan EXCEPT ![on[c]].buffer = Decoded(msgs)]
        /\ UNCHANGED <<on, late, executed>>

\* A step of the I/O of a call, or of what follows it.
IoStep(c) ==
    \/ Write(c) \/ ReadAll(c) \/ ReadWaits(c)
    \/ FinishUnanswered(c) \/ Finish(c)
    \/ /\ io[c] \in {"write", "read"} \/ (io[c] = "done" /\ ~late[c])
       /\ NullStream(c)

-----------------------------------------------------------------------------
\* The server's end.

\* The provider answers in order, with or without an error.
Serve(ch, good) ==
    /\ chan[ch].peer
    /\ chan[ch].requests # <<>>
    /\ LET c == Head(chan[ch].requests)
       IN  /\ executed' = [executed EXCEPT ![c] =
                              IF io[c] = "none" \/ @ = 2 THEN @ ELSE @ + 1]
           /\ chan' = [chan EXCEPT ![ch].answers = Append(@, <<c, good>>),
                                   ![ch].requests = Tail(@)]
    /\ UNCHANGED <<callVars, own>>

\* The server stops, or loses the connection.
PeerCloses(ch) ==
    /\ chan[ch].peer
    /\ chan' = [chan EXCEPT ![ch].peer = FALSE, ![ch].requests = <<>>]
    /\ UNCHANGED <<callVars, history>>
=============================================================================
