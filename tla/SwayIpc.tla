------------------------------- MODULE SwayIpc -------------------------------
(***************************************************************************)
(* The connection to Sway (sway-ipc.c).  When it has been opened, requests *)
(* are sent: send takes any part of them, or none.  Then messages with a   *)
(* header of fixed size and a payload are put together in one reused       *)
(* buffer from a non-blocking stream, whose reads may end anywhere.  Each  *)
(* call of send, recv and poll is a step.                                  *)
(*                                                                         *)
(* A byte is known by the message it belongs to and its place in it; the   *)
(* size and the type of a message are each in one byte of the header.      *)
(***************************************************************************)
EXTENDS Integers, Sequences, SequencesExt

CONSTANTS
    Messages,       \* [size, type]: what Sway may send
    HeaderSize,     \* SWAY_IPC_HEADER_SIZE
    SizeAt, TypeAt, \* places in the header of the payload's size and the type
    SizeMax,        \* SIZE_MAX
    Requests,       \* the sizes of the payloads main sends, in order
    OpenMayFail, AllocMayFail, SendMayFail, RecvMayFail,
    Junk,           \* a message nobody sent, for uninitialised memory
    MaxMessages     \* bound on what Sway sends

ASSUME SwayIpcAssumption ==
    /\ \A m \in Messages : m.size \in Nat
    /\ HeaderSize \in Nat /\ SizeMax \in Nat /\ HeaderSize < SizeMax
    /\ SizeAt \in 1..HeaderSize /\ TypeAt \in 1..HeaderSize
    /\ Junk \notin Messages
    /\ Requests \in Seq(Nat) /\ Requests # <<>>
    /\ {OpenMayFail, AllocMayFail, SendMayFail, RecvMayFail} \subseteq BOOLEAN

VARIABLES
    \* Sway and the socket
    sent,           \* messages sent
    pending,        \* bytes of them that are not in the socket yet
    wire,           \* bytes in the socket
    hung_up,        \* Sway has closed its end
    requested,      \* bytes of requests that Sway has got
    \* struct sway_ipc_state
    open,           \* fd is not -1
    buffer,         \* of length buffer_size
    received, payload_size,
    \* main
    stage,          \* "start"; "send", "wait" until the socket takes more, and
                    \* "ready" when it does; "poll", or "recv" in the loop that
                    \* calls sway_ipc_recv; "killed" by SIGPIPE
    unsent,         \* what sway_ipc_send_data has still to send, part by part
    delivered       \* messages returned to main

sway == <<sent, pending, hung_up>>
sending == <<requested, unsent>>
receiving == <<buffer, received, payload_size, delivered>>
vars == <<sway, sending, wire, open, receiving, stage>>

-----------------------------------------------------------------------------
Byte(m, k) == [message |-> m, at |-> k]

BytesOf(m) == [k \in 1..(HeaderSize + m.size) |-> Byte(m, k)]

\* A request is sent as a header and, unless it is empty, a payload.
Parts(i) ==
    LET header  == [k \in 1..HeaderSize |-> <<i, k>>]
        payload == [k \in 1..Requests[i] |-> <<i, HeaderSize + k>>]
    IN  IF Requests[i] = 0 THEN <<header>> ELSE <<header, payload>>

AllParts == FlattenSeq([i \in DOMAIN Requests |-> Parts(i)])

(***************************************************************************)
(* Asked for events, Sway writes its messages one after the other, in      *)
(* pieces of any length, and may go away, leaving a message unfinished.    *)
(***************************************************************************)
Send(m) ==
    /\ Len(sent) < MaxMessages
    /\ ~hung_up
    /\ IsPrefix(FlattenSeq(Parts(1)), requested)
    /\ sent' = Append(sent, m)
    /\ pending' = pending \o BytesOf(m)
    /\ UNCHANGED <<hung_up, sending, wire, open, receiving, stage>>

Write ==
    /\ ~hung_up
    /\ \E n \in 1..Len(pending) :
        /\ wire' = wire \o SubSeq(pending, 1, n)
        /\ pending' = SubSeq(pending, n + 1, Len(pending))
    /\ UNCHANGED <<sent, hung_up, sending, open, receiving, stage>>

HangUp ==
    /\ ~hung_up
    /\ hung_up' = TRUE
    /\ UNCHANGED <<sent, pending, sending, wire, open, receiving, stage>>

-----------------------------------------------------------------------------
(***************************************************************************)
(* Opening the socket, and the calls of send and poll in sway_ipc_send.    *)
(***************************************************************************)
Open ==
    /\ stage = "start"
    /\ \/ open' = TRUE /\ stage' = "send"
       \/ OpenMayFail /\ open' = FALSE /\ stage' = "poll"
    /\ UNCHANGED <<sway, sending, wire, receiving>>

Sending == stage \in {"send", "ready"}

\* Mutant: what follows a part that was sent in pieces is not advanced.
LeftWhole(n) ==
    IF n = Len(Head(unsent)) THEN Tail(unsent)
    ELSE <<SubSeq(Head(unsent), 1, Len(Head(unsent)) - n)>> \o Tail(unsent)

\* Mutant: sending stops when the socket takes a part in pieces.
LeftNothing(n) == IF n = Len(Head(unsent)) THEN Tail(unsent) ELSE <<>>

Left(n) ==
    IF n = Len(Head(unsent)) THEN Tail(unsent)
    ELSE <<SubSeq(Head(unsent), n + 1, Len(Head(unsent)))>> \o Tail(unsent)

\* send takes n bytes; after the last part of the last request main polls.
SendSome(n) ==
    /\ Sending
    /\ ~hung_up
    /\ requested' = requested \o SubSeq(Head(unsent), 1, n)
    /\ unsent' = Left(n)
    /\ stage' = IF unsent' = <<>> THEN "poll" ELSE "send"
    /\ UNCHANGED <<sway, wire, open, receiving>>

\* EAGAIN; poll waits without a timeout, and is repeated on EINTR.
SendBlocked ==
    /\ stage = "send"
    /\ ~hung_up
    /\ stage' = "wait"
    /\ UNCHANGED <<sway, sending, wire, open, receiving>>

Writable ==
    /\ stage = "wait"
    /\ stage' = "ready"
    /\ UNCHANGED <<sway, sending, wire, open, receiving>>

\* send or poll fails: the rest, and the requests after it, are not sent.
SendFails ==
    /\ Sending \/ stage = "wait"
    /\ SendMayFail \/ hung_up
    /\ open' = FALSE
    /\ unsent' = <<>>
    /\ stage' = "poll"
    /\ UNCHANGED <<sway, requested, wire, receiving>>

\* To send to a socket that Sway has closed raises SIGPIPE, which nothing
\* in the program ignores.
Killed ==
    /\ Sending
    /\ hung_up
    /\ open' = FALSE
    /\ stage' = "killed"
    /\ UNCHANGED <<sway, sending, wire, receiving>>

-----------------------------------------------------------------------------
(***************************************************************************)
(* One call of recv in sway_ipc_recv, and what follows it up to the next.  *)
(***************************************************************************)
Expected == HeaderSize + payload_size

Grown ==
    IF Len(buffer) >= Expected THEN buffer
    ELSE [k \in 1..Expected |->
            IF k <= Len(buffer) THEN buffer[k] ELSE Byte(Junk, k)]

\* sway_ipc_close.
Close ==
    /\ open' = FALSE
    /\ buffer' = <<>>
    /\ stage' = "poll"
    /\ UNCHANGED <<wire, delivered>>

Calling == stage = "recv" /\ open

GrowFails ==
    /\ Calling
    /\ AllocMayFail
    /\ Len(buffer) < Expected
    /\ Close
    /\ UNCHANGED <<sway, sending, received, payload_size>>

RecvFails ==
    /\ Calling
    /\ RecvMayFail
    /\ Close
    /\ UNCHANGED <<sway, sending, received, payload_size>>

\* EAGAIN.
NothingToRead ==
    /\ Calling
    /\ wire = <<>> /\ ~hung_up
    /\ buffer' = Grown
    /\ stage' = "poll"
    /\ UNCHANGED <<sway, sending, wire, open, received, payload_size, delivered>>

\* Mutant: a later part of a message overwrites the first.
StoreAtStart(n) ==
    [k \in DOMAIN Grown |-> IF k <= n THEN wire[k] ELSE Grown[k]]

Store(n) ==
    [k \in DOMAIN Grown |->
        IF k \in (received + 1)..(received + n) THEN wire[k - received] ELSE Grown[k]]

\* Mutant: bytes are left in the socket.
Peek(n) ==
    /\ Calling
    /\ n <= Len(wire) /\ n <= Expected - received
    /\ n = 0 => wire = <<>> /\ hung_up
    /\ buffer' = Store(n)
    /\ UNCHANGED <<sway, sending, open, wire>>

\* recv returns n bytes; 0 at the end of the stream, which is no error.
Take(n) ==
    /\ Calling
    /\ n <= Len(wire) /\ n <= Expected - received
    /\ n = 0 => wire = <<>> /\ hung_up
    /\ wire' = SubSeq(wire, n + 1, Len(wire))
    /\ buffer' = Store(n)
    /\ UNCHANGED <<sway, sending, open>>

\* Mutants: the header's fields are read before they are there; a message
\* of nothing but a header is waited for longer.
HasAny(n) == TRUE
HasMoreThanHeader(n) == received + n > HeaderSize

HasHeader(n) == received + n >= HeaderSize

\* The message is not complete: poll again.
RecvPart(n) ==
    /\ Take(n)
    /\ HasHeader(n) => payload_size # 0 /\ received + n # Expected
    /\ received' = received + n
    /\ stage' = "poll"
    /\ UNCHANGED <<payload_size, delivered>>

\* The header says that there is a payload: receive it at once.
RecvHeader(n) ==
    /\ Take(n)
    /\ HasHeader(n) /\ payload_size = 0
    /\ payload_size' = buffer'[SizeAt].message.size
    /\ payload_size' \in 1..(SizeMax - HeaderSize)
    /\ received' = received + n
    /\ UNCHANGED <<stage, delivered>>

\* The size of the buffer for such a payload would overflow.
RecvTooBig(n) ==
    /\ Calling
    /\ n <= Len(wire) /\ n <= Expected - received
    /\ HasHeader(n) /\ payload_size = 0
    /\ payload_size' = Store(n)[SizeAt].message.size
    /\ payload_size' > SizeMax - HeaderSize
    /\ received' = received + n
    /\ Close
    /\ UNCHANGED <<sway, sending>>

\* The message is complete, and returned in place; main calls again.
RecvLast(n) ==
    /\ Take(n)
    /\ HasHeader(n)
    /\ IF payload_size = 0 THEN buffer'[SizeAt].message.size = 0
                           ELSE received + n = Expected
    /\ delivered' = Append(delivered,
            [size |-> payload_size,
             type |-> buffer'[TypeAt].message.type,
             payload |-> SubSeq(buffer', HeaderSize + 1, Expected)])
    /\ received' = 0
    /\ payload_size' = 0
    /\ UNCHANGED stage

\* poll returns when there are bytes, or no more to come; on a closed
\* descriptor it returns without POLLIN, and nothing is called.
Poll ==
    /\ stage = "poll"
    /\ open
    /\ wire # <<>> \/ hung_up
    /\ stage' = "recv"
    /\ UNCHANGED <<sway, sending, wire, open, receiving>>

-----------------------------------------------------------------------------
SwayIpcSend ==
    \/ \E n \in 1..(IF Sending THEN Len(Head(unsent)) ELSE 0) : SendSome(n)
    \/ SendBlocked \/ Writable \/ Killed

SwayIpcRecv ==
    \/ NothingToRead
    \/ \E n \in 0..Len(wire) :
        RecvPart(n) \/ RecvHeader(n) \/ RecvTooBig(n) \/ RecvLast(n)

Init ==
    /\ sent = <<>> /\ pending = <<>> /\ wire = <<>> /\ hung_up = FALSE
    /\ requested = <<>> /\ unsent = AllParts
    /\ open = FALSE
    /\ buffer = <<>>
    /\ received = 0 /\ payload_size = 0
    /\ stage = "start"
    /\ delivered = <<>>

Next ==
    \/ \E m \in Messages : Send(m)
    \/ Write \/ HangUp
    \/ Open \/ SwayIpcSend
    \/ Poll \/ SwayIpcRecv
    \/ SendFails \/ GrowFails \/ RecvFails

Spec == Init /\ [][Next]_vars

\* Sway reads what it is sent and writes what it has to send; main does not
\* stop between two calls, none of which has to fail.
FairSpec ==
    /\ Spec
    /\ WF_vars(Write) /\ WF_vars(Open) /\ WF_vars(SwayIpcSend)
    /\ WF_vars(Poll) /\ WF_vars(SwayIpcRecv)

-----------------------------------------------------------------------------
(***************************************************************************)
(* Properties.                                                             *)
(***************************************************************************)
AnyByte == [message: Messages \union {Junk}, at: Nat]

TypeOK ==
    /\ sent \in Seq(Messages)
    /\ pending \in Seq(AnyByte) /\ wire \in Seq(AnyByte)
    /\ hung_up \in BOOLEAN
    /\ stage \in {"send", "ready", "wait"} => open /\ unsent # <<>>
    /\ open => stage \notin {"start", "killed"}
    /\ open \in BOOLEAN
    /\ buffer \in Seq(AnyByte)
    /\ received \in Nat /\ payload_size \in Nat
    /\ stage \in {"start", "send", "wait", "ready", "poll", "recv", "killed"}
    /\ Len(delivered) <= Len(sent)

\* Sway gets the requests one after the other, byte for byte, however send
\* takes them apart; main's loop begins when they are complete, or with the
\* socket closed.
RequestsAreWhole ==
    /\ IsPrefix(requested, FlattenSeq(AllParts))
    /\ stage \in {"poll", "recv"} /\ open => requested = FlattenSeq(AllParts)

\* A full socket delays the requests, but does not make them get lost: they
\* all arrive, unless the socket fails or Sway goes away.
EveryRequestArrives ==
    <>(requested = FlattenSeq(AllParts) \/ (~open /\ stage # "start"))

\* However the stream is cut, what has been received is the beginning of the
\* next message, byte for byte; the size taken from its header is its size,
\* and nothing beyond it has been read.
FramingIsExact ==
    open /\ received > 0 =>
        /\ Len(delivered) < Len(sent)
        /\ LET bytes == BytesOf(sent[Len(delivered) + 1])
           IN  /\ received < Len(bytes) /\ received <= Len(buffer)
               /\ SubSeq(buffer, 1, received) = SubSeq(bytes, 1, received)
               /\ payload_size = IF received < HeaderSize THEN 0
                                 ELSE sent[Len(delivered) + 1].size

\* A message as main gets it: its own header, and its payload's bytes in order.
AsReturned(m) ==
    [size |-> m.size, type |-> m.type,
     payload |-> [k \in 1..m.size |-> Byte(m, HeaderSize + k)]]

Stream == INSTANCE MessageStream WITH
    Messages <- {AsReturned(m) : m \in Messages},
    sent <- [k \in DOMAIN sent |-> AsReturned(sent[k])],
    open <- open \/ stage = "start"

\* Messages are returned whole, once each, in order, none after a close.
ReturnsTheStream == Stream!Spec

\* Unless the socket is closed on an error, or Sway goes away before it has
\* written everything, no message remains unread, even when several arrive at
\* once or one arrives in pieces.
EveryMessageArrives ==
    \A k \in 1..MaxMessages :
        Len(sent) >= k ~>
            (Len(delivered) >= k \/ ~open \/ (hung_up /\ pending # <<>>))
=============================================================================
