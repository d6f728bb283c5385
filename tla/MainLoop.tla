------------------------------ MODULE MainLoop ------------------------------
(***************************************************************************)
(* The loop of main and its exits (main.c).  One thread reads the Wayland  *)
(* socket through libwayland, which wants every intent to read to be used  *)
(* or cancelled, flushes what it has to say to a socket that may be full,  *)
(* sleeps in poll, receives the messages of Sway and draws what they and   *)
(* the events have changed.                                                *)
(*                                                                         *)
(* What the handlers change, and what is drawn, is the matter of           *)
(* Workspaces, Output and Buffers: here it is one flag, `dirty`.  The      *)
(* connection to Sway is a MessageStream, which SwayIpc implements.        *)
(***************************************************************************)
EXTENDS Naturals, Sequences, SequencesExt

CONSTANTS
    FailuresHappen, \* whether a system call may fail with no reason modelled
    MaxEvents,      \* bound on the Wayland events sent
    MaxMessages     \* bound on the messages Sway sends

ASSUME MainLoopAssumption ==
    FailuresHappen \in BOOLEAN /\ MaxEvents \in Nat /\ MaxMessages \in Nat

VARIABLES
    \* the compositor and its socket
    connected,      \* the compositor keeps the connection
    events,         \* events sent, for the bound
    incoming,       \* events in the socket
    room,           \* the socket takes at least one request
    \* Sway
    sent, delivered, open,  \* the MessageStream
    sway_gone,      \* Sway has closed its end
    \* libwayland
    readers,        \* reader_count: announced reads
    queued,         \* events read and not dispatched
    outgoing,       \* requests not flushed
    \* main
    exit_on_reload, \* state.exit_on_reload
    pc,
    watched,        \* pfd[1].fd is not -1
    ready,          \* the descriptors that poll found readable
    dirty           \* something has changed that is not drawn

compositor == <<connected, events, incoming, room>>
stream == <<sent, delivered, open>>
library == <<readers, queued, outgoing>>
main == <<exit_on_reload, watched, ready, dirty>>
vars == <<compositor, stream, sway_gone, library, main, pc>>

MessageTypes == {"change", "reload", "other"}

Sway == INSTANCE MessageStream WITH Messages <- MessageTypes

-----------------------------------------------------------------------------
(***************************************************************************)
(* The other ends.                                                         *)
(***************************************************************************)
CompositorSends ==
    /\ connected
    /\ events < MaxEvents
    /\ events' = events + 1
    /\ incoming' = incoming + 1
    /\ UNCHANGED <<connected, room, stream, sway_gone, library, main, pc>>

CompositorReads ==
    /\ connected
    /\ ~room
    /\ room' = TRUE
    /\ UNCHANGED <<connected, events, incoming, stream, sway_gone, library, main, pc>>

CompositorLeaves ==
    /\ connected
    /\ connected' = FALSE
    /\ UNCHANGED <<events, incoming, room, stream, sway_gone, library, main, pc>>

SwaySends(type) ==
    /\ ~sway_gone
    /\ pc # "start"
    /\ Len(sent) < MaxMessages
    /\ Sway!Send(type)
    /\ UNCHANGED <<compositor, sway_gone, library, main, pc>>

SwayLeaves ==
    /\ ~sway_gone
    /\ sway_gone' = TRUE
    /\ UNCHANGED <<compositor, stream, library, main, pc>>

-----------------------------------------------------------------------------
(***************************************************************************)
(* Before the loop: without the compositor or an interface of it main      *)
(* returns, and SIGPIPE ends it if Sway has gone; without Sway, or if the  *)
(* requests cannot be sent, it goes on without watching the socket.        *)
(***************************************************************************)
Start ==
    /\ pc = "start"
    /\ connected
    /\ \/ UNCHANGED stream
       \/ (FailuresHappen \/ sway_gone) /\ Sway!Close
    /\ watched' = open'
    /\ outgoing' \in 0..1
    /\ pc' = "prepare"
    /\ UNCHANGED <<compositor, sway_gone, readers, queued, exit_on_reload, ready,
                   dirty>>

CannotStart ==
    /\ pc = "start"
    /\ FailuresHappen \/ ~connected \/ sway_gone
    /\ pc' = "done"
    /\ UNCHANGED <<compositor, stream, sway_gone, library, main>>

\* wl_display_prepare_read, once what is queued has been dispatched.  The exit
\* taken if wl_display_dispatch_pending fails here (main.c:903-905) is left
\* out: it takes an event that is still queued, and whatever was read has been
\* dispatched before the loop turns (NothingQueued in MainLoopProofs).
PrepareRead ==
    /\ pc = "prepare"
    /\ dirty' = (dirty \/ queued > 0)
    /\ queued' = 0
    /\ readers' = readers + 1
    /\ pc' = "flush"
    /\ UNCHANGED <<compositor, stream, sway_gone, outgoing, exit_on_reload, watched,
                   ready>>

\* wl_display_flush sends all requests; or some, and reports EAGAIN.
\* Mutant: poll sleeps on what could not be sent.
AfterEagain == "poll"

AfterPart == "wait"

Flush(n) ==
    /\ pc = "flush"
    /\ connected
    /\ room /\ outgoing > 0 => n > 0
    /\ outgoing' = outgoing - n
    /\ room' \in IF n = outgoing THEN {room, FALSE} ELSE {FALSE}
    /\ pc' = IF n = outgoing THEN "poll" ELSE AfterPart
    /\ UNCHANGED <<connected, events, incoming, stream, sway_gone, readers, queued, main>>

\* poll for POLLOUT.
Wait ==
    /\ pc = "wait"
    /\ room \/ ~connected
    /\ pc' = "flush"
    /\ UNCHANGED <<compositor, stream, sway_gone, library, main>>

\* EPIPE: what the compositor has sent before it left is still to be read.
\* Mutant: it is waited for, as after EAGAIN.
AfterEpipeWait == "wait"

AfterEpipe == "poll"

FlushBroken ==
    /\ pc = "flush"
    /\ ~connected
    /\ pc' = AfterEpipe
    /\ UNCHANGED <<compositor, stream, sway_gone, library, main>>

\* flush or one of the two polls fails for another reason.
\* Mutant: the announced read is not cancelled.
LeaveReading ==
    /\ pc \in {"flush", "wait", "poll"}
    /\ FailuresHappen
    /\ pc' = "exit"
    /\ UNCHANGED <<compositor, stream, sway_gone, library, main>>

CancelReadAndExit ==
    /\ pc \in {"flush", "wait", "poll"}
    /\ FailuresHappen
    /\ readers' = readers - 1
    /\ pc' = "exit"
    /\ UNCHANGED <<compositor, stream, sway_gone, queued, outgoing, exit_on_reload,
                   watched, ready, dirty>>

-----------------------------------------------------------------------------
(***************************************************************************)
(* poll sleeps until a descriptor has something to tell: data, the end of  *)
(* the stream (POLLIN, too), or that it is not open (not POLLIN).          *)
(***************************************************************************)
DisplayReadable == incoming > 0 \/ ~connected
SwayReadable == watched /\ open /\ (Len(delivered) < Len(sent) \/ sway_gone)
SwayInvalid == watched /\ ~open

Poll ==
    /\ pc = "poll"
    /\ DisplayReadable \/ SwayReadable \/ SwayInvalid
    /\ ready' = {fd \in {"display", "sway"} :
                    IF fd = "display" THEN DisplayReadable ELSE SwayReadable}
    /\ pc' = "read"
    /\ UNCHANGED <<compositor, stream, sway_gone, library, exit_on_reload, watched,
                   dirty>>

\* wl_display_dispatch_pending after n events have been read; the handlers may
\* make requests, such as ack_configure.
\* Mutant: they are left to the next wl_display_prepare_read.
DispatchNothing(n) ==
    /\ queued' = queued + n
    /\ UNCHANGED <<dirty, outgoing>>

DispatchPending(n) ==
    /\ queued' = 0
    /\ dirty' = (dirty \/ queued + n > 0)
    /\ outgoing' \in {outgoing, outgoing + 1}

ReadEvents ==
    /\ pc = "read"
    /\ "display" \in ready
    /\ incoming > 0
    /\ incoming' = 0
    /\ readers' = readers - 1
    /\ DispatchPending(incoming)
    /\ pc' = "receive"
    /\ UNCHANGED <<connected, events, room, stream, sway_gone, exit_on_reload, watched,
                   ready>>

\* The end of the stream, or an error, which libwayland reports when it reads
\* or dispatches.
ReadFails ==
    /\ pc = "read"
    /\ "display" \in ready
    /\ FailuresHappen \/ (incoming = 0 /\ ~connected)
    /\ readers' = readers - 1
    /\ pc' = "exit"
    /\ UNCHANGED <<compositor, stream, sway_gone, queued, outgoing, exit_on_reload,
                   watched, ready, dirty>>

\* Mutants: the announced read is forgotten; it is cancelled, whatever poll
\* has reported.
ForgetRead ==
    /\ pc = "read"
    /\ "display" \notin ready
    /\ pc' = "receive"
    /\ UNCHANGED <<compositor, stream, sway_gone, library, main>>

CancelAlways ==
    /\ pc = "read"
    /\ readers' = readers - 1
    /\ pc' = "receive"
    /\ UNCHANGED <<compositor, stream, sway_gone, queued, outgoing, main>>

CancelRead ==
    /\ pc = "read"
    /\ "display" \notin ready
    /\ readers' = readers - 1
    /\ pc' = "receive"
    /\ UNCHANGED <<compositor, stream, sway_gone, queued, outgoing, main>>

(***************************************************************************)
(* sway_ipc_recv until it returns FALSE.                                   *)
(***************************************************************************)
Receiving == pc = "receive" /\ "sway" \in ready /\ open

\* Mutant: a reload is taken for any other message.
Ignore(type) == pc' = pc

Obey(type) ==
    pc' = IF type = "reload" /\ exit_on_reload THEN "exit" ELSE pc

Receive ==
    /\ Receiving
    /\ Sway!Deliver
    /\ dirty' = (dirty \/ Last(delivered') = "change")
    /\ Obey(Last(delivered'))
    /\ UNCHANGED <<compositor, sway_gone, library, exit_on_reload, watched, ready>>

ReceiveFails ==
    /\ Receiving
    /\ FailuresHappen
    /\ Sway!Close
    /\ pc' = "render"
    /\ UNCHANGED <<compositor, sway_gone, library, main>>

\* EAGAIN; or the end of the stream, which is received again and again.
EndReceive ==
    /\ pc = "receive"
    /\ Receiving => Len(delivered) = Len(sent)
    /\ pc' = "render"
    /\ UNCHANGED <<compositor, stream, sway_gone, library, main>>

\* What has changed is drawn and committed.
Render ==
    /\ pc = "render"
    /\ dirty' = FALSE
    /\ outgoing' = IF dirty THEN outgoing + 1 ELSE outgoing
    /\ pc' = "prepare"
    /\ UNCHANGED <<compositor, stream, sway_gone, readers, queued, exit_on_reload,
                   watched, ready>>

Exit ==
    /\ pc = "exit"
    /\ Sway!Close
    /\ pc' = "done"
    /\ UNCHANGED <<compositor, sway_gone, library, main>>

-----------------------------------------------------------------------------
Init ==
    /\ connected = TRUE /\ events = 0 /\ incoming = 0 /\ room \in BOOLEAN
    /\ Sway!Init
    /\ sway_gone = FALSE
    /\ readers = 0 /\ queued = 0 /\ outgoing = 0
    /\ exit_on_reload \in BOOLEAN
    /\ pc = "start"
    /\ watched = FALSE /\ ready = {} /\ dirty = FALSE

Others ==
    \/ CompositorSends \/ CompositorReads \/ CompositorLeaves
    \/ \E type \in MessageTypes : SwaySends(type)
    \/ SwayLeaves

Main ==
    \/ Start \/ CannotStart
    \/ PrepareRead \/ \E n \in 0..outgoing : Flush(n)
    \/ Wait \/ FlushBroken
    \/ Poll \/ ReadEvents \/ ReadFails \/ CancelRead
    \/ Receive \/ EndReceive
    \/ Render \/ Exit

Next == Others \/ Main \/ CancelReadAndExit \/ ReceiveFails

Spec == Init /\ [][Next]_vars

\* main runs on unless it sleeps, and no call has to fail; a compositor that
\* stays reads its requests.
FairSpec == Spec /\ WF_vars(Main) /\ WF_vars(CompositorReads)

-----------------------------------------------------------------------------
(***************************************************************************)
(* Properties.                                                             *)
(***************************************************************************)
Stages == {"start", "prepare", "flush", "wait", "poll", "read", "receive",
           "render", "exit", "done"}

TypeOK ==
    /\ connected \in BOOLEAN /\ room \in BOOLEAN
    /\ events \in 0..MaxEvents /\ incoming \in 0..events
    /\ sent \in Seq(MessageTypes) /\ delivered \in Seq(MessageTypes)
    /\ open \in BOOLEAN /\ sway_gone \in BOOLEAN
    /\ readers \in 0..1 /\ queued \in 0..events
    /\ outgoing \in Nat
    /\ pc \in Stages
    /\ watched \in BOOLEAN /\ ready \subseteq {"display", "sway"}
    /\ {dirty, exit_on_reload} \subseteq BOOLEAN

\* libwayland's contract: a read is announced exactly while main is between
\* wl_display_prepare_read and the read or the cancellation that answers it,
\* on every path through the loop and out of it.
ReadsAreMatched ==
    readers = IF pc \in {"flush", "wait", "poll", "read"} THEN 1 ELSE 0

\* main never falls asleep on unfinished work: in poll every event that has
\* been read is dispatched, every change drawn, and every request flushed,
\* unless there is nobody to send it to.
SleepsWithNothingToDo ==
    pc = "poll" => queued = 0 /\ ~dirty /\ (outgoing = 0 \/ ~connected)

\* Every event of the compositor and every message of Sway is handled, what it
\* changes is drawn, and the compositor gets it, unless main ends or the
\* connection it came through, or has to leave by, is lost.
ChangesAreShown ==
    <>[](\/ pc = "done" \/ ~connected
         \/ /\ incoming = 0 /\ ~dirty /\ outgoing = 0
            /\ watched /\ open => delivered = sent)

\* When nothing happens any more main sleeps, unless Sway is gone: then poll
\* returns at once, again and again.
ComesToRest ==
    <>[](pc \in {"poll", "done"} \/ sway_gone \/ (watched /\ ~open))

\* main does not outlive the compositor.
LeavesWithCompositor == ~connected ~> pc = "done"

\* "Exit when sway config is reloaded" (wsbg.1.scd).
LeavesOnReload ==
    (exit_on_reload /\ "reload" \in ToSet(sent)) ~> (pc = "done" \/ ~open)
=============================================================================
