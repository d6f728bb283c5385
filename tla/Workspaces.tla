----------------------------- MODULE Workspaces -----------------------------
(***************************************************************************)
(* How wsbg follows the workspaces of Sway (main.c).  It asks once for the *)
(* list of all workspaces and subscribes to their events; from both it     *)
(* keeps state->workspaces, a list of (name, output) entries that are      *)
(* visible, and for each output the configuration selected for the         *)
(* workspace shown there.  A changed selection is flagged and drawn by the *)
(* next render stage.                                                      *)
(*                                                                         *)
(* Sway is external: it shows one workspace per output, serves the two     *)
(* requests in the order they were sent and reports the workspace that     *)
(* gets the focus, or is moved, through one stream.                        *)
(***************************************************************************)
EXTENDS Naturals, Sequences, SequencesExt

CONSTANTS
    Names,          \* workspaces
    Outputs,        \* outputs, by the name Sway and Wayland both use
    Configured,     \* the workspaces the command line has options for
    Default,        \* the configuration of all other workspaces
    Absent,         \* no configuration: an output wsbg does not know (yet)
    HomeOf,         \* Names -> Outputs: where the workspaces are at first
    MovesAllowed,   \* whether workspaces are moved between outputs
    HiddenReported, \* whether events tell of workspaces that are not shown
    AllocMayFail,   \* whether calloc or strdup may fail
    MaxChanges,     \* bound on what the user does
    MaxOutputEvents \* bound on outputs announced, renamed or removed

ASSUME WorkspacesAssumption ==
    /\ Configured \subseteq Names
    /\ Default \notin Names
    /\ Absent \notin Names \union {Default}
    /\ HomeOf \in [Names -> Outputs]
    /\ MovesAllowed \in BOOLEAN
    /\ HiddenReported \in BOOLEAN
    /\ AllocMayFail \in BOOLEAN
    /\ IsFiniteSet(Outputs)
    /\ MaxChanges \in Nat /\ MaxOutputEvents \in Nat

VARIABLES
    \* Sway
    home,           \* Names -> the output a workspace is on
    visible,        \* Outputs -> the workspace shown there
    focused,        \* the output that has the focus
    requests,       \* requests of wsbg not served yet
    changes,        \* steps the user has taken
    calm,           \* history: workspaces stayed where they are, events were
                    \* about what is shown, and memory sufficed
    \* the socket
    stream,         \* messages sent by Sway and not received
    \* wsbg
    stage,          \* "dispatch", "receive", "reply" or "render"
    workspaces,     \* state->workspaces
    reply, last,    \* the list being handled, and how much of it has been
    selected,       \* Outputs -> output->config
    config_change, buffer_change,   \* Outputs -> BOOLEAN
    drawn,          \* Outputs -> the configuration last rendered
    output_events   \* Wayland events dispatched for outputs

sway == <<home, visible, focused, requests, changes>>
outputs == <<selected, config_change, buffer_change>>
vars == <<sway, calm, stream, stage, workspaces, reply, last, outputs, drawn,
          output_events>>

Entry == [name: Names, output: Outputs]
ConfigFor(n) == IF n \in Configured THEN n ELSE Default

-----------------------------------------------------------------------------
(***************************************************************************)
(* Sway.  GET_WORKSPACES is answered with every workspace; those that are  *)
(* not visible are skipped by wsbg and left out here.  Events are sent     *)
(* once the subscription has been served.                                  *)
(***************************************************************************)
Subscribed == "subscribe" \notin ToSet(requests)

Report(n, o) ==
    stream' = IF Subscribed
              THEN Append(stream, [type |-> "event", name |-> n, output |-> o])
              ELSE stream

SwayServes ==
    /\ requests # <<>>
    /\ requests' = Tail(requests)
    /\ \/ /\ Head(requests) = "subscribe"
          /\ UNCHANGED stream
       \/ /\ Head(requests) = "get_workspaces"
          /\ \E list \in SetToSeqs({[name |-> visible[o], output |-> o] : o \in Outputs}) :
               stream' = Append(stream, [type |-> "workspaces", list |-> list])
    /\ UNCHANGED <<home, visible, focused, changes, calm, stage, workspaces,
                   reply, last, outputs, drawn, output_events>>

SwayFocuses(n) ==
    /\ changes < MaxChanges
    /\ changes' = changes + 1
    /\ visible' = [visible EXCEPT ![home[n]] = n]
    /\ focused' = home[n]
    /\ Report(n, home[n])
    /\ UNCHANGED <<home, requests, calm, stage, workspaces, reply, last,
                   outputs, drawn, output_events>>

\* A workspace moved away while it is shown uncovers another one, of which
\* nothing is said.
SwayMoves(n, o) ==
    /\ MovesAllowed
    /\ changes < MaxChanges
    /\ home[n] # o
    /\ changes' = changes + 1
    /\ home' = [home EXCEPT ![n] = o]
    /\ \E rest \in {m \in Names : m # n /\ home[m] = home[n]} :
          visible' = [p \in Outputs |->
                         IF p = o THEN n
                         ELSE IF visible[p] = n THEN rest ELSE visible[p]]
    /\ focused' = o
    /\ calm' = FALSE
    /\ Report(n, o)
    /\ UNCHANGED <<requests, stage, workspaces, reply, last, outputs, drawn,
                   output_events>>

\* "init" and "rename" are also sent for a workspace that stays hidden, as when
\* a window is moved to a new workspace.
SwayCreates(n) ==
    /\ HiddenReported
    /\ changes < MaxChanges
    /\ \A o \in Outputs : visible[o] # n
    /\ changes' = changes + 1
    /\ calm' = FALSE
    /\ Report(n, home[n])
    /\ UNCHANGED <<home, visible, focused, requests, stage, workspaces, reply,
                   last, outputs, drawn, output_events>>

Sway ==
    \/ SwayServes
    \/ \E n \in Names :
          SwayFocuses(n) \/ SwayCreates(n) \/ \E o \in Outputs : SwayMoves(n, o)

-----------------------------------------------------------------------------
(***************************************************************************)
(* update_workspace.  Behind the first `fixed` entries of the list it      *)
(* looks for one that shares the name or the output, which becomes the     *)
(* entry (n, o) and moves to the front of the rest.                        *)
(***************************************************************************)
\* Mutant: only the name is compared.
MatchName(list, fixed, n, o) ==
    SelectInSubSeq(list, fixed + 1, Len(list), LAMBDA e : e.name = n)

Match(list, fixed, n, o) ==
    SelectInSubSeq(list, fixed + 1, Len(list),
                   LAMBDA e : e.name = n \/ e.output = o)

Without(list, i) == IF i = 0 THEN list ELSE RemoveAt(list, i)

\* Mutant: every entry moves to the front of the whole list.
UpdatedInFront(list, fixed, n, o) ==
    InsertAt(Without(list, Match(list, fixed, n, o)), 1, [name |-> n, output |-> o])

Updated(list, fixed, n, o) ==
    InsertAt(Without(list, Match(list, fixed, n, o)), fixed + 1,
             [name |-> n, output |-> o])

IsNews(list, fixed, n, o) ==
    LET i == Match(list, fixed, n, o)
    IN  ~(i > 0 /\ list[i] = [name |-> n, output |-> o])

\* News selects the configuration of the workspace on its output, if wsbg
\* knows that output and has not selected it before.
\* Mutants: the default configuration is never selected again; it is
\* selected, but not flagged.
SelectConfigured(n, o) ==
    IF selected[o] = Absent \/ n \notin Configured THEN UNCHANGED outputs
    ELSE /\ selected' = [selected EXCEPT ![o] = n]
         /\ config_change' = [config_change EXCEPT ![o] = @ \/ selected[o] # n]
         /\ UNCHANGED buffer_change
SelectUnflagged(n, o) ==
    IF selected[o] = Absent THEN UNCHANGED outputs
    ELSE /\ selected' = [selected EXCEPT ![o] = ConfigFor(n)]
         /\ config_change' = [config_change EXCEPT ![o] = @ \/ n \in Configured]
         /\ UNCHANGED buffer_change

Select(n, o) ==
    LET new == ConfigFor(n)
    IN  IF selected[o] = Absent THEN UNCHANGED outputs
        ELSE /\ selected' = [selected EXCEPT ![o] = new]
             /\ config_change' = [config_change EXCEPT ![o] = @ \/ selected[o] # new]
             /\ UNCHANGED buffer_change

UpdateWorkspace(fixed, n, o) ==
    /\ workspaces' = Updated(workspaces, fixed, n, o)
    /\ IF IsNews(workspaces, fixed, n, o) THEN Select(n, o) ELSE UNCHANGED outputs

\* Out of memory the entry is lost and nothing is selected.
LoseWorkspace(fixed, n, o) ==
    /\ AllocMayFail
    /\ IsNews(workspaces, fixed, n, o)
    /\ workspaces' = Without(workspaces, Match(workspaces, fixed, n, o))
    /\ calm' = FALSE
    /\ UNCHANGED outputs

(***************************************************************************)
(* configure_output starts from the entry of the output, if there is one.  *)
(***************************************************************************)
\* Mutant: for a workspace without options of its own, too.
InitialWorkspace(o) ==
    LET i == SelectInSeq(workspaces, LAMBDA e : e.output = o)
    IN  IF i = 0 THEN Default ELSE workspaces[i].name

InitialConfig(o) ==
    LET i == SelectInSeq(workspaces, LAMBDA e : e.output = o)
    IN  IF i = 0 THEN Default ELSE ConfigFor(workspaces[i].name)

ConfigureOutput(o) ==
    /\ stage = "dispatch"
    /\ output_events < MaxOutputEvents
    /\ output_events' = output_events + 1
    /\ selected' = [selected EXCEPT ![o] = InitialConfig(o)]
    /\ buffer_change' = [buffer_change EXCEPT ![o] = TRUE]
    /\ UNCHANGED <<sway, calm, stream, stage, workspaces, reply, last, config_change, drawn>>

DestroyOutput(o) ==
    /\ stage = "dispatch"
    /\ selected[o] # Absent
    /\ output_events < MaxOutputEvents
    /\ output_events' = output_events + 1
    /\ selected' = [selected EXCEPT ![o] = Absent]
    /\ config_change' = [config_change EXCEPT ![o] = FALSE]
    /\ buffer_change' = [buffer_change EXCEPT ![o] = FALSE]
    /\ drawn' = [drawn EXCEPT ![o] = Absent]
    /\ UNCHANGED <<sway, calm, stream, stage, workspaces, reply, last>>

-----------------------------------------------------------------------------
(***************************************************************************)
(* The loop in main: Wayland events, then every message that has arrived,  *)
(* then the render stage.  handle_sway_workspaces goes through its list    *)
(* one update_workspace at a time, keeping behind the entry `last`.        *)
(***************************************************************************)
StartReceiving ==
    /\ stage = "dispatch"
    /\ stage' = "receive"
    /\ UNCHANGED <<sway, calm, stream, workspaces, reply, last, outputs, drawn, output_events>>

HandleEvent ==
    /\ stage = "receive"
    /\ stream # <<>>
    /\ Head(stream).type = "event"
    /\ stream' = Tail(stream)
    /\ LET event == Head(stream)
       IN  \/ UpdateWorkspace(0, event.name, event.output) /\ UNCHANGED calm
           \/ LoseWorkspace(0, event.name, event.output)
    /\ UNCHANGED <<sway, stage, reply, last, drawn, output_events>>

StartReply ==
    /\ stage = "receive"
    /\ stream # <<>>
    /\ Head(stream).type = "workspaces"
    /\ stream' = Tail(stream)
    /\ stage' = "reply"
    /\ reply' = Head(stream).list
    /\ UNCHANGED <<sway, calm, workspaces, last, outputs, drawn, output_events>>

EndReply ==
    /\ stage' = "receive"
    /\ reply' = <<>>
    /\ last' = 0

HandleReplyEntry ==
    /\ stage = "reply"
    /\ last < Len(reply)
    /\ LET entry == reply[last + 1]
       IN  \/ /\ UpdateWorkspace(last, entry.name, entry.output)
              /\ last' = last + 1
              /\ UNCHANGED <<calm, stage, reply>>
           \/ /\ LoseWorkspace(last, entry.name, entry.output)
              /\ EndReply
    /\ UNCHANGED <<sway, stream, drawn, output_events>>

\* What is left behind `last` is not visible any more.
\* Mutant: entries of the old list survive.
KeepList ==
    /\ stage = "reply"
    /\ last = Len(reply)
    /\ EndReply
    /\ UNCHANGED <<sway, calm, stream, workspaces, outputs, drawn, output_events>>

TruncateList ==
    /\ stage = "reply"
    /\ last = Len(reply)
    /\ workspaces' = SubSeq(workspaces, 1, last)
    /\ EndReply
    /\ UNCHANGED <<sway, calm, stream, outputs, drawn, output_events>>

StopReceiving ==
    /\ stage = "receive"
    /\ stream = <<>>
    /\ stage' = "render"
    /\ UNCHANGED <<sway, calm, stream, workspaces, reply, last, outputs, drawn, output_events>>

\* Mutant: a switch of workspaces does not count as a change.
ChangedBuffers(o) == buffer_change[o]

Changed(o) == config_change[o] \/ buffer_change[o]

Render ==
    /\ stage = "render"
    /\ stage' = "dispatch"
    /\ drawn' = [o \in Outputs |-> IF Changed(o) THEN selected[o] ELSE drawn[o]]
    /\ config_change' = [o \in Outputs |-> FALSE]
    /\ buffer_change' = [o \in Outputs |-> FALSE]
    /\ UNCHANGED <<sway, calm, stream, workspaces, reply, last, selected, output_events>>

Loop ==
    \/ StartReceiving \/ HandleEvent \/ StartReply \/ HandleReplyEntry
    \/ TruncateList \/ StopReceiving \/ Render

Init ==
    /\ home = HomeOf
    /\ visible \in {v \in [Outputs -> Names] : \A o \in Outputs : HomeOf[v[o]] = o}
    /\ focused \in Outputs
    /\ requests = <<"subscribe", "get_workspaces">>
    /\ changes = 0
    /\ calm = TRUE
    /\ stream = <<>>
    /\ stage = "dispatch"
    /\ workspaces = <<>>
    /\ reply = <<>>
    /\ last = 0
    /\ selected = [o \in Outputs |-> Absent]
    /\ config_change = [o \in Outputs |-> FALSE]
    /\ buffer_change = [o \in Outputs |-> FALSE]
    /\ drawn = [o \in Outputs |-> Absent]
    /\ output_events = 0

Next ==
    \/ Sway
    \/ Loop
    \/ \E o \in Outputs : ConfigureOutput(o) \/ DestroyOutput(o)

Spec == Init /\ [][Next]_vars

(***************************************************************************)
(* poll wakes the loop whenever the socket is readable and every iteration *)
(* runs to the render stage; the user owes nothing.                        *)
(***************************************************************************)
Fairness == WF_vars(Loop) /\ WF_vars(SwayServes)

FairSpec == Spec /\ Fairness

-----------------------------------------------------------------------------
Selections == Configured \union {Default, Absent}

TypeOK ==
    /\ home \in [Names -> Outputs]
    /\ visible \in [Outputs -> Names]
    /\ focused \in Outputs
    /\ requests \in Seq({"subscribe", "get_workspaces"})
    /\ changes \in 0 .. MaxChanges
    /\ calm \in BOOLEAN
    /\ stream \in Seq([type: {"event"}, name: Names, output: Outputs] \union
                      [type: {"workspaces"}, list: Seq(Entry)])
    /\ stage \in {"dispatch", "receive", "reply", "render"}
    /\ workspaces \in Seq(Entry)
    /\ reply \in Seq(Entry)
    /\ last \in 0 .. Len(reply)
    /\ selected \in [Outputs -> Selections]
    /\ config_change \in [Outputs -> BOOLEAN]
    /\ buffer_change \in [Outputs -> BOOLEAN]
    /\ drawn \in [Outputs -> Selections]
    /\ output_events \in 0 .. MaxOutputEvents

(***************************************************************************)
(* No selection is forgotten: an output that is not flagged shows the      *)
(* configuration that is selected for it, whichever of the handlers, in    *)
(* whatever order, made the selection.                                     *)
(***************************************************************************)
SwitchesAreFlagged ==
    \A o \in Outputs : Changed(o) \/ drawn[o] = selected[o]

(***************************************************************************)
(* A handled reply leaves exactly the reported list, in its order: nothing *)
(* of what update_workspace moved out of the way while the list was        *)
(* matched against the old one stays behind.                               *)
(***************************************************************************)
ReplyIsExact ==
    [][(stage = "reply" /\ stage' = "receive" /\ last = Len(reply))
           => workspaces' = reply]_vars

(***************************************************************************)
(* While handle_sway_workspaces works through its list, the part up to     *)
(* `last` is the part of the list already handled.                         *)
(***************************************************************************)
ReplyPrefix ==
    /\ last <= Len(workspaces)
    /\ \A k \in 1 .. last : workspaces[k] = reply[k]

(***************************************************************************)
(* Once everything Sway has sent is handled, every known output has the    *)
(* configuration of the workspace it shows, as long as workspaces stay     *)
(* where they are and events are about what is shown.                      *)
(***************************************************************************)
Quiet == requests = <<>> /\ stream = <<>> /\ stage = "dispatch"

EveryOutputInSync ==
    calm /\ Quiet => \A o \in Outputs : selected[o] \in {Absent, ConfigFor(visible[o])}

(***************************************************************************)
(* The list holds one entry for each output at most (it is a list of what  *)
(* is visible), so it is bounded by the number of outputs.                 *)
(***************************************************************************)
OneEntryPerOutput ==
    calm => \A j, k \in DOMAIN workspaces :
        workspaces[j].output = workspaces[k].output => j = k

(***************************************************************************)
(* "Select a workspace to configure.  Subsequent appearance options will   *)
(* only apply to this workspace" (wsbg.1.scd): once everything is handled, *)
(* the output the user is looking at is not left with the appearance of a  *)
(* workspace that is not there.                                            *)
(***************************************************************************)
FocusedOutputInSync ==
    Quiet => drawn[focused] \in {Absent, ConfigFor(visible[focused])}
             \/ Changed(focused)

(***************************************************************************)
(* When the user stops switching, every known output ends up showing the   *)
(* configuration of its visible workspace, and stays so.                   *)
(***************************************************************************)
OutputsSettle ==
    <>[](calm => \A o \in Outputs : \/ selected[o] = Absent
                                     \/ drawn[o] = ConfigFor(visible[o]))
=============================================================================
