------------------------------- MODULE Output -------------------------------
(***************************************************************************)
(* The life of one struct wsbg_output (main.c): the wl_output and layer    *)
(* surface events that shape it, the flags they leave for the render       *)
(* stage, and what the render stage commits.  Outputs do not interact but  *)
(* through the buffer cache (module Buffers), so one is enough here,       *)
(* beside the buffers others may hold.                                     *)
(*                                                                         *)
(* A buffer is [key, dims]: what get_wsbg_buffer compares (the transform,  *)
(* background and repeat of an image, or a plain colour) and the size it   *)
(* was made for, which is not compared.                                    *)
(*                                                                         *)
(* The compositor is external: it announces the output, configures and     *)
(* scales its layer surface, changes its mode and description, closes the  *)
(* surface or removes the output, through one ordered queue of events.     *)
(***************************************************************************)
EXTENDS Integers, Sequences

CONSTANTS
    Configs,        \* the configurations of the output, one per workspace
    Modes,          \* sizes of the output in pixels
    Sizes,          \* sizes of the layer surface, in logical pixels
    Scales,         \* preferred scales, in 120ths
    Keys(_, _),     \* the keys under which a configuration asks for a buffer
                    \* of a size: one, or two for a scalable file, which is
                    \* not known to be opaque at first
    Elsewhere,      \* buffers the configurations of other outputs may hold
    NULL,
    RenderMayFail,  \* whether a buffer may fail to be made
    MaxEvents       \* bound on what the compositor and Sway do unasked

NoSize == [width |-> 0, height |-> 0]

Dimensions == [width: Nat, height: Nat]

IsBuffer(b) == b = [key |-> b.key, dims |-> b.dims] /\ b.dims \in Dimensions

ASSUME OutputAssumption ==
    /\ Modes \subseteq [width: Nat \ {0}, height: Nat \ {0}]
    /\ Sizes \subseteq [width: Nat, height: Nat]
    /\ Scales \subseteq Nat \ {0}
    /\ NULL \notin Configs \union Sizes
    /\ \A b \in Elsewhere : IsBuffer(b)
    /\ RenderMayFail \in BOOLEAN

VARIABLES
    \* the compositor
    has_manager,    \* whether it has wp_fractional_scale_manager_v1
    queue,          \* events not dispatched yet
    events,         \* how often it, or Sway, has done something unasked
    shown,          \* committed content: [config, buffer], or NULL
    destination,    \* committed viewport destination
    acked,          \* size of the configure event last acknowledged, or NULL
    \* struct wsbg_output
    alive,          \* the structure exists
    name, identifier,               \* whether they are known
    config,                         \* output->config, or NULL
    buffers,                        \* config->buffer, or NULL
    layer_surface, fractional_scale,    \* whether they have been created
    size,                           \* width and height
    scale_120, mode,
    configured, buffer_change, config_change,
    stage           \* of main's loop: "poll", "dispatch" or "receive"

compositor == <<has_manager, events>>
surface == <<shown, destination, acked>>
identity == <<name, identifier>>
objects == <<layer_surface, fractional_scale>>
flags == <<configured, buffer_change, config_change>>
vars == <<compositor, queue, surface, alive, identity, config, buffers, objects,
          size, scale_120, mode, flags, stage>>

-----------------------------------------------------------------------------
(***************************************************************************)
(* The compositor.                                                         *)
(***************************************************************************)
Event(type, value) == [type |-> type, value |-> value]

Send(batch) ==
    /\ queue' = queue \o batch
    /\ UNCHANGED <<has_manager, surface, alive, identity, config, buffers,
                   objects, size, scale_120, mode, flags, stage>>

Unasked == events < MaxEvents /\ events' = events + 1

\* A layer surface is configured in answer to its first commit...
FirstConfigure ==
    /\ alive /\ layer_surface
    /\ acked = NULL
    /\ \A k \in DOMAIN queue : queue[k].type # "configure"
    /\ \E s \in Sizes : Send(<<Event("configure", s)>>)
    /\ UNCHANGED events

\* ...and whenever the compositor resizes it; a rotation or a mode set may
\* come before or after the wl_output events that go with it.
Reconfigure ==
    /\ alive /\ acked # NULL
    /\ Unasked
    /\ \E s \in Sizes : Send(<<Event("configure", s)>>)

ChangeMode ==
    /\ alive
    /\ Unasked
    /\ \E m \in Modes : Send(<<Event("mode", m), Event("done", NULL)>>)

ChangeDescription ==
    /\ alive
    /\ Unasked
    /\ \E changes \in BOOLEAN :
        Send(<<Event("description", changes), Event("done", NULL)>>)

ChangeScale ==
    /\ alive /\ fractional_scale
    /\ Unasked
    /\ \E s \in Scales : Send(<<Event("preferred_scale", s)>>)

TakeAway ==
    /\ alive
    /\ Unasked
    /\ \/ Send(<<Event("global_remove", NULL)>>)
       \/ layer_surface /\ Send(<<Event("closed", NULL)>>)

Compositor ==
    \/ FirstConfigure \/ Reconfigure \/ ChangeMode \/ ChangeDescription
    \/ ChangeScale \/ TakeAway

-----------------------------------------------------------------------------
(***************************************************************************)
(* The event handlers.                                                     *)
(***************************************************************************)
Dispatch(type) ==
    /\ stage = "dispatch"
    /\ queue # <<>>
    /\ Head(queue).type = type
    /\ queue' = Tail(queue)
    /\ UNCHANGED <<compositor, stage>>

\* destroy_wsbg_output; events still queued for its objects are dropped.
Destroy ==
    /\ alive' = FALSE
    /\ queue' = <<>>
    /\ buffers' = [c \in Configs |-> NULL]
    /\ config' = NULL
    /\ shown' = NULL
    /\ UNCHANGED <<destination, acked, identity, objects, size, scale_120,
                   mode, flags>>

\* configure_output: new configurations without buffers, one of them selected
\* by the workspace that is visible (module Workspaces).
Configure ==
    /\ config' \in Configs
    /\ buffers' = [c \in Configs |-> NULL]
    /\ buffer_change' = TRUE
    /\ UNCHANGED <<configured, config_change>>

\* The name of an output never changes.
OutputName ==
    /\ Dispatch("name")
    /\ name' = TRUE
    /\ IF ~name /\ identifier THEN Configure ELSE UNCHANGED <<config, buffers, flags>>
    /\ UNCHANGED <<surface, alive, identifier, objects, size, scale_120, mode>>

\* The value of the event is whether it changes the identifier.
OutputDescription ==
    /\ Dispatch("description")
    /\ identifier' = TRUE
    /\ IF name /\ (identifier => Head(queue).value)
       THEN Configure ELSE UNCHANGED <<config, buffers, flags>>
    /\ UNCHANGED <<surface, alive, name, objects, size, scale_120, mode>>

OutputMode ==
    /\ Dispatch("mode")
    /\ LET m == Head(queue).value
       IN  IF fractional_scale \/ m = mode
           THEN UNCHANGED <<mode, flags>>
           ELSE /\ mode' = m
                /\ buffer_change' = TRUE
                /\ UNCHANGED <<configured, config_change>>
    /\ UNCHANGED <<surface, alive, identity, config, buffers, objects, size, scale_120>>

\* Mutant: a fractional scale without a first value.
CreateUnscaled ==
    /\ layer_surface' = TRUE
    /\ fractional_scale' = has_manager
    /\ UNCHANGED scale_120

CreateLayerSurface ==
    /\ layer_surface' = TRUE
    /\ fractional_scale' = has_manager
    /\ scale_120' = IF has_manager THEN 120 ELSE scale_120

OutputDone ==
    /\ stage = "dispatch" /\ queue # <<>> /\ Head(queue).type = "done"
    /\ \/ /\ config = NULL
          /\ Destroy
       \/ /\ config # NULL
          /\ queue' = Tail(queue)
          /\ IF layer_surface THEN UNCHANGED <<objects, scale_120>>
                              ELSE CreateLayerSurface
          /\ UNCHANGED <<surface, alive, identity, config, buffers, size, mode, flags>>
    /\ UNCHANGED <<compositor, stage>>

PreferredScale ==
    /\ Dispatch("preferred_scale")
    /\ scale_120' = Head(queue).value
    /\ buffer_change' = (buffer_change \/ scale_120' # scale_120)
    /\ UNCHANGED <<surface, alive, identity, config, buffers, objects, size,
                   mode, configured, config_change>>

IsPortrait(s) == s.width < s.height

\* Mutants: a commit without an acknowledgement; an acknowledgement that does
\* not let the output be rendered.
CommitOnly(s) ==
    /\ destination' = s
    /\ configured' = TRUE
    /\ UNCHANGED <<acked, shown>>
AckOnly(s) ==
    /\ acked' = s
    /\ destination' = s
    /\ UNCHANGED <<configured, shown>>

AckAndCommit(s) ==
    /\ acked' = s
    /\ destination' = s
    /\ configured' = TRUE
    /\ UNCHANGED shown

LayerSurfaceConfigure ==
    /\ Dispatch("configure")
    /\ LET s == Head(queue).value
       IN  IF s = size THEN UNCHANGED <<size, surface, flags>>
           ELSE /\ size' = s
                /\ buffer_change' = (\/ buffer_change
                                     \/ fractional_scale
                                     \/ IsPortrait(s) # IsPortrait(size))
                /\ IF s.width < 1 \/ s.height < 1
                   THEN UNCHANGED <<surface, configured>>
                   ELSE AckAndCommit(s)
                /\ UNCHANGED config_change
    /\ UNCHANGED <<alive, identity, config, buffers, objects, scale_120, mode>>

LayerSurfaceClosed ==
    /\ stage = "dispatch" /\ queue # <<>> /\ Head(queue).type = "closed"
    /\ Destroy
    /\ UNCHANGED <<compositor, stage>>

HandleGlobalRemove ==
    /\ stage = "dispatch" /\ queue # <<>> /\ Head(queue).type = "global_remove"
    /\ Destroy
    /\ UNCHANGED <<compositor, stage>>

-----------------------------------------------------------------------------
(***************************************************************************)
(* render_frame: the size of the buffers, in pixels.                       *)
(***************************************************************************)
Scaled(length) == (length * scale_120 + 60) \div 120

Rotated(s) == [width |-> s.height, height |-> s.width]

Dims ==
    IF fractional_scale
    THEN [width |-> Scaled(size.width), height |-> Scaled(size.height)]
    ELSE IF IsPortrait(mode) = IsPortrait(size) THEN mode ELSE Rotated(mode)

(***************************************************************************)
(* get_wsbg_buffer returns a buffer that exists under the key, for another *)
(* size or not, before render_frame releases the previous one.  So if that *)
(* has the key it is kept; otherwise one of another configuration may be   *)
(* found, or have been released just before.                               *)
(***************************************************************************)
Existing == ({buffers[c] : c \in Configs} \ {NULL}) \union Elsewhere

HasKey(b, key) == b # NULL /\ b.key = key

FoundOrMade(key) ==
    {b \in Existing : b.key = key}
    \union {[key |-> key, dims |-> Dims]}
    \union (IF RenderMayFail THEN {NULL} ELSE {})

GetBuffer(c) ==
    UNION {IF HasKey(buffers[c], key) THEN {buffers[c]} ELSE FoundOrMade(key) :
           key \in Keys(c, Dims)}

\* Mutant: only what is visible is drawn anew.
RenderVisible ==
    IF buffer_change
    THEN \E b \in GetBuffer(config) : buffers' = [buffers EXCEPT ![config] = b]
    ELSE UNCHANGED buffers

\* Every configuration is drawn anew, for the workspaces shown later too.
RenderFrames ==
    IF buffer_change
    THEN buffers' \in {drawn \in [Configs -> UNION {GetBuffer(c) : c \in Configs}] :
                         \A c \in Configs : drawn[c] \in GetBuffer(c)}
    ELSE UNCHANGED buffers

\* render_buffer; there is nothing to commit without a buffer.
RenderBuffer ==
    IF buffers'[config] = NULL THEN UNCHANGED surface
    ELSE /\ shown' = [config |-> config, buffer |-> buffers'[config]]
         /\ destination' = size
         /\ UNCHANGED acked

Render ==
    /\ stage = "receive"
    /\ stage' = "poll"
    /\ IF alive /\ configured /\ (buffer_change \/ config_change)
       THEN /\ RenderFrames
            /\ RenderBuffer
            /\ buffer_change' = FALSE
            /\ config_change' = FALSE
            /\ UNCHANGED configured
       ELSE UNCHANGED <<buffers, surface, flags>>
    /\ UNCHANGED <<compositor, queue, alive, identity, config, objects, size,
                   scale_120, mode>>

\* Mutant: the selection is not flagged.
SelectSilently(c) ==
    /\ stage = "receive"
    /\ alive /\ config \notin {NULL, c}
    /\ Unasked
    /\ config' = c
    /\ UNCHANGED <<has_manager, queue, surface, alive, identity, buffers, objects,
                   size, scale_120, mode, flags, stage>>

\* update_workspace, for a message of Sway.
SelectConfig(c) ==
    /\ stage = "receive"
    /\ alive /\ config \notin {NULL, c}
    /\ Unasked
    /\ config' = c
    /\ config_change' = TRUE
    /\ UNCHANGED <<has_manager, queue, surface, alive, identity, buffers, objects,
                   size, scale_120, mode, configured, buffer_change, stage>>

Wake ==
    /\ stage = "poll"
    /\ stage' = "dispatch"
    /\ UNCHANGED <<compositor, queue, surface, alive, identity, config, buffers,
                   objects, size, scale_120, mode, flags>>

\* Events that have not been read yet wait for the next iteration.
StopDispatching ==
    /\ stage = "dispatch"
    /\ stage' = "receive"
    /\ UNCHANGED <<compositor, queue, surface, alive, identity, config, buffers,
                   objects, size, scale_120, mode, flags>>

Handle ==
    \/ OutputName \/ OutputDescription \/ OutputMode \/ OutputDone
    \/ PreferredScale \/ LayerSurfaceConfigure \/ LayerSurfaceClosed
    \/ HandleGlobalRemove

\* handle_global has just bound the output.
Init ==
    /\ has_manager \in BOOLEAN
    /\ \E m \in Modes, described \in BOOLEAN :
        queue = <<Event("mode", m), Event("name", NULL)>>
                \o (IF described THEN <<Event("description", TRUE)>> ELSE <<>>)
                \o <<Event("done", NULL)>>
    /\ events = 0
    /\ shown = NULL
    /\ destination = NULL
    /\ acked = NULL
    /\ alive = TRUE
    /\ name = FALSE
    /\ identifier = FALSE
    /\ config = NULL
    /\ buffers = [c \in Configs |-> NULL]
    /\ layer_surface = FALSE
    /\ fractional_scale = FALSE
    /\ size = NoSize
    /\ scale_120 = 0
    /\ mode = NoSize
    /\ configured = FALSE
    /\ buffer_change = FALSE
    /\ config_change = FALSE
    /\ stage = "poll"

Next ==
    \/ Compositor
    \/ Handle
    \/ Wake \/ StopDispatching \/ Render
    \/ \E c \in Configs : SelectConfig(c)

Spec == Init /\ [][Next]_vars

(***************************************************************************)
(* A poll returns when there are events, all of which are dispatched in    *)
(* the end; the rest of the loop does not wait for anything.  A compositor *)
(* answers the first commit of a layer surface.                            *)
(***************************************************************************)
Fairness ==
    /\ WF_vars(queue # <<>> /\ Wake)
    /\ WF_vars(StopDispatching)
    /\ WF_vars(Render)
    /\ SF_vars(Handle)
    /\ WF_vars(FirstConfigure)

FairSpec == Spec /\ Fairness

-----------------------------------------------------------------------------
(***************************************************************************)
(* Properties.                                                             *)
(***************************************************************************)
\* Everything is of its type; an output whose name and identifier are known
\* has a configuration as long as it exists, and nothing else has; a surface
\* scaled by the compositor always has a scale.
TypeOK ==
    /\ has_manager \in BOOLEAN
    /\ events \in Nat
    /\ shown = NULL \/ (shown.config \in Configs /\ IsBuffer(shown.buffer))
    /\ destination \in Sizes \union {NULL}
    /\ acked \in Sizes \union {NULL}
    /\ alive \in BOOLEAN
    /\ name \in BOOLEAN /\ identifier \in BOOLEAN
    /\ config \in Configs \union {NULL}
    /\ config # NULL <=> alive /\ name /\ identifier
    /\ DOMAIN buffers = Configs
    /\ \A c \in Configs : buffers[c] = NULL \/ IsBuffer(buffers[c])
    /\ layer_surface \in BOOLEAN
    /\ fractional_scale \in BOOLEAN
    /\ size \in Sizes \union {NoSize}
    /\ scale_120 \in Scales \union {0, 120}
    /\ fractional_scale => scale_120 # 0
    /\ mode \in Modes \union {NoSize}
    /\ configured \in BOOLEAN
    /\ buffer_change \in BOOLEAN /\ config_change \in BOOLEAN
    /\ stage \in {"poll", "dispatch", "receive"}

Usable == alive /\ configured

\* The buffer of a configuration is one that it would be given now.
IsCurrent(c) == buffers[c].key \in Keys(c, Dims)

\* Whatever order modes, scales, descriptions and sizes come in, the flag for
\* a change of the buffers is never lost: without it every buffer of the
\* output, those of hidden workspaces too, is one get_wsbg_buffer would
\* return for the present size.  (Its own size may be another.)
BuffersAreCurrent ==
    Usable /\ ~buffer_change => \A c \in Configs : buffers[c] = NULL \/ IsCurrent(c)

Showing == shown = [config |-> config, buffer |-> buffers[config]]

\* Before the program blocks in poll, the screen shows the selected
\* configuration, in a buffer current at the present size and stretched to
\* that: nothing waits for an unrelated event to be drawn.  A buffer that
\* could not be made leaves the old content.
ScreenIsCurrent ==
    Usable /\ stage = "poll" /\ buffers[config] # NULL =>
        Showing /\ IsCurrent(config) /\ destination = size

\* wlr-layer-shell-unstable-v1.xml: ack_configure precedes the commit that
\* answers a configure event, and no buffer is attached before the first one.
\* So the surface is never committed with a size other than the acknowledged.
CommitsAreAcked ==
    /\ destination = acked
    /\ shown # NULL => acked # NULL

\* An output that is not taken away ends up configured, and showing the
\* configuration selected for it if the buffer could be made, in a buffer
\* current at its size.
OutputComesUp ==
    <>[](alive => /\ configured
                  /\ \/ buffers[config] = NULL
                     \/ (Showing /\ IsCurrent(config)))

\* render_frame: "Rotate buffer to match output".  When poll blocks, the image
\* on the screen was drawn upright if the output is, and lying if that lies.
BufferIsRotated ==
    Usable /\ stage = "poll" /\ shown # NULL =>
        IsPortrait(shown.buffer.dims) = IsPortrait(size)
=============================================================================
