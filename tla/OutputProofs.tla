---------------------------- MODULE OutputProofs ----------------------------
(***************************************************************************)
(* Proofs about the life of an output, for any number of configurations    *)
(* and of events, in whatever order they come, and any sizes, modes and    *)
(* scales, whatever get_wsbg_buffer finds in its cache: its type           *)
(* invariant, that no buffer stays that would not be asked for at the      *)
(* present size, and, if every size the compositor asks for has an area,   *)
(* that the screen is up to date whenever poll blocks and only             *)
(* acknowledged sizes are committed.                                       *)
(***************************************************************************)
EXTENDS Output, SequenceTheorems, TLAPS

-----------------------------------------------------------------------------
(***************************************************************************)
(* What makes the properties inductive.                                    *)
(***************************************************************************)

\* The events there are, with their values...
Announcements ==
    [type: {"mode"}, value: Modes]
    \union [type: {"configure"}, value: Sizes]
    \union [type: {"preferred_scale"}, value: Scales]
    \union [type: {"description"}, value: BOOLEAN]
    \union [type: {"name", "done", "closed", "global_remove"}, value: {NULL}]

\* ...and those that may be queued: no layer surface is configured before it
\* exists.
Allowed == {e \in Announcements : e.type = "configure" => layer_surface}

QueueOK ==
    /\ queue \in Seq(Allowed)
    /\ ~alive => queue = <<>>

\* A layer surface is made for outputs that have their configuration, and
\* configured once it exists; nothing is drawn before that.
StagesOfLife ==
    /\ layer_surface => name /\ identifier
    /\ acked # NULL => layer_surface
    /\ configured <=> acked # NULL
    /\ configured => size \in Sizes
    /\ shown # NULL => configured
    /\ ~configured => buffers = [c \in Configs |-> NULL]
    /\ fractional_scale => layer_surface

\* Output is an output only as long as it lives; then the flag tells stale
\* buffers from current ones.
FlagTellsStale ==
    alive /\ ~buffer_change =>
        \A c \in Configs : buffers[c] = NULL \/ IsCurrent(c)

Inv == TypeOK /\ QueueOK /\ StagesOfLife /\ FlagTellsStale

\* What holds besides if no size the compositor asks for is empty.
NoEmptySize == \A s \in Sizes : s.width > 0 /\ s.height > 0

FlagsTellOutdated ==
    Usable /\ ~buffer_change /\ ~config_change /\ buffers[config] # NULL =>
        Showing

PollHasNoFlags ==
    Usable /\ stage = "poll" => ~buffer_change /\ ~config_change

SizesAgree ==
    /\ destination = acked
    /\ configured => size = acked

ScreenInv == FlagsTellOutdated /\ PollHasNoFlags /\ SizesAgree

-----------------------------------------------------------------------------
(***************************************************************************)
(* Lemmas: queues of events, and the size of the buffers.                  *)
(***************************************************************************)
LEMMA TailType ==
    ASSUME NEW S, NEW q \in Seq(S), q # <<>>
    PROVE  Tail(q) \in Seq(S) /\ Head(q) \in S
  OBVIOUS

LEMMA DimsType ==
    ASSUME TypeOK
    PROVE  Dims \in Dimensions
<1> USE OutputAssumption
<1>1. size \in Dimensions /\ mode \in Dimensions /\ scale_120 \in Nat
  BY DEF TypeOK, NoSize, Dimensions
<1>2. ASSUME NEW length \in Nat
      PROVE  Scaled(length) \in Nat
  <2>1. length * scale_120 \in Nat
    BY <1>1
  <2> DEFINE product == length * scale_120
  <2>2. product \in Nat
    BY <2>1
  <2> HIDE DEF product
  <2>3. (product + 60) \div 120 \in Nat
    BY <2>2
  <2> QED
    BY <2>3 DEF Scaled, product
<1>3. CASE fractional_scale
  <2>1. Scaled(size.width) \in Nat /\ Scaled(size.height) \in Nat
    BY <1>1, <1>2 DEF Dimensions
  <2> QED
    BY <1>3, <2>1 DEF Dims, Dimensions
<1>4. CASE ~fractional_scale
  BY <1>1, <1>4 DEF Dims, Dimensions, Rotated
<1> QED
  BY <1>3, <1>4

\* What get_wsbg_buffer returns, found or made, has a key it was asked for.
LEMMA GetBufferGives ==
    ASSUME TypeOK, NEW c \in Configs, NEW b \in GetBuffer(c)
    PROVE  b = NULL \/ (IsBuffer(b) /\ b.key \in Keys(c, Dims))
<1>1. PICK key \in Keys(c, Dims) :
        b \in IF HasKey(buffers[c], key) THEN {buffers[c]} ELSE FoundOrMade(key)
  BY DEF GetBuffer
<1>2. \A d \in Configs : buffers[d] = NULL \/ IsBuffer(buffers[d])
  BY DEF TypeOK
<1>3. CASE HasKey(buffers[c], key)
  BY <1>1, <1>2, <1>3 DEF HasKey
<1>4. CASE b \in Existing /\ b.key = key
  BY <1>1, <1>2, <1>4, OutputAssumption DEF Existing
<1>5. CASE b = [key |-> key, dims |-> Dims]
  BY <1>1, <1>5, DimsType DEF IsBuffer
<1> QED
  BY <1>1, <1>3, <1>4, <1>5 DEF FoundOrMade

-----------------------------------------------------------------------------
(***************************************************************************)
(* The initial states.                                                     *)
(***************************************************************************)
LEMMA InitInv == Init => Inv
<1> SUFFICES ASSUME Init
             PROVE  Inv
  OBVIOUS
<1> USE OutputAssumption
<1>1. TypeOK
  BY DEF Init, TypeOK, NoSize
<1>2. QueueOK
  <2>1. PICK m \in Modes, described \in BOOLEAN :
          queue = <<Event("mode", m), Event("name", NULL)>>
                  \o (IF described THEN <<Event("description", TRUE)>> ELSE <<>>)
                  \o <<Event("done", NULL)>>
    BY DEF Init
  <2>2. /\ Event("mode", m) \in Allowed
        /\ Event("name", NULL) \in Allowed
        /\ Event("description", TRUE) \in Allowed
        /\ Event("done", NULL) \in Allowed
    BY DEF Event, Allowed, Announcements
  <2>3. ASSUME NEW S, NEW e1 \in S, NEW e2 \in S, NEW e3 \in S, NEW e4 \in S
        PROVE  <<e1, e2>> \o (IF described THEN <<e3>> ELSE <<>>) \o <<e4>> \in Seq(S)
    OBVIOUS
  <2>4. queue \in Seq(Allowed)
    BY <2>1, <2>2, <2>3
  <2>5. alive
    BY DEF Init
  <2> QED
    BY <2>4, <2>5 DEF QueueOK
<1>3. StagesOfLife /\ FlagTellsStale
  BY DEF Init, StagesOfLife, FlagTellsStale
<1> QED
  BY <1>1, <1>2, <1>3 DEF Inv

-----------------------------------------------------------------------------
(***************************************************************************)
(* The steps of the compositor only add to the queue.                      *)
(***************************************************************************)
LEMMA SendKeepsInv ==
    ASSUME Inv, alive, NEW batch \in Seq(Allowed), Send(batch),
           events' \in Nat
    PROVE  Inv'
<1>1. UNCHANGED <<has_manager, surface, alive, identity, config, buffers,
                  objects, size, scale_120, mode, flags, stage>>
  BY DEF Send
<1>2. TypeOK'
  BY <1>1 DEF Inv, TypeOK, surface, identity, objects, flags, Dimensions
<1>3. QueueOK'
  <2>1. Allowed' = Allowed
    BY <1>1 DEF Allowed, objects
  <2>2. queue' \in Seq(Allowed)
    BY DEF Inv, QueueOK, Send
  <2> QED
    BY <1>1, <2>1, <2>2 DEF QueueOK
<1>4. Dims' = Dims
  BY <1>1 DEF Dims, Scaled, objects
<1>5. (StagesOfLife /\ FlagTellsStale)'
  BY <1>1, <1>4 DEF Inv, StagesOfLife, FlagTellsStale, IsCurrent, surface, identity, objects, flags
<1> QED
  BY <1>2, <1>3, <1>5 DEF Inv

LEMMA CompositorKeepsInv ==
    ASSUME Inv, Compositor
    PROVE  Inv'
<1> USE OutputAssumption DEF Event, Allowed, Announcements
<1>1. events \in Nat /\ (Unasked => events' \in Nat)
  BY DEF Inv, TypeOK, Unasked
<1>2. acked # NULL => layer_surface
  BY DEF Inv, StagesOfLife
<1>3. CASE FirstConfigure
  <2>1. PICK s \in Sizes : Send(<<Event("configure", s)>>)
    BY <1>3 DEF FirstConfigure
  <2>2. <<Event("configure", s)>> \in Seq(Allowed)
    BY <1>3 DEF FirstConfigure
  <2> QED
    BY <1>1, <1>3, <2>1, <2>2, SendKeepsInv DEF FirstConfigure
<1>4. CASE Reconfigure
  <2>1. PICK s \in Sizes : Send(<<Event("configure", s)>>)
    BY <1>4 DEF Reconfigure
  <2>2. <<Event("configure", s)>> \in Seq(Allowed)
    BY <1>2, <1>4 DEF Reconfigure
  <2> QED
    BY <1>1, <1>4, <2>1, <2>2, SendKeepsInv DEF Reconfigure
<1>5. CASE ChangeMode
  <2>1. PICK m \in Modes : Send(<<Event("mode", m), Event("done", NULL)>>)
    BY <1>5 DEF ChangeMode
  <2>2. <<Event("mode", m), Event("done", NULL)>> \in Seq(Allowed)
    OBVIOUS
  <2> QED
    BY <1>1, <1>5, <2>1, <2>2, SendKeepsInv DEF ChangeMode
<1>6. CASE ChangeDescription
  <2>1. PICK changes \in BOOLEAN :
          Send(<<Event("description", changes), Event("done", NULL)>>)
    BY <1>6 DEF ChangeDescription
  <2>2. <<Event("description", changes), Event("done", NULL)>> \in Seq(Allowed)
    OBVIOUS
  <2> QED
    BY <1>1, <1>6, <2>1, <2>2, SendKeepsInv DEF ChangeDescription
<1>7. CASE ChangeScale
  <2>1. PICK s \in Scales : Send(<<Event("preferred_scale", s)>>)
    BY <1>7 DEF ChangeScale
  <2>2. <<Event("preferred_scale", s)>> \in Seq(Allowed)
    OBVIOUS
  <2> QED
    BY <1>1, <1>7, <2>1, <2>2, SendKeepsInv DEF ChangeScale
<1>8. CASE TakeAway
  <2>1. PICK type \in {"global_remove", "closed"} : Send(<<Event(type, NULL)>>)
    BY <1>8 DEF TakeAway
  <2>2. <<Event(type, NULL)>> \in Seq(Allowed)
    OBVIOUS
  <2> QED
    BY <1>1, <1>8, <2>1, <2>2, SendKeepsInv DEF TakeAway
<1> QED
  BY <1>3, <1>4, <1>5, <1>6, <1>7, <1>8 DEF Compositor

-----------------------------------------------------------------------------
(***************************************************************************)
(* The event handlers.                                                     *)
(***************************************************************************)

\* Whatever a handler does to the layer surface, it takes one event off the
\* queue, and never unmakes a surface.
LEMMA HandledKeepsQueue ==
    ASSUME QueueOK, queue # <<>>, queue' = Tail(queue), alive' = alive,
           layer_surface => layer_surface'
    PROVE  QueueOK'
<1>1. alive /\ Tail(queue) \in Seq(Allowed)
  BY TailType DEF QueueOK
<1>2. Allowed \subseteq Allowed'
  BY DEF Allowed, Announcements
<1>3. queue' \in Seq(Allowed')
  BY <1>1, <1>2, SeqMonotonic
<1> QED
  BY <1>1, <1>3 DEF QueueOK

LEMMA HeadIsAllowed ==
    ASSUME QueueOK, queue # <<>>
    PROVE  /\ alive
           /\ Head(queue).type = "mode" => Head(queue).value \in Modes
           /\ Head(queue).type = "preferred_scale" => Head(queue).value \in Scales
           /\ Head(queue).type = "configure" =>
                Head(queue).value \in Sizes /\ layer_surface
<1>1. Head(queue) \in Allowed
  BY TailType DEF QueueOK
<1> QED
  BY <1>1 DEF QueueOK, Allowed, Announcements

LEMMA DestroyKeepsInv ==
    ASSUME Inv, Destroy, UNCHANGED <<compositor, stage>>
    PROVE  Inv'
<1> USE OutputAssumption
        DEF Destroy, compositor, identity, objects, flags
<1>1. TypeOK'
  <2>1. DOMAIN buffers' = Configs /\ \A c \in Configs : buffers'[c] = NULL
    OBVIOUS
  <2>2. /\ config' \in Configs \union {NULL}
        /\ config' # NULL <=> alive' /\ name' /\ identifier'
        /\ shown' = NULL
        /\ alive' \in BOOLEAN
    OBVIOUS
  <2>3. UNCHANGED <<has_manager, events, destination, acked, name, identifier,
                    layer_surface, fractional_scale, size, scale_120, mode,
                    configured, buffer_change, config_change, stage>>
    OBVIOUS
  <2> HIDE DEF Destroy
  <2> QED
    BY <2>1, <2>2, <2>3 DEF Inv, TypeOK
<1>2. QueueOK'
  BY DEF QueueOK
<1>3. (StagesOfLife /\ FlagTellsStale)'
  BY DEF Inv, StagesOfLife, FlagTellsStale
<1> QED
  BY <1>1, <1>2, <1>3 DEF Inv

\* The handlers of what identifies an output.
LEMMA IdentifyKeepsInv ==
    ASSUME Inv, OutputName \/ OutputDescription
    PROVE  Inv'
<1> USE OutputAssumption
<1>1. /\ queue # <<>> /\ queue' = Tail(queue)
      /\ UNCHANGED <<compositor, surface, stage, alive, objects, size, scale_120, mode>>
  BY DEF OutputName, OutputDescription, Dispatch
<1>2. QueueOK' /\ alive
  BY <1>1, HandledKeepsQueue DEF Inv, objects, QueueOK
<1>3. /\ name => name'
      /\ identifier => identifier'
      /\ name' \in BOOLEAN /\ identifier' \in BOOLEAN
  BY DEF OutputName, OutputDescription, Inv, TypeOK
<1>4. \/ /\ Configure
         /\ name' /\ identifier'
      \/ /\ UNCHANGED <<config, buffers, flags>>
         /\ config # NULL <=> name' /\ identifier'
  <2>1. config # NULL <=> name /\ identifier
    BY <1>2 DEF Inv, TypeOK
  <2> QED
    BY <2>1, <1>3 DEF OutputName, OutputDescription
<1>5. Dims' = Dims
  BY <1>1 DEF Dims, Scaled, objects
<1>6. CASE /\ Configure
           /\ name' /\ identifier'
  <2>1. TypeOK'
    BY <1>1, <1>2, <1>6 DEF Inv, TypeOK, Configure, surface, objects, compositor
  <2>2. (StagesOfLife /\ FlagTellsStale)'
    BY <1>1, <1>3, <1>6 DEF Inv, StagesOfLife, FlagTellsStale, Configure, surface, objects
  <2> QED
    BY <1>2, <2>1, <2>2 DEF Inv
<1>7. CASE /\ UNCHANGED <<config, buffers, flags>>
           /\ config # NULL <=> name' /\ identifier'
  <2>1. TypeOK'
    BY <1>1, <1>2, <1>3, <1>7 DEF Inv, TypeOK, surface, objects, compositor, flags
  <2>2. (StagesOfLife /\ FlagTellsStale)'
    BY <1>1, <1>3, <1>5, <1>7 DEF Inv, StagesOfLife, FlagTellsStale, IsCurrent, surface, objects, flags
  <2> QED
    BY <1>2, <2>1, <2>2 DEF Inv
<1> QED
  BY <1>4, <1>6, <1>7

LEMMA OutputModeKeepsInv ==
    ASSUME Inv, OutputMode
    PROVE  Inv'
<1> USE OutputAssumption
        DEF OutputMode, Dispatch, compositor, surface, identity, objects, flags
<1>1. QueueOK'
  BY HandledKeepsQueue DEF Inv
<1>2. TypeOK'
  <2>1. mode' \in Modes \union {NoSize}
    BY HeadIsAllowed DEF Inv, TypeOK
  <2>2. buffer_change' \in BOOLEAN /\ UNCHANGED <<configured, config_change>>
    BY DEF Inv, TypeOK
  <2>3. UNCHANGED <<has_manager, events, stage, surface, alive, identity, config,
                    buffers, objects, size, scale_120>>
    OBVIOUS
  <2> HIDE DEF OutputMode, Dispatch
  <2> QED
    BY <2>1, <2>2, <2>3 DEF Inv, TypeOK
<1>3. StagesOfLife'
  BY DEF Inv, StagesOfLife
<1>4. FlagTellsStale'
  <2>1. CASE buffer_change'
    BY <2>1 DEF FlagTellsStale
  <2>2. CASE ~buffer_change'
    <3>1. ~buffer_change /\ UNCHANGED mode
      BY <2>2
    <3>2. Dims' = Dims
      BY <3>1 DEF Dims, Scaled
    <3> QED
      BY <3>1, <3>2 DEF Inv, FlagTellsStale, IsCurrent
  <2> QED
    BY <2>1, <2>2
<1> QED
  BY <1>1, <1>2, <1>3, <1>4 DEF Inv

LEMMA OutputDoneKeepsInv ==
    ASSUME Inv, OutputDone
    PROVE  Inv'
<1> USE OutputAssumption DEF compositor, surface, identity, objects, flags
<1>1. CASE Destroy
  BY <1>1, DestroyKeepsInv DEF OutputDone
<1>2. CASE /\ config # NULL
           /\ queue' = Tail(queue)
           /\ IF layer_surface THEN UNCHANGED <<objects, scale_120>>
                               ELSE CreateLayerSurface
           /\ UNCHANGED <<surface, alive, identity, config, buffers, size, mode, flags>>
  <2>1. queue # <<>> /\ UNCHANGED <<compositor, stage>>
    BY DEF OutputDone
  <2>2. /\ layer_surface' \in BOOLEAN
        /\ fractional_scale' \in BOOLEAN
        /\ scale_120' \in Scales \union {0, 120}
        /\ fractional_scale' => scale_120' # 0
        /\ layer_surface'
    <3>1. CASE layer_surface
      BY <1>2, <3>1 DEF Inv, TypeOK
    <3>2. CASE ~layer_surface
      <4>1. CreateLayerSurface /\ has_manager \in BOOLEAN
        BY <1>2, <3>2 DEF Inv, TypeOK
      <4>2. CASE has_manager
        BY <4>1, <4>2 DEF CreateLayerSurface
      <4>3. CASE ~has_manager
        BY <4>1, <4>3 DEF Inv, TypeOK, CreateLayerSurface
      <4> QED
        BY <4>1, <4>2, <4>3
    <3> QED
      BY <3>1, <3>2 DEF Inv, TypeOK
  <2>3. TypeOK'
    BY <1>2, <2>1, <2>2 DEF Inv, TypeOK
  <2>4. QueueOK'
    BY <1>2, <2>1, <2>2, HandledKeepsQueue DEF Inv
  <2>5. StagesOfLife'
    BY <1>2, <2>2 DEF Inv, TypeOK, StagesOfLife
  <2>6. FlagTellsStale'
    <3>1. CASE configured
      <4>1. layer_surface
        BY <3>1 DEF Inv, StagesOfLife
      <4>2. Dims' = Dims
        BY <1>2, <4>1 DEF Dims, Scaled
      <4> QED
        BY <1>2, <4>2 DEF Inv, FlagTellsStale, IsCurrent
    <3>2. CASE ~configured
      BY <1>2, <3>2 DEF Inv, StagesOfLife, FlagTellsStale
    <3> QED
      BY <3>1, <3>2
  <2> QED
    BY <2>3, <2>4, <2>5, <2>6 DEF Inv
<1> QED
  BY <1>1, <1>2 DEF OutputDone

LEMMA PreferredScaleKeepsInv ==
    ASSUME Inv, PreferredScale
    PROVE  Inv'
<1> USE OutputAssumption
        DEF PreferredScale, Dispatch, compositor, surface, identity, objects, flags
<1>1. QueueOK'
  BY HandledKeepsQueue DEF Inv
<1>2. TypeOK'
  <2>1. scale_120' \in Scales
    BY HeadIsAllowed DEF Inv
  <2>2. scale_120' # 0 /\ scale_120' \in Scales \union {0, 120}
    BY <2>1
  <2>3. buffer_change' \in BOOLEAN
    BY DEF Inv, TypeOK
  <2> QED
    BY <2>2, <2>3 DEF Inv, TypeOK
<1>3. StagesOfLife'
  BY DEF Inv, StagesOfLife
<1>4. FlagTellsStale'
  <2>1. CASE buffer_change'
    BY <2>1 DEF FlagTellsStale
  <2>2. CASE ~buffer_change'
    <3>1. ~buffer_change /\ UNCHANGED scale_120
      BY <2>2
    <3>2. Dims' = Dims
      BY <3>1 DEF Dims, Scaled
    <3> QED
      BY <3>1, <3>2 DEF Inv, FlagTellsStale, IsCurrent
  <2> QED
    BY <2>1, <2>2
<1> QED
  BY <1>1, <1>2, <1>3, <1>4 DEF Inv

LEMMA LayerSurfaceConfigureKeepsInv ==
    ASSUME Inv, LayerSurfaceConfigure
    PROVE  Inv'
<1> USE OutputAssumption
        DEF compositor, identity, objects
<1> DEFINE s == Head(queue).value
<1>1. /\ queue # <<>> /\ queue' = Tail(queue)
      /\ Head(queue).type = "configure"
      /\ UNCHANGED <<compositor, stage, alive, identity, config, buffers,
                     objects, scale_120, mode>>
  BY DEF LayerSurfaceConfigure, Dispatch
<1>2. s \in Sizes /\ layer_surface /\ alive
  BY <1>1, HeadIsAllowed DEF Inv
<1>3. QueueOK'
  BY <1>1, HandledKeepsQueue DEF Inv
<1>4. \/ UNCHANGED <<size, surface, flags>>
      \/ /\ size' = s
         /\ buffer_change' = (\/ buffer_change
                              \/ fractional_scale
                              \/ IsPortrait(s) # IsPortrait(size))
         /\ UNCHANGED <<shown, config_change>>
         /\ \/ UNCHANGED <<surface, configured>>
            \/ /\ acked' = s
               /\ destination' = s
               /\ configured' = TRUE
  BY DEF LayerSurfaceConfigure, AckAndCommit, surface
<1> HIDE DEF s
<1>5. CASE UNCHANGED <<size, surface, flags>>
  <2>1. Dims' = Dims
    BY <1>1, <1>5 DEF Dims, Scaled
  <2>2. TypeOK'
    BY <1>1, <1>5 DEF Inv, TypeOK, surface, flags
  <2>3. (StagesOfLife /\ FlagTellsStale)'
    BY <1>1, <1>5, <2>1 DEF Inv, StagesOfLife, FlagTellsStale, IsCurrent, surface, flags
  <2> QED
    BY <1>3, <2>2, <2>3 DEF Inv
<1>6. CASE /\ size' = s
           /\ buffer_change' = (\/ buffer_change
                                \/ fractional_scale
                                \/ IsPortrait(s) # IsPortrait(size))
           /\ UNCHANGED <<shown, config_change>>
           /\ \/ UNCHANGED <<surface, configured>>
              \/ /\ acked' = s
                 /\ destination' = s
                 /\ configured' = TRUE
  <2>1. buffer_change' \in BOOLEAN
    BY <1>6
  <2>2. TypeOK'
    <3>1. /\ size' \in Sizes \union {NoSize}
          /\ destination' \in Sizes \union {NULL}
          /\ acked' \in Sizes \union {NULL}
          /\ UNCHANGED <<shown, config_change>>
      BY <1>2, <1>6 DEF Inv, TypeOK, surface
    <3>2. configured' \in BOOLEAN
      BY <1>6 DEF Inv, TypeOK
    <3> QED
      BY <1>1, <2>1, <3>1, <3>2 DEF Inv, TypeOK
  <2>3. StagesOfLife'
    BY <1>1, <1>2, <1>6 DEF Inv, StagesOfLife, surface
  <2>4. FlagTellsStale'
    <3>1. CASE buffer_change'
      BY <3>1 DEF FlagTellsStale
    <3>2. CASE ~buffer_change'
      <4>1. /\ ~buffer_change /\ ~fractional_scale
            /\ IsPortrait(size') = IsPortrait(size)
        BY <1>6, <3>2
      <4>2. Dims' = Dims
        BY <1>1, <4>1 DEF Dims
      <4> QED
        BY <1>1, <4>1, <4>2 DEF Inv, FlagTellsStale, IsCurrent
    <3> QED
      BY <3>1, <3>2
  <2> QED
    BY <1>3, <2>2, <2>3, <2>4 DEF Inv
<1> QED
  BY <1>4, <1>5, <1>6

LEMMA HandleKeepsInv ==
    ASSUME Inv, Handle
    PROVE  Inv'
<1>1. CASE LayerSurfaceClosed
  BY <1>1, DestroyKeepsInv DEF LayerSurfaceClosed
<1>2. CASE HandleGlobalRemove
  BY <1>2, DestroyKeepsInv DEF HandleGlobalRemove
<1> QED
  BY <1>1, <1>2, IdentifyKeepsInv, OutputModeKeepsInv, OutputDoneKeepsInv,
     PreferredScaleKeepsInv, LayerSurfaceConfigureKeepsInv DEF Handle

-----------------------------------------------------------------------------
(***************************************************************************)
(* The steps of the loop.                                                  *)
(***************************************************************************)
\* What the render stage leaves each configuration with.
LEMMA RenderFramesDraws ==
    ASSUME Inv, alive, RenderFrames, Dims' = Dims
    PROVE  /\ DOMAIN buffers' = Configs
           /\ \A c \in Configs : \/ buffers'[c] = NULL
                                 \/ IsBuffer(buffers'[c]) /\ IsCurrent(c)'
<1>1. CASE buffer_change
  <2>1. /\ DOMAIN buffers' = Configs
        /\ \A c \in Configs : buffers'[c] \in GetBuffer(c)
    BY <1>1 DEF RenderFrames
  <2> QED
    BY <2>1, GetBufferGives DEF Inv, IsCurrent
<1>2. CASE ~buffer_change
  BY <1>2 DEF RenderFrames, Inv, TypeOK, FlagTellsStale, IsCurrent
<1> QED
  BY <1>1, <1>2

LEMMA RenderKeepsInv ==
    ASSUME Inv, Render
    PROVE  Inv'
<1> USE OutputAssumption DEF Render, compositor, identity, objects
<1>1. Dims' = Dims /\ Dims \in Dimensions
  BY DimsType DEF Inv, Dims, Scaled
<1>2. QueueOK'
  BY DEF Inv, QueueOK, Allowed
<1>3. CASE alive /\ configured /\ (buffer_change \/ config_change)
  <2>1. /\ RenderFrames
        /\ RenderBuffer
        /\ buffer_change' = FALSE
        /\ config_change' = FALSE
        /\ UNCHANGED configured
    BY <1>3
  <2>2. config \in Configs /\ acked # NULL /\ layer_surface /\ size \in Sizes
    BY <1>3 DEF Inv, TypeOK, StagesOfLife
  <2>3. /\ DOMAIN buffers' = Configs
        /\ \A c \in Configs : \/ buffers'[c] = NULL
                              \/ IsBuffer(buffers'[c]) /\ IsCurrent(c)'
    BY <1>1, <1>3, <2>1, RenderFramesDraws
  <2>4. /\ shown' = NULL \/ (shown'.config \in Configs /\ IsBuffer(shown'.buffer))
        /\ destination' \in Sizes \union {NULL}
        /\ UNCHANGED acked
    <3>1. CASE buffers'[config] = NULL
      BY <2>1, <3>1 DEF RenderBuffer, Inv, TypeOK, surface
    <3>2. CASE buffers'[config] # NULL
      BY <2>1, <2>2, <2>3, <3>2 DEF RenderBuffer
    <3> QED
      BY <3>1, <3>2
  <2>5. TypeOK'
    <3>1. UNCHANGED <<has_manager, events, alive, name, identifier, config,
                      layer_surface, fractional_scale, size, scale_120, mode,
                      configured>> /\ stage' = "poll"
      BY <2>1
    <3>2. buffer_change' \in BOOLEAN /\ config_change' \in BOOLEAN
      BY <2>1
    <3> HIDE DEF Render
    <3> QED
      BY <2>3, <2>4, <3>1, <3>2 DEF Inv, TypeOK
  <2>6. StagesOfLife'
    BY <1>3, <2>1, <2>2, <2>4 DEF Inv, StagesOfLife
  <2>7. FlagTellsStale'
    BY <2>3 DEF FlagTellsStale
  <2> QED
    BY <1>2, <2>5, <2>6, <2>7 DEF Inv
<1>4. CASE ~(alive /\ configured /\ (buffer_change \/ config_change))
  BY <1>1, <1>2, <1>4 DEF Inv, TypeOK, StagesOfLife, FlagTellsStale, IsCurrent, surface, flags
<1> QED
  BY <1>3, <1>4

LEMMA SelectConfigKeepsInv ==
    ASSUME Inv, NEW c \in Configs, SelectConfig(c)
    PROVE  Inv'
<1> USE OutputAssumption DEF SelectConfig, surface, identity, objects
<1>1. TypeOK'
  BY DEF Inv, TypeOK, Unasked
<1>2. QueueOK'
  BY DEF Inv, QueueOK, Allowed
<1>3. Dims' = Dims
  BY DEF Dims, Scaled
<1>4. (StagesOfLife /\ FlagTellsStale)'
  BY <1>3 DEF Inv, StagesOfLife, FlagTellsStale, IsCurrent
<1> QED
  BY <1>1, <1>2, <1>4 DEF Inv

LEMMA IdleKeepsInv ==
    ASSUME Inv, Wake \/ StopDispatching \/ UNCHANGED vars
    PROVE  Inv'
<1>1. /\ UNCHANGED <<compositor, queue, surface, alive, identity, config, buffers,
                     objects, size, scale_120, mode, flags>>
      /\ stage' \in {stage, "dispatch", "receive"}
  BY DEF Wake, StopDispatching, vars
<1> USE <1>1 DEF compositor, surface, identity, objects, flags
<1>2. TypeOK'
  BY DEF Inv, TypeOK
<1>3. QueueOK'
  BY DEF Inv, QueueOK, Allowed
<1>4. Dims' = Dims
  BY DEF Dims, Scaled
<1>5. (StagesOfLife /\ FlagTellsStale)'
  BY <1>4 DEF Inv, StagesOfLife, FlagTellsStale, IsCurrent
<1> QED
  BY <1>2, <1>3, <1>5 DEF Inv

LEMMA InvHolds == Spec => []Inv
<1>1. Inv /\ [Next]_vars => Inv'
  BY CompositorKeepsInv, HandleKeepsInv, RenderKeepsInv, SelectConfigKeepsInv,
     IdleKeepsInv DEF Next
<1> QED
  BY InitInv, <1>1, PTL DEF Spec

-----------------------------------------------------------------------------
(***************************************************************************)
(* The theorems that hold of all sizes.                                    *)
(***************************************************************************)

\* The type invariant, with its claim that an output has a configuration
\* exactly while it exists and its name and identifier are known (main.c:
\* output_name, output_description, configure_output, destroy_wsbg_output),
\* for every compositor.
THEOREM TypeCorrect == Spec => []TypeOK
<1>1. Inv => TypeOK
  BY DEF Inv
<1> QED
  BY InvHolds, <1>1, PTL

\* No order of mode, scale, size and description events makes the render
\* stage leave a configuration, of whatever workspace, with a buffer under a
\* key it would no longer ask for (main.c: the settings of buffer_change),
\* whichever buffers get_wsbg_buffer finds.
THEOREM BuffersCurrent == Spec => []BuffersAreCurrent
<1>1. Inv => BuffersAreCurrent
  BY DEF Inv, FlagTellsStale, BuffersAreCurrent, Usable
<1> QED
  BY InvHolds, <1>1, PTL

-----------------------------------------------------------------------------
(***************************************************************************)
(* The screen, if no size the compositor asks for is empty.                *)
(***************************************************************************)
LEMMA InitScreenInv == Init => ScreenInv
  BY DEF Init, ScreenInv, FlagsTellOutdated, PollHasNoFlags, SizesAgree, Usable

\* A step that destroys the output, or sets a flag outside of poll.
LEMMA FlagKeepsScreenInv ==
    ASSUME ScreenInv, UNCHANGED <<surface, size, configured>>, stage' # "poll",
           buffer_change' \/ config_change'
    PROVE  ScreenInv'
  BY DEF ScreenInv, FlagsTellOutdated, PollHasNoFlags, SizesAgree, Usable, surface

LEMMA DestroyKeepsScreenInv ==
    ASSUME ScreenInv, Destroy
    PROVE  ScreenInv'
  BY DEF Destroy, ScreenInv, FlagsTellOutdated, PollHasNoFlags, SizesAgree,
         Usable, flags

\* A step that changes nothing of what is drawn, flagged or committed.
LEMMA SameKeepsScreenInv ==
    ASSUME ScreenInv, UNCHANGED <<alive, config, buffers, surface, flags, size>>,
           stage' = "poll" => stage = "poll"
    PROVE  ScreenInv'
  BY DEF ScreenInv, FlagsTellOutdated, Showing, PollHasNoFlags, SizesAgree, Usable,
         surface, flags

LEMMA CompositorKeepsScreenInv ==
    ASSUME ScreenInv, Compositor
    PROVE  ScreenInv'
<1>1. UNCHANGED <<alive, config, buffers, surface, flags, objects, scale_120, size,
                  mode, stage>>
  BY DEF Compositor, FirstConfigure, Reconfigure, ChangeMode, ChangeDescription,
         ChangeScale, TakeAway, Send
<1> QED
  BY <1>1, SameKeepsScreenInv

LEMMA HandleKeepsScreenInv ==
    ASSUME NoEmptySize, Inv, ScreenInv, Handle
    PROVE  ScreenInv'
<1>1. CASE OutputName \/ OutputDescription
  <2>1. /\ UNCHANGED <<alive, surface, stage, objects, scale_120, size, mode>>
        /\ Configure \/ UNCHANGED <<config, buffers, flags>>
        /\ stage # "poll"
    BY <1>1 DEF OutputName, OutputDescription, Dispatch
  <2>2. CASE Configure
    BY <2>1, <2>2, FlagKeepsScreenInv DEF Configure
  <2>3. CASE UNCHANGED <<config, buffers, flags>>
    BY <2>1, <2>3, SameKeepsScreenInv
  <2> QED
    BY <2>1, <2>2, <2>3
<1>2. CASE OutputMode
  <2>1. /\ UNCHANGED <<alive, config, buffers, surface, stage, objects, scale_120, size>>
        /\ \/ UNCHANGED <<mode, flags>>
           \/ buffer_change' /\ UNCHANGED configured
        /\ stage # "poll"
    BY <1>2 DEF OutputMode, Dispatch
  <2>2. CASE UNCHANGED <<mode, flags>>
    BY <2>1, <2>2, SameKeepsScreenInv
  <2>3. CASE buffer_change' /\ UNCHANGED configured
    BY <2>1, <2>3, FlagKeepsScreenInv
  <2> QED
    BY <2>1, <2>2, <2>3
<1>3. CASE OutputDone
  <2>1. CASE Destroy
    BY <2>1, DestroyKeepsScreenInv
  <2>2. CASE ~Destroy
    <3>1. UNCHANGED <<surface, alive, config, buffers, size, flags, stage>>
      BY <1>3, <2>2 DEF OutputDone
    <3> QED
      BY <3>1, SameKeepsScreenInv
  <2> QED
    BY <2>1, <2>2
<1>4. CASE PreferredScale
  <2>1. /\ UNCHANGED <<alive, config, buffers, surface, stage, objects, size, mode,
                       configured, config_change>>
        /\ buffer_change' = (buffer_change \/ scale_120' # scale_120)
        /\ stage # "poll"
    BY <1>4 DEF PreferredScale, Dispatch
  <2>2. CASE buffer_change'
    BY <2>1, <2>2, FlagKeepsScreenInv
  <2>3. CASE ~buffer_change'
    <3>1. UNCHANGED buffer_change
      BY <2>1, <2>3, Zenon DEF Inv, TypeOK
    <3> QED
      BY <2>1, <3>1, SameKeepsScreenInv DEF flags
  <2> QED
    BY <2>2, <2>3
<1>5. CASE LayerSurfaceConfigure
  <2> DEFINE s == Head(queue).value
  <2>1. /\ UNCHANGED <<alive, config, buffers, stage, objects, scale_120, mode>>
        /\ stage # "poll"
        /\ queue # <<>> /\ Head(queue).type = "configure"
    BY <1>5 DEF LayerSurfaceConfigure, Dispatch
  <2>2. s.width \in Nat /\ s.width > 0 /\ s.height \in Nat /\ s.height > 0
    BY <2>1, HeadIsAllowed, OutputAssumption DEF Inv, NoEmptySize
  <2>3. \/ UNCHANGED <<size, surface, flags>>
        \/ /\ size' = s
           /\ buffer_change' = (\/ buffer_change
                                \/ fractional_scale
                                \/ IsPortrait(s) # IsPortrait(size))
           /\ AckAndCommit(s)
           /\ UNCHANGED config_change
    <3>1. ~(s.width < 1 \/ s.height < 1)
      BY <2>2
    <3> QED
      BY <1>5, <3>1, Zenon DEF LayerSurfaceConfigure
  <2> HIDE DEF s
  <2>4. CASE UNCHANGED <<size, surface, flags>>
    BY <2>1, <2>4, SameKeepsScreenInv
  <2>5. CASE /\ size' = s
             /\ buffer_change' = (\/ buffer_change
                                  \/ fractional_scale
                                  \/ IsPortrait(s) # IsPortrait(size))
             /\ AckAndCommit(s)
             /\ UNCHANGED config_change
    <3>1. SizesAgree'
      BY <2>5 DEF AckAndCommit, SizesAgree
    <3>2. PollHasNoFlags'
      BY <2>1 DEF PollHasNoFlags
    <3>3. FlagsTellOutdated'
      <4>1. CASE buffer_change'
        BY <4>1 DEF FlagsTellOutdated
      <4>2. CASE ~buffer_change'
        <5>1. /\ ~buffer_change /\ ~fractional_scale
              /\ IsPortrait(size') = IsPortrait(size)
          BY <2>5, <4>2
        <5>2. CASE configured
          BY <2>1, <2>5, <5>1, <5>2
             DEF ScreenInv, FlagsTellOutdated, Showing, Usable, AckAndCommit
        <5>3. CASE ~configured
          <6>1. alive => config \in Configs
            BY HeadIsAllowed, <2>1 DEF Inv, TypeOK, StagesOfLife
          <6>2. alive => buffers'[config'] = NULL
            BY <2>1, <5>3, <6>1 DEF Inv, StagesOfLife
          <6> QED
            BY <2>1, <6>2 DEF FlagsTellOutdated, Usable
        <5> QED
          BY <5>2, <5>3
      <4> QED
        BY <4>1, <4>2
    <3> QED
      BY <3>1, <3>2, <3>3 DEF ScreenInv
  <2> QED
    BY <2>3, <2>4, <2>5
<1>6. CASE LayerSurfaceClosed \/ HandleGlobalRemove
  BY <1>6, DestroyKeepsScreenInv DEF LayerSurfaceClosed, HandleGlobalRemove
<1> QED
  BY <1>1, <1>2, <1>3, <1>4, <1>5, <1>6 DEF Handle

LEMMA RenderKeepsScreenInv ==
    ASSUME Inv, ScreenInv, Render
    PROVE  ScreenInv'
<1>1. CASE alive /\ configured /\ (buffer_change \/ config_change)
  <2>1. /\ RenderBuffer
        /\ buffer_change' = FALSE
        /\ config_change' = FALSE
        /\ UNCHANGED <<config, size>>
    BY <1>1 DEF Render
  <2>2. size = acked
    BY <1>1 DEF ScreenInv, SizesAgree
  <2>3. SizesAgree'
    BY <2>1, <2>2 DEF RenderBuffer, surface, ScreenInv, SizesAgree
  <2>4. FlagsTellOutdated'
    BY <2>1 DEF RenderBuffer, FlagsTellOutdated, Showing
  <2> QED
    BY <2>1, <2>3, <2>4 DEF ScreenInv, PollHasNoFlags
<1>2. CASE ~(alive /\ configured /\ (buffer_change \/ config_change))
  <2>1. UNCHANGED <<alive, config, buffers, surface, flags, size>>
    BY <1>2 DEF Render
  <2> QED
    BY <1>2, <2>1
       DEF ScreenInv, FlagsTellOutdated, Showing, PollHasNoFlags, SizesAgree,
           Usable, surface, flags
<1> QED
  BY <1>1, <1>2

LEMMA SelectConfigKeepsScreenInv ==
    ASSUME ScreenInv, NEW c \in Configs, SelectConfig(c)
    PROVE  ScreenInv'
  BY FlagKeepsScreenInv DEF SelectConfig

LEMMA IdleKeepsScreenInv ==
    ASSUME ScreenInv, Wake \/ StopDispatching \/ UNCHANGED vars
    PROVE  ScreenInv'
<1>1. /\ UNCHANGED <<alive, config, buffers, surface, flags, objects, scale_120,
                     size, mode>>
      /\ stage' = "poll" => stage = "poll"
  BY DEF Wake, StopDispatching, vars
<1> QED
  BY <1>1, SameKeepsScreenInv

LEMMA ScreenInvHolds == ASSUME NoEmptySize PROVE Spec => []ScreenInv
<1>1. Inv /\ ScreenInv /\ [Next]_vars => ScreenInv'
  BY CompositorKeepsScreenInv, HandleKeepsScreenInv, RenderKeepsScreenInv,
     SelectConfigKeepsScreenInv, IdleKeepsScreenInv DEF Next
<1> QED
  BY InitScreenInv, InvHolds, <1>1, PTL DEF Spec

\* Whenever the loop blocks in poll, nothing waits to be drawn: what main.c's
\* event handlers and update_workspace have changed has been rendered, in a
\* buffer that would still be asked for, for any number of configurations
\* and of events and whatever the cache holds.
THEOREM ScreenCurrent ==
    ASSUME NoEmptySize
    PROVE  Spec => []ScreenIsCurrent
<1>1. Inv /\ ScreenInv => ScreenIsCurrent
  <2> SUFFICES ASSUME Inv, ScreenInv, Usable, stage = "poll", buffers[config] # NULL
               PROVE  Showing /\ IsCurrent(config) /\ destination = size
    BY DEF ScreenIsCurrent
  <2>1. Showing /\ destination = size
    BY DEF ScreenInv, FlagsTellOutdated, PollHasNoFlags, SizesAgree, Usable
  <2>2. config \in Configs
    BY DEF Inv, TypeOK, StagesOfLife, Usable
  <2>3. IsCurrent(config)
    BY <2>2 DEF Inv, FlagTellsStale, ScreenInv, PollHasNoFlags, Usable
  <2> QED
    BY <2>1, <2>3
<1> QED
  BY InvHolds, ScreenInvHolds, <1>1, PTL

\* A surface that is never given an empty size is committed at the size that
\* was acknowledged last, and never before the first acknowledgement
\* (layer_surface_configure, render_buffer).
THEOREM AcknowledgedFirst ==
    ASSUME NoEmptySize
    PROVE  Spec => []CommitsAreAcked
<1>1. Inv /\ ScreenInv => CommitsAreAcked
  BY DEF Inv, StagesOfLife, ScreenInv, SizesAgree, CommitsAreAcked
<1> QED
  BY InvHolds, ScreenInvHolds, <1>1, PTL
=============================================================================
