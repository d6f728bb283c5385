------------------------------- MODULE Options -------------------------------
(***************************************************************************)
(* The command line (main.c): parse_command_line turns the flags into the  *)
(* list state->options, and configure_output replays that list for one     *)
(* output to find the look of each of its workspaces.  A look is a value   *)
(* for every kind of setting.                                              *)
(***************************************************************************)
EXTENDS Naturals, Sequences, SequencesExt

CONSTANTS
    Outputs,        \* outputs
    Called,         \* Outputs -> the names and identifiers it answers to
    Workspaces,     \* names of workspaces
    Colors, Images, Modes, Positions,   \* values that parse
    PositionOf,     \* Modes -> the position parse_mode sets along with a mode
    Unset,          \* what default_config starts with
    All,            \* the name "*"; in struct wsbg_config, workspace = NULL
    MaxFlags        \* bound on the length of the command line

ASSUME OptionsAssumption ==
    /\ PositionOf \in [Modes -> Positions]
    /\ All \notin Workspaces

Kinds == {"color", "image", "mode", "position"}
Selectors == {"output", "workspace"}

VARIABLES
    args,       \* history: the flags parsed so far
    options     \* state->options: a sequence of [type, value]

vars == <<args, options>>

-----------------------------------------------------------------------------
(***************************************************************************)
(* wsbg_option_select appends; wsbg_option_new reuses the option of its    *)
(* type if there is one behind the last -o or -w.                          *)
(***************************************************************************)
OptionSelect(list, type, name) == Append(list, [type |-> type, value |-> name])

\* Mutant: an option is reused across selectors.
OptionReused(list, type, value) ==
    LET reuse == SelectLastInSeq(list, LAMBDA x : x.type = type)
    IN  IF reuse = 0 THEN Append(list, [type |-> type, value |-> value])
                     ELSE [list EXCEPT ![reuse].value = value]

OptionNew(list, type, value) ==
    LET last  == SelectLastInSeq(list, LAMBDA x : x.type \in Selectors)
        reuse == SelectInSubSeq(list, last + 1, Len(list), LAMBDA x : x.type = type)
    IN  IF reuse = 0 THEN Append(list, [type |-> type, value |-> value])
                     ELSE [list EXCEPT ![reuse].value = value]

Parse(flag, value, new) ==
    /\ Len(args) < MaxFlags
    /\ args' = Append(args, [type |-> flag, value |-> value])
    /\ options' = new

OutputFlag(name) == Parse("output", name, OptionSelect(options, "output", name))

WorkspaceFlag(name) == Parse("workspace", name, OptionSelect(options, "workspace", name))

ColorFlag(v) == Parse("color", v, OptionNew(options, "color", v))

ImageFlag(v) == Parse("image", v, OptionNew(options, "image", v))

PositionFlag(v) == Parse("position", v, OptionNew(options, "position", v))

\* A mode brings its position along.
ModeFlag(v) ==
    Parse("mode", v, OptionNew(OptionNew(options, "mode", v), "position", PositionOf[v]))

Init == args = <<>> /\ options = <<>>

Next ==
    \/ \E o \in UNION {Called[x] : x \in Outputs} \union {All} : OutputFlag(o)
    \/ \E w \in Workspaces \union {All} : WorkspaceFlag(w)
    \/ \E v \in Colors : ColorFlag(v)
    \/ \E v \in Images : ImageFlag(v)
    \/ \E v \in Positions : PositionFlag(v)
    \/ \E v \in Modes : ModeFlag(v)

Spec == Init /\ [][Next]_vars

-----------------------------------------------------------------------------
(***************************************************************************)
(* configure_output, one option at a time.  The local list `configs` holds *)
(* the configurations the settings apply to, output->configs the others,   *)
(* and the look of a configuration is kept by its workspace (All for the   *)
(* default configuration, which always exists).                            *)
(***************************************************************************)
StartConfigure ==
    [configs |-> <<All>>, others |-> <<>>,
     look |-> [w \in Workspaces \union {All} |-> [k \in Kinds |-> Unset]],
     selected |-> TRUE, prev |-> "none", crashed |-> FALSE]

StepOutput(s, o, name) ==
    [s EXCEPT !.selected = \/ @ /\ s.prev = "output"
                           \/ name = All
                           \/ name \in Called[o]]

\* Mutant: wl_list_init forgotten.
StepAllAgain(s) == [s EXCEPT !.configs = s.others \o @]

StepAllWorkspaces(s) == [s EXCEPT !.configs = s.others \o @, !.others = <<>>]

\* A consecutive -w keeps the selected workspaces, any other starts afresh.
\* The search compares names until it finds the workspace; the default
\* configuration has none, and strcmp is handed its NULL.
StepWorkspace(s, name) ==
    LET joins == s.prev = "workspace"
        base  == IF joins THEN s
                 ELSE [s EXCEPT !.others = s.configs \o @, !.configs = <<>>]
        found == SelectInSeq(base.configs, LAMBDA w : w \in {name, All})
        isNew == name \notin ToSet(base.others)
    IN  IF found # 0 /\ base.configs[found] = All THEN [base EXCEPT !.crashed = TRUE]
        ELSE IF found # 0 THEN base
        ELSE [base EXCEPT !.configs = <<name>> \o @,
                          !.others = IF isNew THEN @ ELSE RemoveFirst(@, name),
                          !.look[name] = IF isNew THEN base.look[All] ELSE @]

StepSetting(s, kind, value) ==
    IF ~s.selected THEN s
    ELSE [s EXCEPT !.look = [w \in DOMAIN @ |->
             IF w \in ToSet(s.configs) THEN [@[w] EXCEPT ![kind] = value] ELSE @[w]]]

Step(s, o, option) ==
    IF s.crashed THEN s
    ELSE [(CASE option.type = "output" -> StepOutput(s, o, option.value)
             [] option.type = "workspace" /\ option.value = All -> StepAllWorkspaces(s)
             [] option.type = "workspace" /\ option.value # All -> StepWorkspace(s, option.value)
             [] OTHER -> StepSetting(s, option.type, option.value))
          EXCEPT !.prev = option.type]

ConfigureOutput(o) == FoldLeft(LAMBDA s, option : Step(s, o, option), StartConfigure, options)

\* The look of workspace w: of its own configuration, or of the default one.
LookOf(s, w) ==
    IF w \in ToSet(s.configs \o s.others) THEN s.look[w] ELSE s.look[All]

-----------------------------------------------------------------------------
(***************************************************************************)
(* What the manual says the flags mean, in terms of the flags alone.  A    *)
(* flag is under the last run of consecutive flags of a selector before    *)
(* it; a run selects what any of its flags names.                          *)
(***************************************************************************)
Run(k, type) ==
    LET end == SelectLastInSubSeq(args, 1, k, LAMBDA x : x.type = type)
    IN  {args[j].value : j \in {i \in 1 .. end : \A m \in i .. end : args[m].type = type}}

\* Run(k, type) is empty when no such flag comes before k: all are selected.
Selects(k, type, names) ==
    \/ Run(k, type) = {}
    \/ Run(k, type) \intersect (names \union {All}) # {}

Sets(k, kind) ==
    \/ args[k].type = kind
    \/ kind = "position" /\ args[k].type = "mode"

ValueSet(k, kind) ==
    IF args[k].type = "mode" /\ kind = "position" THEN PositionOf[args[k].value]
                                                  ELSE args[k].value

\* The last setting that applies to the workspace on the output decides.
Meant(o, w, kind) ==
    LET k == SelectLastInSubSeq([i \in DOMAIN args |-> i], 1, Len(args),
                LAMBDA i : /\ Sets(i, kind)
                           /\ Selects(i, "output", Called[o])
                           /\ Selects(i, "workspace", {w}))
    IN  IF k = 0 THEN Unset ELSE ValueSet(k, kind)

(***************************************************************************)
(* Unless it crashes, configure_output gives every workspace of every      *)
(* output the look the command line means: through the merging of options, *)
(* the shuffling of configurations between its two lists and the copying   *)
(* of the default configuration, the last applicable setting wins.         *)
(***************************************************************************)
LastApplicableSettingWins ==
    \A o \in Outputs :
        LET s == ConfigureOutput(o)
        IN  ~s.crashed => \A w \in Workspaces, kind \in Kinds :
                              LookOf(s, w)[kind] = Meant(o, w, kind)

(***************************************************************************)
(* The two lists hold the default configuration and one for each workspace *)
(* that a -w flag names, each of them once: no list surgery drops a        *)
(* configuration, which would never be drawn, freed or given its look, or  *)
(* doubles one, which destroy_wsbg_config would free twice.  None is made  *)
(* that no flag asks for.                                                  *)
(***************************************************************************)
Named == {args[k].value : k \in {i \in DOMAIN args : args[i].type = "workspace"}}

NoConfigLostOrDoubled ==
    \A o \in Outputs :
        LET s    == ConfigureOutput(o)
            kept == s.configs \o s.others
        IN  /\ IsInjective(kept)
            /\ ~s.crashed => ToSet(kept) = {All} \union Named

(***************************************************************************)
(* "The special value * selects all workspaces.  Consecutive -w flags are  *)
(* appended to the selected workspace(s)" (wsbg.1.scd): any sequence of    *)
(* selections is accepted.                                                 *)
(***************************************************************************)
SelectionsAreAccepted == \A o \in Outputs : ~ConfigureOutput(o).crashed
=============================================================================
