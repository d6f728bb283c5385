# TLA+ model of wsbg

wsbg draws wallpapers for the Sway compositor, with options per output and per
workspace. It is one process and one thread: a `poll` loop that reads two
sockets (the Wayland display and Sway's IPC), changes its state in callbacks,
and then renders what has been flagged as changed. There is no concurrency
inside the program; what makes it hard is the order in which two independent
servers tell it about the same outputs, what it caches in between, and that it
draws ahead of time what it may show later.

This directory holds TLA+ modules that model the program, TLC configurations
that check them on small instances, and TLAPS proofs for all instances. The
file `PROJECT.json` maps each definition to the source lines it stands for.

## The system

| component | state | operations | module |
|---|---|---|---|
| workspace tracking (`main.c`) | `state->workspaces`, `output->config`, the change flags | `update_workspace`, `handle_sway_workspaces`, `handle_sway_workspace_event`, the selection in `configure_output` | `Workspaces` |
| buffer cache (`buffer.c`) | buffers with `ref_count`, in one list per image and one for colours | `get_wsbg_buffer`, `get_wsbg_color_buffer`, `release_wsbg_buffer`, used by `render_frame`, `destroy_wsbg_config` | `Buffers` |
| image loading (`image.c`) | size, background, surface of `struct wsbg_image` | `load_image`, `load_gdk_pixbuf`, `load_png`, `unload_image` | `Images` |
| image placement (`image.c`) | none | `rounded_div`, `get_wsbg_image_transform` | `ImageTransform` |
| output life cycle (`main.c`) | `struct wsbg_output` | the `wl_output`, layer surface, fractional scale and registry handlers, the render stage | `Output` |
| options (`main.c`) | `state->options` | `wsbg_option_select`, `wsbg_option_new`, the flags, the replay in `configure_output` | `Options` |
| Sway IPC (`sway-ipc.c`) | socket, receive buffer, `received`, `payload_size` | `sway_ipc_open`, `sway_ipc_send`, `sway_ipc_recv`, `sway_ipc_close` | `SwayIpc`, `MessageStream` |
| Sway messages (`main.c`) | a message and what has been found in it | `handle_sway_workspaces`, `handle_sway_workspace_event` | `Messages` |
| JSON parser (`json.c`) | position, end and error | the tokenizer: `json_key`, `json_get_string`, `json_skip_value`, ... | `Json`, `JsonGrammar` |
| main loop and exit (`main.c`) | announced reads, queued events and requests, `pfd` | start-up, flush, poll, read, receive, render, the exits | `MainLoop` |
| value parsing | none | `parse_color`, `parse_mode`, `parse_position` | not modelled |
| logging (`log.c`) | – | – | not modelled |

How they interact. `main` goes round a loop: Wayland events are dispatched to
callbacks, then all messages of Sway are received (`sway_ipc_recv`) and handed
to the two JSON handlers, then outputs with a raised flag are rendered, then
all images are unloaded. Outputs, options and workspaces meet in
`configure_output`, which replays the options for one output and selects the
configuration of the workspace listed for it. Configurations of all outputs
share buffers through the cache.

What has to be right, by component:

- *Workspaces*: each output ends up with the options of the workspace it shows,
  whatever the order of reply, events, hot-plugged outputs and rendering.
- *Buffers*: no leak, no use after free, sharing whenever possible and only
  when the pictures really are the same.
- *Placement*: no gap where none is promised, aspect ratio, offsets.
- *Output*: no stale size, picture or missing redraw; the layer-shell
  protocol's order of configure, acknowledgement and commit.
- *Options*: the look each workspace gets is the one the manual describes.
- *IPC*: requests arrive whole, and messages are returned whole and in order,
  over streams cut anywhere.
- *Messages*: an intact message is understood, a damaged one is noticed, both
  handlers always return, and names decoded in place destroy nothing.
- *Main loop*: no announced read is forgotten, no sleep on unfinished work, no
  change that is never shown; it ends with the compositor and, on request, on a
  reload.

The hazards behind these are listed with their lines in `PROJECT.json`.

## The modules

**`ImageTransform`** (with `MCImageTransform`, `ImageTransformProofs`). The
arithmetic of `image.c` 70-136, with `Q16`, the number of fixed-point units in
a pixel, as a parameter: 65536 in the code, 16 and 4 in the runs, any even
number in the proofs. C's truncating division is `Quotient`. `MCImageTransform`
makes one call per behaviour and compares the result with exact arithmetic.

**`Images`**. `struct wsbg_image` as a record and its loading as operators that
return the set of images a call may leave, as every load may fail. A surface
is known by the colour it was flattened on and its size.

**`Buffers`** (with `MCBuffers`, `BuffersProofs`). Extends the previous two.
`buffer` is the heap of `struct wsbg_buffer`, `held` is `config->buffer`. The
`pixels` of a buffer say what the shared memory holds; the program never reads
it, and it exists to state that a configuration shows what it should. `phase`
alternates between dispatching (configurations may be destroyed) and rendering
(each may be drawn for any size, any number of times and in any order, which
includes what `main` does). `RenderImage` is the whole of `get_wsbg_buffer` and
`render_frame`: loading for the size, key, lookup, loading for the pixels,
creation or failure, release of the old buffer.

**`Workspaces`** (with `MCWorkspaces`, `WorkspacesProofs`). Sway is external:
it shows one workspace per output, serves `SUBSCRIBE` and `GET_WORKSPACES` when
it likes, and reports focus and moves in one stream. `workspaces` is the list
in its order. `SwayCreates` stands for events about a workspace that stays
hidden. `HandleReplyEntry` is one iteration of the loop in
`handle_sway_workspaces`, so that properties can see the merging half done (in
the program nothing runs in between, and only `TruncateList` ends it). Looks
are abstracted to "own" and "default" configurations. The history variable
`calm` is true until a workspace is moved to another output, an event tells of
a hidden workspace, or memory runs out: properties that need calm say so, and
the others are checked in the same run after all of these.

**`Options`** (with `MCOptions`, `OptionsProofs`). Each action is a flag of the
command line. `ConfigureOutput(o)` folds `Step` over the options, one `Step`
per iteration of the loop in `configure_output`, with the two lists of
configurations as sequences. `Meant` is the manual's reading of the same flags,
stated over the flags alone.

**`Output`** (with `MCOutput`, `OutputProofs`). One output and its layer
surface. The compositor is external, with one ordered event queue; each handler
of `main.c` is an action on its head. What has been committed to the compositor
is `shown` (the configuration and its buffer), `destination` and `acked`. The
selection of a configuration is reduced to a choice, of which `Workspaces` has
the detail. A buffer is reduced to what `get_wsbg_buffer` compares, its `key`,
and the size it was made for, which is not compared: `Keys(c, d)` are the keys
under which a configuration `c` may ask for a buffer of size `d`, `Elsewhere`
the buffers that configurations of other outputs may hold. `GetBuffer` gives a
configuration its own buffer again if that has the key, since `render_frame`
releases it only afterwards; otherwise one it finds, of whatever size, or a new
one. So it is not a property of `Output` that buffers have the size of the
output, and `MCOutputRotated.cfg` shows that they need not have. The name and the
description stand for whether they are known.

**`SwayIpc`** (with `MCSwayIpc`, `SwayIpcProofs`) and **`MessageStream`**. The
socket is opened and the requests of `main` are sent, header and payload, by
`send` calls that take any part, block until `poll` reports room, or fail; Sway
then writes messages as bytes, in pieces. Each call of `send`, `recv` and
`poll` is one step with any outcome the system call may have, including the
SIGPIPE that ends the program (`Killed`). The buffer keeps its stale and
uninitialised bytes. `MessageStream` is the promise: a queue of messages of
which each is delivered once, in order, until the socket closes. `SwayIpc`
implements it under the mapping that strips the bytes (`ReturnsTheStream`).

**`Json`** and **`JsonGrammar`**. `Json` is `json.c` over sequences of bytes:
`struct json_state` is a record, and an operator named for a function returns
the state that function leaves, its Boolean result in the field `ok`. Where a
function of the code loops over characters or calls itself on nested values,
the model has a recursive function over the positions of the document, and an
operator for one place of it that takes this function as an argument
(`DecodeAt` and `Decode`, `SkipValueAt` and `SkipValue`): the operator is what
the code does with the byte at hand. `JsonGrammar` is written from RFC 8259,
not from the code, as the set of positions at which a value that starts at one
position may end; it knows nothing of cursors or errors. Its operators are
RECURSIVE, so only `MCMessages` uses it, for `ErrorsAreExact`. One production
follows the code (an exponent has a sign), as the section on disagreements
says.

**`Messages`** (with `MCMessages`, `MessagesProofs`). The two handlers as a state machine: a step
is one round of one of their loops, so that properties can look at the buffer,
which is overwritten while it is read, after each. `calls` are the calls of
`update_workspace`, whose effect is the matter of `Workspaces`.

**`MainLoop`** (with `MainLoopProofs`). `main` from the connection to the
compositor to the end. `pc` is the place in the loop. libwayland is external
and reduced to what its documentation promises `main`: the count of announced
reads, the events read and not dispatched, the requests not flushed. The
compositor sends events, reads requests or not, and leaves. The connection to
Sway is an instance of `MessageStream`, so what `SwayIpc` is shown to implement
is what `MainLoop` relies on. What handlers change and rendering draws is one
flag, `dirty`: the other modules have the detail, and that drawing may fail is
in `Output`. One exit is left out: `wl_display_dispatch_pending` failing before
`poll` (main.c:903-905). It takes an event that is still queued there, and
there is none: what is read is dispatched before the loop turns, as
`MainLoopProofs` shows (`NothingQueued`).

## The runs

| run | configuration | result |
|---|---|---|
| `image_transform` | `MCImageTransform.cfg` | pass |
| `buffers` | `MCBuffers.cfg` | pass |
| `buffers_tiled` | `MCBuffersTiled.cfg` | violation |
| `workspaces` | `MCWorkspaces.cfg` | pass |
| `workspaces_stale` | `MCWorkspacesStale.cfg` | violation |
| `workspaces_hidden` | `MCWorkspacesHidden.cfg` | violation |
| `options` | `MCOptions.cfg` | pass |
| `options_all` | `MCOptionsAll.cfg` | violation |
| `output` | `MCOutput.cfg` | pass |
| `sway_ipc` | `MCSwayIpc.cfg` | pass |
| `messages` | `MCMessages.cfg` | pass |
| `main_loop` | `MCMainLoop.cfg` | pass |

`image_transform`: all images and outputs of up to 5x5 pixels, five modes, nine
positions. At a covered output the far edge samples the image up to two
roundings (`CoveredOutputsHaveNoGap`); "fit" and "fill" choose the right scale
though they compare rounded widths (`AspectIsKept`); offsets are within two
units, not one, because `rounded_div` truncates negative values twice and then
adds one (`OffsetIsAccurate`). Upscaling, downscaling and the 1:1 case all
occur; `Q16 = 16` leaves fractional results in most of them.

`buffers`: a translucent file that covers the output and a scalable one that
does not, two colours, five configurations
(two that differ in colour only, one plain, one that ignores its file), two
sizes that are rotations of each other, as many addresses as configurations, so
that every sharing pattern is possible; every load and allocation may fail.
`RedrawReusesBuffer` excepts scalable files, for a reason the model showed: an
opaque one is not known to be opaque when its first key is made
(`buffer.c:180`), so its first buffer is not found again later.

`workspaces`: two outputs, two workspaces with options and one without, three
steps of the user (switches, moves, creations), two of the outputs, failing
allocation. While `calm`, the outputs follow Sway (`EveryOutputInSync` when
nothing is in flight, `OutputsSettle` in the end) and the list does not grow
(`OneEntryPerOutput`); calm or not, replies are taken over exactly and
selections are flagged. The bounds let a switch fall before, between and after
the two replies, and an output appear, or come and go, between any two of
these.

`options`: all sequences of up to five flags over two outputs (one also known
by an identifier), two workspaces and few values. Five is the length at which
two selections, a setting before, between and after them fit.
`NoConfigLostOrDoubled` compares the configurations in the two lists of
`configure_output` with the workspaces named on the command line: each of them,
and the default one, is in one list, once. A run that ends in `strcmp` (see
`options_all`) stops before it has made them all; what it has made is still in
one list only.

`output`: modes of two sizes, both orientations of the surface, two scales,
with and without the fractional scale manager, outputs with and without a
description, three steps of the servers; any buffer may fail. There are two
configurations: one stretches its image, so its keys tell all sizes apart, the
other tiles an opaque scalable file, so its key depends only on what the file
covers and on whether it is known to be opaque; and another output holds a
buffer of another size that may be found for it. `BuffersAreCurrent` says that
without the flag every buffer, those of hidden workspaces too, has a key that
the configuration would ask for at the present size; `ScreenIsCurrent`, that
when the program blocks in `poll`, the selected configuration is on the screen,
in such a buffer and stretched to the present size; `OutputComesUp`, that it
comes to that in the end. None of the three says that a buffer was made for the
present size: for the tiled one it may not have been. A size with a zero side
is left out here (see `MCOutputZero.cfg` below). 755452 states.

`sway_ipc`: a request with a payload and one without, then up to three messages
with payloads of 0, 1 and 2 bytes or one that overflows `SizeMax`, a header of
three bytes, every cut of both streams, failing `connect`, `send`, `realloc`
and `recv`, and a peer that goes away in the middle.

`messages`: replies with none, one or two of four workspaces (with names that
are escaped as `\"`, `\u00e9` and a surrogate pair, or in UTF-8 of three and
four bytes; members in three orders; a nested object with members of the same
names; a number) and events of all kinds, intact (`IntactIsUnderstood`), cut at
every byte (`CutIsNoticed`), and some with a byte at every place changed into a
quote, a backslash or a brace; and as the value of a member that is skipped
over, every text of up to three pieces of JSON, or up to five of one kind
(`ErrorsAreExact`, both ways). `EveryRoundAdvances` stands for termination: each
step makes what is left of the message shorter or, at its end, leaves a loop;
this lexicographic variant says more than `<>Done`, and TLC evaluates it
without ENABLED, for which it would run the tokenizer once more in every state.
`BufferIsIntact` is about decoding in place: what is written never overtakes
the tokenizer, the rest of the message is as it was received, and a name found
earlier still ends before the write position.

`main_loop`: two Wayland events, two messages of Sway, any call failing, a
socket that is full for some time or for ever, peers that leave at any point,
with and without `--exit-on-reload`. Two of each are enough for one to arrive
at every point of the iteration that handles the other.
`SleepsWithNothingToDo` is why `wl_display_dispatch_pending` after
`wl_display_read_events` matters: without it the events would be dispatched by
the next `wl_display_prepare_read` loop, behind which nothing is drawn before
`poll`.

### Disagreements found

- `workspaces_stale`: the wallpaper of a workspace that is not there. Two
  entries for one output remain in the list after a workspace was moved away
  and back; an event that equals one of them is taken for no news (main.c:701).
- `workspaces_hidden`: the same, simpler: an `init` or `rename` event about a
  workspace that is not shown selects its options for its output (main.c:846).
- `options_all`: `-w '*' -w 1` hands NULL to `strcmp` (main.c:345).
- `buffers_tiled`: buffers are shared across output sizes in mode tile, since
  the size is not part of the comparison (buffer.c:185).
- The same with one output alone. Its own old buffer, released only after the
  new one was asked for (main.c:89-93), has an equal key in mode tile at the top
  left, so an output that is rotated keeps it, stretched, though render_frame
  means to "Rotate buffer to match output" (main.c:78). Not a run: `tlc -config
  MCOutputRotated.cfg MCOutput` finds `BufferIsRotated` violated.
- A configure event with a zero side is stored and committed later without an
  acknowledgement (main.c:171-176). Not a run: `tlc -config MCOutputZero.cfg
  MCOutput` finds `CommitsAreAcked` violated.
- `\u` escapes in keys are never matched (json.c:231-243), since the comparison
  goes on at the last digit of the escape. Not a run: `Compare` models it, and
  the inputs of `messages`, as Sway's messages, have escapes in names only.
- Exponents without a sign (`1e5`) are refused (json.c:466), though they are
  JSON. `JsonGrammar` marks the exception.
- A second half of a surrogate pair on its own is accepted (json.c:157 compares
  with 0x0E00), as is text behind the end of the root value, or an event that
  ends before its `change` member. The properties say so where it matters.
- If Sway closes the socket before the requests are sent, SIGPIPE ends the
  program (sway-ipc.c:184) instead of closing the socket; if it goes away later,
  the loop spins (sway-ipc.c:145, main.c:898), which `ComesToRest` excepts.

### Fairness

`Workspaces`: the loop runs (`WF(Loop)`), as `poll` returns when there is
something to read, and Sway serves what it was asked (`WF(SwayServes)`). The
user and the outputs owe nothing. `Output`: the loop turns when events are
queued; dispatching stops when the events that were read are done, so each is
handled in some iteration (`SF(Handle)`, since between two dispatch stages the
handlers are disabled); a compositor answers the first commit of a layer
surface, as the protocol demands. `SwayIpc`: Sway reads requests and writes
what it has sent, and the calls of `main` follow one another. `MainLoop`: the
loop runs, `poll` returning when there is something to report, and a compositor
that stays reads its requests (`WF(CompositorReads)`). In both no failure is
ever owed: failing calls are outside of the fair actions, so a run is never
rescued by one.

## The proofs

Every safety invariant of the passing runs is also proved for all values of the
constants, but for three of `Messages` that compare its results with the
meaning of a message. So are the action properties `RedrawReusesBuffer`,
`ReplyIsExact` and `EveryRoundAdvances` and the refinement `ReturnsTheStream`.
Before an inductive invariant was proved, TLC checked it on the configuration
of the run; the numbers of states below are those. The theorems, by module:

`BuffersProofs`, for every set of configurations, files, sizes and addresses
and every even `Q16` (17757 states checked):

- `TypeCorrect`: `TypeOK`; `RefCountsExact`: `RefCountExact`.
- `UniqueKeys`: `KeysAreUnique`.
- `RedrawReuses`: `RedrawReusesBuffer`.
- `BuffersFit`: `BuffersShowTheirConfigs`, if `NoThinImage`.

`Inv`, the conjunction of the first two, is inductive. Neither is alone: a
count stays positive because there is a holder, and that `buffer[b]` is a
record at all when it is released follows from `held[c] = b`. Lemmas on the
arithmetic show that transforms are typed, from `BuffersAssumption`, which
rules out a scale of zero; lemmas on `LoadImage`, that a loaded image keeps the
size of its file. The counting argument introduces a table in which one
reference is *promised* to a configuration that does not hold it yet: `Acquire`
and `Create` produce such a table, and `Keep` turns it into an exact one while
it gives up the old buffer, including the case that old and new are the same.
For the other theorems `LookupInv` adds what `get_wsbg_buffer` silently relies
on: an image remembers what the file has (`ImagesRemember`), and a
configuration holds a buffer of a key that it would ask for again, in spite of
all that was loaded since (`KeysAreAskedFor`). That a buffer shows its key
(`BuffersShowTheirKeys`) then gives the last theorem. `NoThinImage` says that
no scalable file is so thin that it would be rendered at width 0, which
`load_image` takes for "natural size" (buffer.c:196): there the property really
fails, and this is the only case.

`WorkspacesProofs`, for any workspaces and outputs (870214 states checked):

- `TypeCorrect`: `TypeOK`; `SwitchesFlagged`: `SwitchesAreFlagged`.
- `ReplyInPlace`: `ReplyPrefix`; `ReplyIsKept`: `ReplyIsExact`.
- `OneEntry`: `OneEntryPerOutput`; `OutputsInSync`: `EveryOutputInSync`.

`SwitchesAreFlagged` needs no more than the types of four functions, as
`Select` flags whatever it changes. `ListInv` describes the list outside and
inside of the merging of a reply. The last two theorems are about the `calm`
states. Their invariant `CalmInv` is the argument why two uncoordinated
sources agree: every entry, in the list, in a reply or in an event, names the
home of its workspace and no reply has an output twice (`SoundInv`); the *last*
word about each output, which is in the stream if the stream speaks of the
output at all and otherwise in the list, is what Sway shows on it
(`LastWordIsTrue`); and what an output has selected is what the list says
(`SelectionsFollow`). An empty stream leaves the list.

`OutputProofs`, for any modes, sizes, scales, configurations, keys and buffers of
other outputs (755452 states checked):

- `TypeCorrect`: `TypeOK`; `BuffersCurrent`: `BuffersAreCurrent`.
- `ScreenCurrent`: `ScreenIsCurrent`, and `AcknowledgedFirst`:
  `CommitsAreAcked`, if `NoEmptySize`.

`Inv` adds what may be queued in which stage of the surface's life, and that
without `buffer_change` every buffer has a key that its configuration would ask
for at the present size (`FlagTellsStale`), wherever the buffer was found;
`ScreenInv`, that without flags the screen has the selected configuration, that
no flag survives the render stage, and that the acknowledged, the committed and
the stored size agree. `NoEmptySize`, that a configure event never has a zero
side, is needed: see "Disagreements found".

`OptionsProofs`, for a command line of any length (402234 states checked):

- `ConfigsAreKept`: `NoConfigLostOrDoubled`.
- `FlagsAreObeyed`: `LastApplicableSettingWins`.

The first has two parts. That each `Step` leaves the two lists disjoint, without
repetition and with the default configuration among them is an induction over
the options of one `configure_output`. That none of the others is missing is
one over the command line: the configurations are those the options name
(`NamedBy`), and a `-w` flag adds its own name to these (`NamedGrows`). The second theorem is over the command line too. `Means`
relates the state after the options, field by field, to the flags; the lemma
behind it is `OptionNewApplies`: where `wsbg_option_new` reuses an option of
the same kind, that option, which is *earlier* in the list, does what a new one
at the end would. It holds since between two options of one kind there is
a selector (`OptionsAreUnique`), so only settings of other kinds lie between
the old place and the end, and those commute. It is about runs that do not end
in `strcmp` (`options_all`).

`SwayIpcProofs`, for any requests, messages, header length and size limit
(76400 states checked):

- `TypeCorrect`: `TypeOK`; `WholeRequests`: `RequestsAreWhole`.
- `ExactFraming`: `FramingIsExact`.
- `RefinesMessageStream`: `ReturnsTheStream`, that is `Spec => Stream!Spec`.

`SendInv`: what Sway has received followed by what is left is all parts of all
requests. `ReceiveInv`: the bytes in the buffer, followed by those in the
socket and those Sway has yet to write, are exactly the messages that have not
been returned; `payload_size` belongs to the first of them. The buffer keeps
stale bytes behind `received`, and the invariant shows that they never matter.
The refinement follows step by step: writing, hanging up and incomplete reads
are stutters, the read that completes a message delivers it.

`ImageTransformProofs`, for every even `Q16`, images and outputs of any size up
to `MaxSide`:

- `OffsetAccurate`: `OffsetIsAccurate`.
- `AspectKept`: `AspectIsKept`, and `CoveredHasNoGap`:
  `CoveredOutputsHaveNoGap`, if `MaxSide < 2 * Q16`.

The bound comes from the comparison of rounded widths (image.c:97-99) and from
scales that round to 1:1. It is tight: TLC finds `AspectIsKept` violated with
sides of `2 * Q16` pixels. In the code that would be 131072 pixels, and
`load_image` refuses images of more than 65536 (`IMAGE_SIZE_MAX`, image.c:318),
so the theorem covers every image the program draws.

`MessagesProofs`, for messages of any bytes and any length (90625 states checked):

- `BufferIntact`: `BufferIsIntact`.
- `RoundsAdvance`: `EveryRoundAdvances`.

Most of it is about the tokenizer, whatever the document holds. What a function
of `json.c` does to the position is one of a few things: it may go forward or
fail (`From`); if it fails, there is an error (`Reached`); if it succeeds it has
taken something, and if it fails without an error it has not moved (`Matched`);
or it either takes something or is an error (`Skipped`). The loops of the
handlers do not test for errors, and ignore what skipping returns; these facts
are why each of their rounds advances nevertheless. A key is matched or skipped,
a member that is skipped over takes at least a byte or is an error, and behind
an error `json_end_object` and `json_end_list` end the loops they are in.

The inductive invariant (`Invariant`) has four parts: `Stage` types the
handler; `Tokenizer` bounds the position and the end; `Written` says that the
write position is not beyond the tokenizer, behind which all is as received; and
`Names`, that a name that has been found ends before the write position. Two
arguments carry it. What is decoded is never longer than what it was decoded
from (`UnescapeIs`, `WriteIsDecoded`: at most four bytes for the escapes of a
character), and the 0 at its end takes the place of the closing quote. And an
error ends the document at the place where it was found, which is never before
the write position, although the tokenizer may look ahead and fail in the
middle of a character. `Names` is needed because a handler decodes two strings
into the same message, in either order.

The functions of `Json` are recursive, over positions, or over positions and
documents as they are overwritten. `RecursionExists` shows that such a function
exists, and `RankInduction` carries what holds for one place, if it holds for
the later ones, over to all.

`MainLoopProofs`, for any number of events and messages, with and without
failing calls:

- `TypeCorrect`: `TypeOK`; `ReadsMatched`: `ReadsAreMatched`.
- `SleepsOnNothing`: `SleepsWithNothingToDo`.

`SleepsWithNothingToDo` speaks of `poll` alone and is not inductive. The
invariant says why it holds there: events are never left undispatched between
two steps (`NothingQueued`), nothing becomes dirty between the render stage and
`poll` (`NothingDirty`), and requests that are added by a handler or by
rendering come before the flush (`PollIsFlushed`).

Inductions over data are made without the library's induction theorems, whose
operator parameter the provers cannot instantiate. `SetInduction` states
induction with a set (a set of naturals that has 0 and the successors of its
members has them all) and is derived from the well-foundedness of `<`; the
modules that need it each have a copy, so that each stands alone. The recursion
lemmas of `MessagesProofs` take a function from functions to functions
in place of an operator. `FoldLeft` and `FlattenSeq` are handled through their
definitions in the community modules.

The proofs rest on the named assumptions of the modules (`Q16Assumption`,
`ImagesAssumption`, `BuffersAssumption`, `SideAssumption`,
`WorkspacesAssumption`, `OptionsAssumption`, `OutputAssumption`,
`SwayIpcAssumption`, `MessagesAssumption`, `MainLoopAssumption`), all of which TLC evaluates in the
runs. Nearly all only give constants their types and keep model values apart.
Restrictions are that sizes are bounded by `Q16` times the image, in
`BuffersAssumption` (the code would divide by zero beyond it), that
configurations and outputs are finitely many, and that the first request is
there and the header is shorter than the limit, in `SwayIpcAssumption`. The
three hypotheses of single theorems are `NoThinImage`, `NoEmptySize` and
`MaxSide < 2 * Q16`, discussed above.

Only model-checked:

- Liveness: `OutputsSettle`, `OutputComesUp`, `EveryMessageArrives`,
  `EveryRequestArrives`, and `ChangesAreShown`, `ComesToRest`,
  `LeavesWithCompositor` and `LeavesOnReload` of `MainLoop`. They rest on
  fairness, and TLAPS does not support reasoning about ENABLED here.
- `IntactIsUnderstood`, `CutIsNoticed` and `ErrorsAreExact` of `Messages`. The
  first two compare the calls the handler makes with those a message was built
  to ask for, which is a fact about the inputs of the run; the third compares
  the tokenizer with `JsonGrammar`, whose RECURSIVE operators the provers cannot
  expand.

## Abstractions

- Integers are unbounded; truncation of offsets to 32 bits is not modelled.
- A file is readable or not for the whole of one load; `IMAGE_SIZE_MAX` counts
  as a failure to load. Files do not change.
- Failing allocation is modelled where the code survives it (`Workspaces`,
  `Buffers`, `Output`, `SwayIpc`), not in `configure_output`.
- In `Workspaces` and `Options` strings are model values; in `Messages` they are
  bytes.
- Descriptors are not numbered: that another file gets the number of the closed
  socket is not modelled.
- Not modelled: finding the path of the Sway socket (environment and `popen`),
  binding globals, logging, and the parsing of colours, modes and positions,
  each a comparison of one string with a list of words or digits.
- Events the compositor sends in one batch are one queue, read in any portions.

The definitions marked `Mutant` in the modules are deliberate mistakes: with
one of them in place of the definition it precedes, the property it is listed
with in `PROJECT.json` fails, which shows that the property depends on that
code.

## Plan

Done: all components but value parsing and logging, and the proofs of all
safety invariants that do not depend on what a message means. What could
follow:

1. `Output`: failing allocation in `configure_output`, which leaves
   `output->config` pointing to a freed configuration (main.c:305-309).
2. A composition of `Workspaces`, `Output` and `Buffers` over shared outputs,
   with an abstract specification ("each output shows the look of its
   workspace") that it implements while workspaces do not move. The invariants
   `SoundInv` of `WorkspacesProofs` and `ScreenInv` of `OutputProofs` are the
   two halves of its proof.
