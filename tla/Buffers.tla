------------------------------- MODULE Buffers -------------------------------
(***************************************************************************)
(* The shared buffer cache (buffer.c) as the render stage of main.c uses   *)
(* it.  Every background a workspace may need is drawn in advance into a   *)
(* shared-memory buffer; configurations whose backgrounds come out the     *)
(* same share one, counted by ref_count and found again by a key that is   *)
(* looked up in the list of the image, or in the list of plain colours.    *)
(*                                                                         *)
(* The program is one thread that alternates between dispatching events,   *)
(* which may destroy configurations (configure_output, outputs going       *)
(* away), and the render stage, which draws them for the current size of   *)
(* their output and at its end unloads all images.                         *)
(***************************************************************************)
EXTENDS ImageTransform, Images, FiniteSets

CONSTANTS
    Configs,    \* struct wsbg_config, one per output and workspace
    Look,       \* Configs -> [image, mode, position, color]
    Sizes,      \* the buffer sizes render_frame may ask for, in pixels
    Buffers     \* addresses calloc may return for a struct wsbg_buffer

Modes == {"stretch", "fill", "fit", "center", "tile", "solid_color"}

TransformType == [x: Int, y: Int, scale_x: Int, scale_y: Int]

Keys == [list: {NULL}, background: Colors] \union
        [list: Images, transform: TransformType,
         background: Colors \union {Clear}, repeat: BOOLEAN]

Pixels == [fill: Colors] \union
          [size: Sizes, fill: Colors \union {Clear}, surface: Surface \union {NULL},
           transform: TransformType, repeat: BOOLEAN]

BufferType == [key: Keys, ref_count: Nat \ {0}, pixels: Pixels]

\* An output larger than Q16 times an image makes a scale of zero, by which
\* get_wsbg_buffer would divide.
ASSUME BuffersAssumption ==
    /\ Look \in [Configs -> [image: Images \union {NULL}, mode: Modes,
                             position: [x: 0 .. Q16, y: 0 .. Q16],
                             color: Colors]]
    /\ Sizes \subseteq [width: Nat \ {0}, height: Nat \ {0}]
    /\ IsFiniteSet(Configs)
    /\ \A i \in Images, size \in Sizes :
          /\ size.width <= Size[i].width * Q16
          /\ size.height <= Size[i].height * Q16
    /\ NULL \notin Buffers \union BufferType

VARIABLES
    phase,      \* "dispatch" or "render"
    image,      \* Images -> struct wsbg_image
    buffer,     \* Buffers -> struct wsbg_buffer, NULL where none is allocated
    held,       \* Configs -> config->buffer
    asked       \* history: Configs -> the size config->buffer was asked for

vars == <<phase, image, buffer, held, asked>>

Live == {b \in Buffers : buffer[b] # NULL}

(***************************************************************************)
(* The key under which a buffer is kept: the list it is in, and the fields *)
(* get_wsbg_buffer compares.  covered says that the background will not    *)
(* show around the image; a background kept by the image shows through it. *)
(***************************************************************************)
ColorKey(c) == [list |-> NULL, background |-> Look[c].color]

IsColor(c) == Look[c].image = NULL \/ Look[c].mode = "solid_color"

\* Mutant: an image that covers the output hides the background, though
\* the background shows through it.
BackgroundWhenUncovered(c, im, covered) ==
    IF covered THEN Clear ELSE Look[c].color

Background(c, im, covered) ==
    IF covered /\ im.background = Clear THEN Clear ELSE Look[c].color

ImageKey(c, im, size) ==
    LET look    == Look[c]
        covered == IsCovered(im, look.mode, look.position, size.width, size.height)
    IN  [list       |-> look.image,
         transform  |-> Transform(im, look.mode, look.position,
                                  size.width, size.height),
         background |-> Background(c, im, covered),
         repeat     |-> look.mode = "tile" /\ ~covered]

\* The size get_wsbg_buffer asks a scalable image to be rendered at.
ScaledSize(im, transform) ==
    IF im.is_scalable
    THEN [width  |-> RoundedDiv(im.width * Q16, transform.scale_x),
          height |-> RoundedDiv(im.height * Q16, transform.scale_y)]
    ELSE [width |-> 0, height |-> 0]

Natural == [width |-> 0, height |-> 0]

(***************************************************************************)
(* The buffer table after a reference is taken, created or given up        *)
(* (release_wsbg_buffer; the last one frees the buffer).  pixels is what   *)
(* the shared memory holds, never looked at by the program.                *)
(***************************************************************************)
\* Mutant: found, but not counted.
AcquireUncounted(table, b) == table

Acquire(table, b) == [table EXCEPT ![b].ref_count = @ + 1]

Create(table, b, key, pixels) ==
    [table EXCEPT ![b] = [key |-> key, ref_count |-> 1, pixels |-> pixels]]

\* Mutant: never freed.
ReleaseUnfreed(table, b) ==
    IF b = NULL THEN table ELSE [table EXCEPT ![b].ref_count = @ - 1]

Release(table, b) ==
    IF b = NULL THEN table
    ELSE LET left == table[b].ref_count - 1
         IN  [table EXCEPT ![b] = IF left = 0 THEN NULL
                                  ELSE [table[b] EXCEPT !.ref_count = left]]

-----------------------------------------------------------------------------
(***************************************************************************)
(* What drawing puts into a new buffer: its size, the color it was filled  *)
(* with and the image composited on top, if any.                           *)
(***************************************************************************)
ColorPixels(c) == [fill |-> Look[c].color]

ImagePixels(im, key, size) ==
    [size |-> size, fill |-> key.background, surface |-> im.surface,
     transform |-> key.transform, repeat |-> key.repeat]

(***************************************************************************)
(* get_wsbg_buffer gives a configuration a buffer found under its key, or  *)
(* a new one (a miss), or none.  Then render_frame releases the previous   *)
(* buffer, after having acquired the new one, and keeps the result.        *)
(***************************************************************************)
Keep(c, size, table, b) ==
    /\ buffer' = Release(table, held[c])
    /\ held' = [held EXCEPT ![c] = b]
    /\ asked' = [asked EXCEPT ![c] = IF b = NULL THEN NULL ELSE size]

Hit(c, size, key) ==
    \E b \in Live : buffer[b].key = key /\ Keep(c, size, Acquire(buffer, b), b)

\* Mutants: no lookup; a lookup that passes over buffers in use elsewhere.
NoLookup(key) == TRUE
MissedUnshared(key) ==
    \A b \in Live : buffer[b].key = key => buffer[b].ref_count > 1

Missed(key) == \A b \in Live : buffer[b].key # key

Miss(c, size, key, pixels) ==
    \E b \in Buffers \ Live : Keep(c, size, Create(buffer, b, key, pixels), b)

\* A failed load, calloc or mmap leaves the configuration without a buffer.
Fail(c, size) == Keep(c, size, buffer, NULL)

RenderColor(c, size) ==
    /\ phase = "render"
    /\ IsColor(c)
    /\ \/ Hit(c, size, ColorKey(c))
       \/ /\ Missed(ColorKey(c))
          /\ \/ Miss(c, size, ColorKey(c), ColorPixels(c))
             \/ Fail(c, size)
    /\ UNCHANGED <<phase, image>>

(***************************************************************************)
(* For an image: the first load_image, for the size of the image, happens  *)
(* only if that is not known yet; the second, for the pixels, only after a *)
(* miss.                                                                   *)
(***************************************************************************)
KnownSize(c) ==
    LET i == Look[c].image
    IN  IF image[i].width > 0 THEN {image[i]}
        ELSE LoadImage(i, image[i], Look[c].color, Natural)

RenderImage(c, size) ==
    /\ phase = "render"
    /\ ~IsColor(c)
    /\ LET i == Look[c].image
       IN  \E im \in KnownSize(c) :
             \/ /\ ~Loaded(im)
                /\ Fail(c, size)
                /\ image' = [image EXCEPT ![i] = im]
             \/ /\ Loaded(im)
                /\ Hit(c, size, ImageKey(c, im, size))
                /\ image' = [image EXCEPT ![i] = im]
             \/ LET key == ImageKey(c, im, size)
                IN  /\ Loaded(im)
                    /\ Missed(key)
                    /\ \E drawn \in LoadImage(i, im, Look[c].color,
                                              ScaledSize(im, key.transform)) :
                         /\ image' = [image EXCEPT ![i] = drawn]
                         /\ \/ /\ Loaded(drawn)
                               /\ Miss(c, size, key, ImagePixels(drawn, key, size))
                            \/ Fail(c, size)
    /\ UNCHANGED phase

(***************************************************************************)
(* destroy_wsbg_config, from configure_output or destroy_wsbg_output.  The *)
(* configuration that takes its place is created without a buffer.         *)
(***************************************************************************)
DestroyConfig(c) ==
    /\ phase = "dispatch"
    /\ buffer' = Release(buffer, held[c])
    /\ held' = [held EXCEPT ![c] = NULL]
    /\ asked' = [asked EXCEPT ![c] = NULL]
    /\ UNCHANGED <<phase, image>>

\* main: events have been dispatched, the outputs are rendered.
StartRender ==
    /\ phase = "dispatch"
    /\ phase' = "render"
    /\ UNCHANGED <<image, buffer, held, asked>>

\* main: the end of the iteration unloads all images.
UnloadImages ==
    /\ phase = "render"
    /\ phase' = "dispatch"
    /\ image' = [i \in Images |-> UnloadImage(image[i])]
    /\ UNCHANGED <<buffer, held, asked>>

Init ==
    /\ phase = "dispatch"
    /\ image = [i \in Images |-> NewImage]
    /\ buffer = [b \in Buffers |-> NULL]
    /\ held = [c \in Configs |-> NULL]
    /\ asked = [c \in Configs |-> NULL]

Next ==
    \/ StartRender
    \/ UnloadImages
    \/ \E c \in Configs :
          \/ DestroyConfig(c)
          \/ \E size \in Sizes : RenderColor(c, size) \/ RenderImage(c, size)

Spec == Init /\ [][Next]_vars

-----------------------------------------------------------------------------
\* Also: the size an image remembers is its file's, and only an image of
\* known size has a surface.
ImageOK(i) ==
    /\ image[i].width \in {-1, 0, Size[i].width}
    /\ image[i].width > 0 => image[i].height = Size[i].height
    /\ image[i].surface # NULL => image[i].width > 0

TypeOK ==
    /\ phase \in {"dispatch", "render"}
    /\ image \in [Images -> ImageType]
    /\ \A i \in Images : ImageOK(i)
    /\ buffer \in [Buffers -> BufferType \union {NULL}]
    /\ held \in [Configs -> Buffers \union {NULL}]
    /\ asked \in [Configs -> Sizes \union {NULL}]

Holders(b) == {c \in Configs : held[c] = b}

(***************************************************************************)
(* A buffer is allocated exactly as long as some configuration holds it,   *)
(* and ref_count says how many do: render_frame and destroy_wsbg_config    *)
(* neither free a buffer another configuration still shows nor leak one.   *)
(***************************************************************************)
RefCountExact ==
    \A b \in Buffers :
        IF buffer[b] = NULL THEN Holders(b) = {}
        ELSE /\ Holders(b) # {}
             /\ buffer[b].ref_count = Cardinality(Holders(b))

(***************************************************************************)
(* No two buffers in one list have the same key, so that the first match   *)
(* get_wsbg_buffer finds is the only one and sharing is never missed.      *)
(***************************************************************************)
KeysAreUnique ==
    \A b1, b2 \in Live : buffer[b1].key = buffer[b2].key => b1 = b2

(***************************************************************************)
(* The buffer of a configuration shows what the configuration asks for,    *)
(* whoever drew it first: its colour wherever the background can be seen,  *)
(* around the image or through it, and the image at its place, drawn from  *)
(* pixels of the right resolution.  Stated over the files, not over what   *)
(* the program remembers of them.                                          *)
(***************************************************************************)
ShowsImage(c, pixels, size) ==
    LET look == Look[c]
        i    == look.image
        t    == Transform(Size[i], look.mode, look.position, size.width, size.height)
        full == IsCovered(Size[i], look.mode, look.position, size.width, size.height)
    IN  /\ pixels.transform = t
        /\ ~full => pixels.fill = look.color
        /\ look.mode = "tile" /\ ~full => pixels.repeat
        /\ i \in Alpha => pixels.surface.background = look.color
        /\ i \in Scalable =>
              /\ pixels.surface.width = RoundedDiv(Size[i].width * Q16, t.scale_x)
              /\ pixels.surface.height = RoundedDiv(Size[i].height * Q16, t.scale_y)

BuffersShowTheirConfigs ==
    \A c \in Configs :
        held[c] # NULL =>
            LET pixels == buffer[held[c]].pixels
            IN  IF IsColor(c) THEN pixels.fill = Look[c].color
                              ELSE ShowsImage(c, pixels, asked[c])

(***************************************************************************)
(* render_frame rotates the size it asks for "to match output", but        *)
(* get_wsbg_buffer does not compare sizes: a buffer drawn for another size *)
(* is shared when its transform happens to be the same.                    *)
(***************************************************************************)
BuffersMatchTheirOutput ==
    \A c \in Configs :
        held[c] # NULL /\ ~IsColor(c) => buffer[held[c]].pixels.size = asked[c]

(***************************************************************************)
(* Drawing a configuration again at the same size finds the buffer it      *)
(* already has: render_frame lets go of the old buffer only after the      *)
(* lookup.  (The exception is a scalable file, whose size is known before  *)
(* it is known to be opaque: its first buffer may have another key.)       *)
(***************************************************************************)
RedrawReusesBuffer ==
    [][\A c \in Configs :
          /\ held[c] # NULL /\ held'[c] # NULL
          /\ asked'[c] = asked[c]
          /\ Look[c].image \notin Scalable
          => held'[c] = held[c]]_vars
=============================================================================
