------------------------------- MODULE Images -------------------------------
(***************************************************************************)
(* struct wsbg_image and its loading (image.c).  An image remembers its    *)
(* size from the first load on (0 before, -1 for good after a failure);    *)
(* its pixels live in a pixman surface that load_image makes and           *)
(* unload_image drops again after every render stage.  Pixels with alpha   *)
(* are flattened onto a background colour while loading, so a surface made *)
(* for one colour is of no use for another.                                *)
(*                                                                         *)
(* The files are constants.  Reading one may fail at any time: the file is *)
(* opened anew for every surface.                                          *)
(***************************************************************************)
EXTENDS Integers

CONSTANTS
    Images,     \* the image files named on the command line
    Colors,     \* background colours, all opaque (parse_color sets a = 0xFF)
    Size,       \* Images -> natural [width, height] of the file
    Alpha,      \* files with an alpha channel
    Scalable,   \* files gdk-pixbuf can render at any size; {} without it
    NULL

Clear == "clear"    \* (struct wsbg_color){}, the only colour with a = 0

Surface == [background: Colors, width: Int, height: Int]

ImageType ==
    [width: Int, height: Int, is_scalable: BOOLEAN,
     background: Colors \union {Clear}, surface: Surface \union {NULL}]

ASSUME ImagesAssumption ==
    /\ Size \in [Images -> [width: Nat \ {0}, height: Nat \ {0}]]
    /\ Alpha \subseteq Images
    /\ Scalable \subseteq Images
    /\ Clear \notin Colors
    /\ NULL \notin Images \union Surface

\* calloc in parse_command_line
NewImage ==
    [width |-> 0, height |-> 0, is_scalable |-> FALSE,
     background |-> Clear, surface |-> NULL]

UnloadImage(image) == [image EXCEPT !.surface = NULL]

(***************************************************************************)
(* load_gdk_pixbuf, and load_png when Scalable = {}: the images it may     *)
(* leave.  A scalable image asked for at no particular size (scaled = 0)   *)
(* the first time only has its size read; otherwise the surface is made    *)
(* and the background forgotten if it showed nowhere.  Everything that can *)
(* go wrong ends in the same way, without a surface.                       *)
(***************************************************************************)
LoadPixbuf(i, image, scaled) ==
    LET probed  == IF image.width <= 0 /\ i \in Scalable
                   THEN [image EXCEPT !.width = Size[i].width,
                                      !.height = Size[i].height,
                                      !.is_scalable = TRUE]
                   ELSE image
        natural == scaled.width = 0
        pixels  == [background |-> image.background,
                    width  |-> IF natural THEN Size[i].width ELSE scaled.width,
                    height |-> IF natural THEN Size[i].height ELSE scaled.height]
        sized   == IF natural THEN [probed EXCEPT !.width = Size[i].width,
                                                  !.height = Size[i].height]
                              ELSE probed
        loaded  == [sized EXCEPT !.surface = pixels,
                                 !.background = IF i \in Alpha THEN @ ELSE Clear]
    IN  IF probed # image /\ natural THEN {probed, image}
                                     ELSE {loaded, probed}

(***************************************************************************)
(* load_image: the images it may leave.  It returned true iff the image    *)
(* has a usable size afterwards.                                           *)
(***************************************************************************)
Loaded(image) == image.width > 0

LoadImage(i, image, background, scaled) ==
    LET usable == /\ image.background \in {Clear, background}
                  /\ scaled.width # 0 => /\ scaled.width = image.surface.width
                                         /\ scaled.height = image.surface.height
        fresh  == [UnloadImage(image) EXCEPT !.background = background]
        Result(im) == IF im.surface = NULL /\ ~(im.is_scalable /\ scaled.width = 0)
                      THEN [im EXCEPT !.width = -1]
                      ELSE im
    IN  IF image.surface # NULL /\ usable THEN {image}
        ELSE IF image.surface = NULL /\ image.width = -1 THEN {image}
        ELSE {Result(im) : im \in LoadPixbuf(i, fresh, scaled)}
=============================================================================
