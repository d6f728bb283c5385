--------------------------- MODULE ImageTransform ---------------------------
(***************************************************************************)
(* The placement arithmetic of image.c: where an image lands on an output  *)
(* and how it is scaled.  Everything is a fixed-point integer with Q16     *)
(* units per pixel (0x10000 in state.h; a parameter here, so that small    *)
(* instances stay small).  A point p of the output, in pixels, shows the   *)
(* point (p * Q16 + x) * scale of the image: that is how buffer.c composes *)
(* the pixman matrix from the result.                                      *)
(***************************************************************************)
EXTENDS Integers

CONSTANT Q16    \* fixed-point units per pixel; even, as a power of two is

ASSUME Q16Assumption == Q16 \in Nat \ {0} /\ Q16 % 2 = 0

(***************************************************************************)
(* C's division truncates towards zero; TLA+'s \div rounds down.           *)
(***************************************************************************)
Quotient(a, b) == IF a >= 0 THEN a \div b ELSE -((-a) \div b)

(***************************************************************************)
(* rounded_div.  Negative quotients are rounded the code's own way: x is   *)
(* truncated towards zero twice, and x & 1 is 1 for a negative odd x, so   *)
(* -2.75 becomes -1.                                                       *)
(***************************************************************************)
RoundedDiv(dividend, divisor) ==
    LET x == Quotient(dividend * 2, divisor)
    IN  Quotient(x, 2) + (x % 2)

(***************************************************************************)
(* Whether the width of the output, rather than its height, decides the    *)
(* scale; natural is how wide the image is when it is as high as the       *)
(* output.                                                                 *)
(***************************************************************************)
\* Mutant: "fit" and "fill" swapped.
ByWidthSwapped(mode, natural, width) ==
    IF mode = "fit" THEN natural < width * Q16 ELSE width * Q16 < natural

ByWidth(mode, natural, width) ==
    IF mode = "fit" THEN width * Q16 < natural ELSE natural < width * Q16

(***************************************************************************)
(* The switch of get_wsbg_image_transform: the size the image takes on the *)
(* output and the factor from output pixels to image pixels.               *)
(***************************************************************************)
Destination(image, mode, width, height) ==
    LET scaled_x == RoundedDiv(image.width * Q16, width)
        scaled_y == RoundedDiv(image.height * Q16, height)
        natural  == RoundedDiv(image.width * (height * Q16), image.height)
    IN  CASE mode \in {"center", "tile"} ->
               [w |-> image.width * Q16, h |-> image.height * Q16,
                scale_x |-> Q16, scale_y |-> Q16]
          [] mode = "stretch" ->
               [w |-> width * Q16, h |-> height * Q16,
                scale_x |-> scaled_x, scale_y |-> scaled_y]
          [] mode \in {"fill", "fit"} /\ ByWidth(mode, natural, width) ->
               [w |-> width * Q16,
                h |-> RoundedDiv(image.height * (width * Q16), image.width),
                scale_x |-> scaled_x, scale_y |-> scaled_x]
          [] OTHER ->
               [w |-> natural, h |-> height * Q16,
                scale_x |-> scaled_y, scale_y |-> scaled_y]

\* Mutant: down to a whole pixel.
AlignedDown(offset, scale) ==
    IF scale = Q16 THEN (offset \div Q16) * Q16 ELSE offset

\* At a scale of exactly 1:1 the offset moves to the nearest whole pixel.
Aligned(offset, scale) ==
    IF scale = Q16 THEN ((offset + Q16 \div 2) \div Q16) * Q16 ELSE offset

(***************************************************************************)
(* get_wsbg_image_transform: the transform, and whether the image is known *)
(* to cover the whole output.                                              *)
(***************************************************************************)
Transform(image, mode, position, width, height) ==
    LET dest == Destination(image, mode, width, height)
    IN  [x |-> Aligned(RoundedDiv((dest.w - width * Q16) * position.x, Q16),
                       dest.scale_x),
         y |-> Aligned(RoundedDiv((dest.h - height * Q16) * position.y, Q16),
                       dest.scale_y),
         scale_x |-> dest.scale_x,
         scale_y |-> dest.scale_y]

\* Mutant: the far edges are not looked at.
IsCoveredNearby(image, mode, position, width, height) ==
    LET t == Transform(image, mode, position, width, height)
    IN  t.x <= 0 /\ t.y <= 0

IsCovered(image, mode, position, width, height) ==
    LET dest == Destination(image, mode, width, height)
        t    == Transform(image, mode, position, width, height)
    IN  /\ t.x <= 0
        /\ t.y <= 0
        /\ width * Q16 <= t.x + dest.w
        /\ height * Q16 <= t.y + dest.h
=============================================================================
