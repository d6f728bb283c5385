-------------------------- MODULE MCImageTransform --------------------------
(***************************************************************************)
(* TLC evaluates the placement arithmetic on every combination of a small  *)
(* image, a small output, a mode and a position, and compares it with what *)
(* the modes mean in exact arithmetic.                                     *)
(***************************************************************************)
EXTENDS ImageTransform, FiniteSetsExt

CONSTANTS
    MaxSide,    \* sides of images and outputs range over 1..MaxSide pixels
    None        \* no result yet

ASSUME SideAssumption == MaxSide \in Nat

Modes == {"stretch", "fill", "fit", "center", "tile"}

VARIABLES
    image, mode, position, output,  \* the arguments of one call
    result                          \* its transform, None before the call

vars == <<image, mode, position, output, result>>

Sides == 1 .. MaxSide

Init ==
    /\ image \in [width: Sides, height: Sides]
    /\ output \in [width: Sides, height: Sides]
    /\ mode \in Modes
    /\ position \in [x: {0, Q16 \div 2, Q16}, y: {0, Q16 \div 4, Q16}]
    /\ result = None

Compute ==
    /\ result = None
    /\ result' = Transform(image, mode, position, output.width, output.height)
    /\ UNCHANGED <<image, mode, position, output>>

Next == Compute

Spec == Init /\ [][Next]_vars

Distance(a, b) == IF a >= b THEN a - b ELSE b - a

\* Rounding to nearest, halves up: what rounded_div is for positive operands.
Nearest(a, b) == (2 * a + b) \div (2 * b)

(***************************************************************************)
(* Where no background is needed none may be missing: in the modes that    *)
(* promise to cover the output, and whenever get_wsbg_image_transform says *)
(* "covered" (buffer.c then leaves the buffer unpainted below the image),  *)
(* both edges of the output sample points of the image, the far edge up to *)
(* the two roundings: half a unit of scale per output unit, and half an    *)
(* output unit in the size the image takes.                                *)
(***************************************************************************)
EdgesInside(side, offset, scale, length) ==
    LET far == length * Q16 + offset
    IN  /\ offset >= 0
        /\ 2 * far * scale <= 2 * side * Q16 * Q16 + far + scale

CoveredOutputsHaveNoGap ==
    \/ result = None
    \/ /\ mode \notin {"fill", "stretch"}
       /\ ~IsCovered(image, mode, position, output.width, output.height)
    \/ /\ EdgesInside(image.width, result.x, result.scale_x, output.width)
       /\ EdgesInside(image.height, result.y, result.scale_y, output.height)

(***************************************************************************)
(* "fit" shows the whole image and "fill" leaves no border, both keeping   *)
(* the aspect ratio: the common scale is the larger (smaller) of the two   *)
(* that would make the image as wide, or as high, as the output.  The code *)
(* decides between them by comparing rounded widths.                       *)
(***************************************************************************)
AspectIsKept ==
    LET scales == {Nearest(image.width * Q16, output.width),
                   Nearest(image.height * Q16, output.height)}
    IN  (result # None /\ mode \in {"fit", "fill"}) =>
            /\ result.scale_x = result.scale_y
            /\ result.scale_x = IF mode = "fit" THEN Max(scales) ELSE Min(scales)

(***************************************************************************)
(* The offset splits the space between image and output in the proportion  *)
(* of the position: to within two units (rounded_div errs by that much on  *)
(* negative values, where it truncates twice and then adds one), and half  *)
(* a pixel more when it is aligned, to a whole number of pixels.           *)
(***************************************************************************)
Accurate(offset, dest, scale, length, pos) ==
    LET exact == (dest - length * Q16) * pos    \* in 1/Q16 of a unit
    IN  IF scale = Q16
        THEN /\ offset % Q16 = 0
             /\ 2 * Distance(offset * Q16, exact) < (4 + Q16) * Q16
        ELSE Distance(offset * Q16, exact) < 2 * Q16

OffsetIsAccurate ==
    LET dest == Destination(image, mode, output.width, output.height)
    IN  result # None =>
            /\ Accurate(result.x, dest.w, result.scale_x, output.width, position.x)
            /\ Accurate(result.y, dest.h, result.scale_y, output.height, position.y)
=============================================================================
