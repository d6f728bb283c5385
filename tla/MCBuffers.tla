------------------------------ MODULE MCBuffers ------------------------------
(***************************************************************************)
(* Constants for model-checking Buffers: five configurations over a        *)
(* translucent raster file, which covers the output, and an opaque         *)
(* scalable one, which does not, on outputs of two sizes, one being the    *)
(* other rotated.                                                          *)
(***************************************************************************)
EXTENDS Buffers, TLC

CONSTANTS png, svg, red, blue, c1, c2, c3, c4, c5

MCConfigs == {c1, c2, c3, c4, c5}

MCSize == (png :> [width |-> 2, height |-> 2]) @@
          (svg :> [width |-> 1, height |-> 1])

MCSizes == {[width |-> 2, height |-> 1], [width |-> 1, height |-> 2]}

Middle == [x |-> Q16 \div 2, y |-> Q16 \div 2]
TopLeft == [x |-> 0, y |-> 0]

At(file, how, where, bg) ==
    [image |-> file, mode |-> how, position |-> where, color |-> bg]

MCLook == (c1 :> At(png, "fill", TopLeft, red)) @@
          (c2 :> At(png, "fill", TopLeft, blue)) @@
          (c3 :> At(svg, "fit", Middle, red)) @@
          (c4 :> At(NULL, "fill", Middle, red)) @@
          (c5 :> At(svg, "solid_color", Middle, red))

\* Two outputs tiled with the same file: wsbg -m tile -i svg.
TiledConfigs == {c1, c2}

TiledLook == (c1 :> At(svg, "tile", TopLeft, red)) @@
             (c2 :> At(svg, "tile", TopLeft, red))

BufferSymmetry == Permutations(Buffers)
=============================================================================
