------------------------------ MODULE MCOutput ------------------------------
(***************************************************************************)
(* Instances of Output: an output that may be rotated and have its mode    *)
(* and scale changed, with two configurations.  One stretches its image,   *)
(* which tells all sizes apart; the other tiles an opaque scalable file of *)
(* 3x3 from the corner, where only what is covered counts, and the filled  *)
(* background only until the file is known to be opaque.                   *)
(***************************************************************************)
EXTENDS Output

S(w, h) == [width |-> w, height |-> h]

MCModes == {S(6, 4), S(3, 2)}
MCSizes == {S(3, 2), S(2, 3)}
MCSizesOrZero == {S(3, 2), S(0, 2)}
MCScales == {120, 180}

CONSTANTS stretched, tiled

IsCoveredBy(d) == d.width <= 3 /\ d.height <= 3

MCKeys(c, d) ==
    IF c = stretched THEN {[size |-> d]}
    ELSE IF IsCoveredBy(d) THEN {[fill |-> FALSE], [fill |-> TRUE]}
    ELSE {[repeat |-> TRUE]}

\* Another output tiles the same image.
MCElsewhere == {[key |-> [repeat |-> TRUE], dims |-> S(4, 6)]}
=============================================================================
