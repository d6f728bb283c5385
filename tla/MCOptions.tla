------------------------------ MODULE MCOptions ------------------------------
(***************************************************************************)
(* Constants for model-checking Options: two outputs, one of them also     *)
(* known by its identifier, and two workspaces.                            *)
(***************************************************************************)
EXTENDS Options, TLC

CONSTANTS A, B, idA, tile, left, middle

MCCalled == (A :> {A, idA}) @@ (B :> {B})

MCPositionOf == (tile :> left)
=============================================================================
