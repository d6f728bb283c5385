---------------------------- MODULE MCWorkspaces ----------------------------
(***************************************************************************)
(* Constants for model-checking Workspaces: two outputs; workspaces w1 and *)
(* w2, which have options of their own, and w3, which has not.             *)
(***************************************************************************)
EXTENDS Workspaces, TLC

CONSTANTS w1, w2, w3, A, B

MCHomeOf == (w1 :> A) @@ (w3 :> A) @@ (w2 :> B)
=============================================================================
