-------------------------- MODULE MCCanvasHistory --------------------------
(* Model-checking instances of CanvasHistory: one or two tabs of a browser   *)
(* in which an administrator and another user sign in.                       *)
EXTENDS CanvasHistory, TLC

CONSTANTS g1, g2

Symmetry == Permutations({g1, g2})
=============================================================================
