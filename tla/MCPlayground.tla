---------------------------- MODULE MCPlayground ----------------------------
(* The instance of the playground that TLC checks.                         *)
EXTENDS Playground

=============================================================================
