-------------------------- MODULE MCTaskLifecycle --------------------------
(* Model-checking instances of TaskLifecycle: one or two tasks and the        *)
(* polling loops of two master processes.                                    *)
EXTENDS TaskLifecycle, TLC

CONSTANTS p1, p2

Symmetry == Permutations(Poller)
=============================================================================
