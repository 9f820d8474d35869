-------------------------- MODULE MCBillingSession --------------------------
(* Model-checking instances of BillingSession: symmetric requests.           *)
EXTENDS BillingSession, TLC

Symmetry == Permutations(Session)
=============================================================================
