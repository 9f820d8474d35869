------------------------ MODULE MCSubscriptionQuota ------------------------
(* Model-checking instances of SubscriptionQuota: two requests over two      *)
(* subscriptions, the second of which outlives the first.                    *)
EXTENDS SubscriptionQuota, TLC

CONSTANTS r1, r2, s1, s2

Totals == s1 :> 2 @@ s2 :> 3
Ends == s1 :> 1 @@ s2 :> 2
Ranks == s1 :> 1 @@ s2 :> 2

Symmetry == Permutations(Request)
=============================================================================
