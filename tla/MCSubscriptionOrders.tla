------------------------ MODULE MCSubscriptionOrders ------------------------
(* Model-checking instances of SubscriptionOrders: two webhook goroutines in *)
(* one or two processes, two orders of a plan, and a second plan.            *)
EXTENDS SubscriptionOrders, TLC

CONSTANTS w1, w2, o1, o2, vip, svip

OneNode == [w \in Worker |-> 1]
TwoNodes == w1 :> 1 @@ w2 :> 2
OrdersOfVip == [o \in Order |-> vip]
Groups2 == vip :> "vip" @@ svip :> "svip"
Limits == vip :> 2 @@ svip :> 0
LimitOne == vip :> 1 @@ svip :> 0
Durations == vip :> 1 @@ svip :> 2

Symmetry == Permutations(Order) \cup Permutations(Worker)
=============================================================================
