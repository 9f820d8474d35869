--------------------------- MODULE MCTopUpOrders ----------------------------
(* The instance of the top-up orders that TLC checks: handlers of one node.*)
EXTENDS TopUpOrders

CONSTANTS n1

MCNode == {n1}
MCNodeOf == [h \in Handler |-> n1]

=============================================================================
