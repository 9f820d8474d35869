------------------------- MODULE SubscriptionOrders -------------------------
(***************************************************************************)
(* Subscription orders of ONE user, the subscriptions they create and the  *)
(* user group they lend (model/subscription.go and the payment webhooks).  *)
(*                                                                         *)
(* Every operation is a database transaction that first reads and decides  *)
(* (the actions named after the Go functions, which only build the write   *)
(* set) and then commits its writes (Commit).  What may happen between the *)
(* two is the constant Isolation:                                          *)
(*   "serial"          SQLite: transactions overlap, but once one of them  *)
(*                     has written, the others that have read fail ("the   *)
(*                     database is locked");                               *)
(*   "rowLocks"        the code's FOR UPDATE reaches MySQL or PostgreSQL;  *)
(*   "readCommitted"   it does not, on PostgreSQL: GORM v2 does not know   *)
(*                     the setting "gorm:query_option" it is asked with;   *)
(*   "repeatableRead"  the same on MySQL, whose transactions go on reading *)
(*                     the state of their first read.                      *)
(* Webhook handlers also hold LockOrder, a mutex of their own process.     *)
(***************************************************************************)
EXTENDS Integers, Sequences, FiniteSets

CONSTANTS
    Worker,       \* the goroutines of webhooks and of administrators' requests
    Task,         \* the maintenance goroutine of the master node
    NodeOf,       \* the process a worker runs in
    Order,        \* trade numbers
    NoOrder,      \* the order of a subscription bound by an administrator
    Plan,
    PlanOf,       \* the plan of every order
    UpgradeGroup, \* the group a plan lends, "" for none
    MaxPurchase,  \* plan.MaxPurchasePerUser, 0 for no limit
    Duration,     \* of every plan
    BaseGroup,    \* the group of the user before any subscription
    Isolation,
    MaxSubs,      \* bound: subscriptions ever created
    MaxTime       \* bound: the clock

Groups == {UpgradeGroup[p] : p \in Plan} \cup {BaseGroup, ""}

ASSUME ConstantsAssumption ==
    /\ Task \notin Worker /\ NoOrder \notin Order
    /\ PlanOf \in [Order -> Plan]
    /\ MaxPurchase \in [Plan -> Nat] /\ Duration \in [Plan -> Nat \ {0}]
    /\ DOMAIN UpgradeGroup = Plan
    /\ BaseGroup # "" /\ \A p \in Plan : UpgradeGroup[p] # BaseGroup
    /\ Isolation \in {"serial", "rowLocks", "readCommitted", "repeatableRead"}
    /\ DOMAIN NodeOf = Worker
    /\ MaxSubs \in Nat /\ MaxTime \in Nat

VARIABLES
    now,     \* the clock
    group,   \* users.group of the user
    subs,    \* the rows of user_subscriptions, by id
    orders,  \* subscription_orders.status
    tx       \* the transaction every goroutine is in, as what it will write

vars == <<now, group, subs, orders, tx>>

Actor == Worker \cup {Task}

OrderStatus == {"none", "pending", "success", "expired"}

SubType ==
    [plan : Plan, order : Order \cup {NoOrder}, end : Nat, upgrade : Groups,
     prev : Groups, alone : BOOLEAN,
     status : {"active", "expired", "cancelled", "deleted"}]

\* A write set: the new status of an order, a subscription of a plan to be
\* inserted, subscriptions to be given a status, and a new group.
TxType ==
    [on : BOOLEAN, order : Order \cup {NoOrder}, to : OrderStatus,
     buys : SUBSET Plan, ids : SUBSET (1..MaxSubs),
     status : {"expired", "cancelled", "deleted"}, group : Groups, prev : Groups]

NoTx == [on |-> FALSE, order |-> NoOrder, to |-> "none", buys |-> {}, ids |-> {},
         status |-> "expired", group |-> "", prev |-> ""]

TypeOK ==
    /\ now \in 0..MaxTime
    /\ group \in Groups \ {""}
    /\ subs \in Seq(SubType) /\ Len(subs) <= MaxSubs
    /\ orders \in [Order -> OrderStatus]
    /\ tx \in [Actor -> TxType]

Init ==
    /\ now = 0 /\ group = BaseGroup /\ subs = <<>>
    /\ orders = [o \in Order |-> "none"]
    /\ tx = [a \in Actor |-> NoTx]

-----------------------------------------------------------------------------
(***************************************************************************)
(* What the queries return.                                                *)
(***************************************************************************)

\* CountUserSubscriptionsByPlan counts rows of any status.
OfPlan(p) == {i \in DOMAIN subs : subs[i].plan = p /\ subs[i].status # "deleted"}

LimitReached(p) == MaxPurchase[p] > 0 /\ Cardinality(OfPlan(p)) >= MaxPurchase[p]

Upgraded(i) == subs[i].upgrade # ""

ActiveUpgraded ==
    {i \in DOMAIN subs : subs[i].status = "active" /\ subs[i].end > now /\ Upgraded(i)}

Due == {i \in DOMAIN subs : subs[i].status = "active" /\ subs[i].end <= now}

\* Mutant: no LockOrder.
NoLock(w, o) == TRUE

\* LockOrder: the handlers of one process take turns on an order.
LockFree(w, o) ==
    \A v \in Worker : tx[v].on /\ tx[v].order = o => NodeOf[v] # NodeOf[w]

\* When a transaction that reads the order o (or none) may run.
CanBegin(a, o) ==
    /\ ~tx[a].on
    /\ Isolation = "rowLocks" /\ o # NoOrder =>
         \A b \in Actor : tx[b].on => tx[b].order # o

Begin(a, t) ==
    /\ tx' = [tx EXCEPT ![a] = t]
    /\ UNCHANGED <<now, group, subs, orders>>

-----------------------------------------------------------------------------
(***************************************************************************)
(* The transactions.                                                       *)
(***************************************************************************)

\* SubscriptionRequestEpay and its Stripe and Creem counterparts insert an
\* order unless the user has bought the plan often enough.
RequestOrder(o) ==
    /\ orders[o] = "none"
    /\ ~LimitReached(PlanOf[o])
    /\ orders' = [orders EXCEPT ![o] = "pending"]
    /\ UNCHANGED <<now, group, subs, tx>>

\* Mutant: the previous group is read after the upgrade.
CreateUserSubscriptionLate(p) ==
    [NoTx EXCEPT !.on = TRUE, !.buys = {p}, !.group = UpgradeGroup[p],
                 !.prev = UpgradeGroup[p]]

\* CreateUserSubscriptionFromPlanTx: the limit, then the group to be lent.
CreateUserSubscription(p) ==
    LET upgrades == UpgradeGroup[p] # "" /\ group # UpgradeGroup[p]
    IN  [NoTx EXCEPT !.on = TRUE, !.buys = {p},
                     !.group = IF upgrades THEN UpgradeGroup[p] ELSE "",
                     !.prev = IF upgrades THEN group ELSE ""]

\* Mutant: the limit is not looked at again.
CompleteUnlimited(w, o) ==
    /\ CanBegin(w, o) /\ LockFree(w, o)
    /\ orders[o] = "pending"
    /\ Begin(w, [CreateUserSubscription(PlanOf[o]) EXCEPT !.order = o, !.to = "success"])

\* A webhook reports the payment of the order.  An order that is no longer
\* pending, or a limit that has been reached, ends it without a write.
CompleteSubscriptionOrder(w, o) ==
    /\ CanBegin(w, o) /\ LockFree(w, o)
    /\ orders[o] = "pending"
    /\ ~LimitReached(PlanOf[o])
    /\ Begin(w, [CreateUserSubscription(PlanOf[o]) EXCEPT !.order = o, !.to = "success"])

\* Mutant: whatever the status of the order.
ExpireAnySubscriptionOrder(w, o) ==
    /\ CanBegin(w, o) /\ LockFree(w, o)
    /\ orders[o] # "none"
    /\ Begin(w, [NoTx EXCEPT !.on = TRUE, !.order = o, !.to = "expired"])

\* A webhook reports that the checkout expired.
ExpireSubscriptionOrder(w, o) ==
    /\ CanBegin(w, o) /\ LockFree(w, o)
    /\ orders[o] = "pending"
    /\ Begin(w, [NoTx EXCEPT !.on = TRUE, !.order = o, !.to = "expired"])

AdminBindSubscription(w, p) ==
    /\ CanBegin(w, NoOrder)
    /\ ~LimitReached(p)
    /\ Begin(w, CreateUserSubscription(p))

\* Mutant: other active subscriptions are not looked for.
DowngradeGroupAlways(i) ==
    IF Upgraded(i) /\ group = subs[i].upgrade THEN subs[i].prev ELSE ""

\* downgradeUserGroupForSubscriptionTx: the group to fall back to, or "".
DowngradeGroup(i) ==
    IF /\ Upgraded(i) /\ group = subs[i].upgrade
       /\ ActiveUpgraded \ {i} = {}
       /\ subs[i].prev # group
    THEN subs[i].prev ELSE ""

AdminInvalidateUserSubscription(w, i) ==
    /\ CanBegin(w, NoOrder)
    /\ subs[i].status # "deleted"
    /\ Begin(w, [NoTx EXCEPT !.on = TRUE, !.ids = {i}, !.status = "cancelled",
                             !.group = DowngradeGroup(i)])

AdminDeleteUserSubscription(w, i) ==
    /\ CanBegin(w, NoOrder)
    /\ subs[i].status # "deleted"
    /\ Begin(w, [NoTx EXCEPT !.on = TRUE, !.ids = {i}, !.status = "deleted",
                             !.group = DowngradeGroup(i)])

\* The upgraded subscription that has expired last, those due included.
LastExpired ==
    LET expired == {i \in DOMAIN subs :
                      Upgraded(i) /\ (subs[i].status = "expired" \/ i \in Due)}
    IN  {i \in expired : \A j \in expired :
           subs[j].end < subs[i].end \/ (subs[j].end = subs[i].end /\ j <= i)}

\* ExpireDueSubscriptions: what is due expires, and unless an upgraded
\* subscription is left the group falls back to what it was before the last.
ExpireDueSubscriptions ==
    /\ CanBegin(Task, NoOrder)
    /\ Due # {}
    /\ LET back == {subs[i].prev : i \in {j \in LastExpired :
                      group = subs[j].upgrade /\ group # subs[j].prev}}
       IN  \E g \in IF ActiveUpgraded = {} /\ back # {} THEN back ELSE {""} :
             Begin(Task, [NoTx EXCEPT !.on = TRUE, !.ids = Due, !.status = "expired",
                                      !.group = g])

\* The row that CreateUserSubscriptionFromPlanTx inserts.
NewRow(p, t) ==
    [plan |-> p, order |-> t.order, end |-> now + Duration[p],
     upgrade |-> UpgradeGroup[p], prev |-> t.prev, status |-> "active",
     alone |-> \A i \in DOMAIN subs : Upgraded(i) => subs[i].status # "active"]

\* The updates find their rows again by what those hold at the commit.
Written(i, t) ==
    IF \/ i \notin t.ids \/ subs[i].status = "deleted"
       \/ t.status = "expired" /\ subs[i].status # "active"
    THEN subs[i]
    ELSE [subs[i] EXCEPT !.status = t.status,
            !.end = IF t.status = "cancelled" THEN now ELSE @]

\* upsertSubscriptionTopUpTx: a transaction that cannot see the topup another
\* one inserted for the order inserts it again, which the unique index of
\* topups.trade_no refuses.
UniqueTradeNo(t) ==
    Isolation = "repeatableRead" /\ t.to = "success" =>
        \A i \in DOMAIN subs : subs[i].order # t.order

\* The transactions that are left when one has committed.
AfterCommit(a) ==
    [b \in Actor |-> IF b = a \/ Isolation = "serial" THEN NoTx ELSE tx[b]]

\* Mutant: the group is written whether or not it changes.
CommitGroup(a) ==
    LET t == tx[a]
        rows == [i \in DOMAIN subs |-> Written(i, t)]
    IN  /\ t.on /\ UniqueTradeNo(t)
        /\ Len(subs) + Cardinality(t.buys) <= MaxSubs
        /\ subs' = IF t.buys = {} THEN rows
                   ELSE Append(rows, NewRow(CHOOSE p \in t.buys : TRUE, t))
        /\ orders' = [o \in Order |-> IF o = t.order THEN t.to ELSE orders[o]]
        /\ group' = t.group
        /\ tx' = AfterCommit(a)
        /\ UNCHANGED now

\* The writes take effect, from what was read, over whatever is there by now.
Commit(a) ==
    LET t == tx[a]
        rows == [i \in DOMAIN subs |-> Written(i, t)]
    IN  /\ t.on /\ UniqueTradeNo(t)
        /\ Len(subs) + Cardinality(t.buys) <= MaxSubs
        /\ subs' = IF t.buys = {} THEN rows
                   ELSE Append(rows, NewRow(CHOOSE p \in t.buys : TRUE, t))
        /\ orders' = [o \in Order |-> IF o = t.order THEN t.to ELSE orders[o]]
        /\ group' = IF t.group = "" THEN group ELSE t.group
        /\ tx' = AfterCommit(a)
        /\ UNCHANGED now

\* A database error, or the process is killed, before the commit.
Rollback(a) ==
    /\ tx[a].on
    /\ tx' = [tx EXCEPT ![a] = NoTx]
    /\ UNCHANGED <<now, group, subs, orders>>

Tick ==
    /\ now < MaxTime
    /\ now' = now + 1
    /\ UNCHANGED <<group, subs, orders, tx>>

Next ==
    \/ \E o \in Order : RequestOrder(o)
    \/ \E w \in Worker :
         \/ \E o \in Order : CompleteSubscriptionOrder(w, o) \/ ExpireSubscriptionOrder(w, o)
         \/ \E p \in Plan : AdminBindSubscription(w, p)
         \/ \E i \in DOMAIN subs :
              AdminInvalidateUserSubscription(w, i) \/ AdminDeleteUserSubscription(w, i)
    \/ ExpireDueSubscriptions
    \/ \E a \in Actor : Commit(a) \/ Rollback(a)
    \/ Tick

Spec == Init /\ [][Next]_vars

-----------------------------------------------------------------------------
(***************************************************************************)
(* Properties.                                                             *)
(***************************************************************************)

\* "Complete a subscription order (idempotent)": however often webhooks and the
\* browser's return report a payment, the order creates one subscription.
OrderFulfilledOnce ==
    \A i, j \in DOMAIN subs :
        subs[i].order = subs[j].order /\ subs[i].order # NoOrder => i = j

\* An order whose subscription exists is a success, and only then.
SuccessMeansSubscription ==
    \A o \in Order :
        orders[o] = "success" <=> \E i \in DOMAIN subs : subs[i].order = o

\* A closed order is not reopened or closed in another way by a late or
\* duplicated webhook.
OrderIsFinal ==
    [][\A o \in Order :
         orders[o] \in {"success", "expired"} => orders'[o] = orders[o]]_vars

\* "Max purchases per user": several orders of a plan, each requested while the
\* user was below the limit, and administrators binding it do not get past the
\* limit when they are paid and committed in any order, on a database that lets
\* no transaction commit from a stale count.  On the others they do.
PurchaseLimit ==
    \A p \in Plan : MaxPurchase[p] > 0 => Cardinality(OfPlan(p)) <= MaxPurchase[p]

\* "If there's an active upgraded subscription, keep current group": whoever
\* still has one is not back in the base group.
ActiveKeepsUpgrade == ActiveUpgraded # {} => group # BaseGroup

Ended ==
    /\ \A a \in Actor : ~tx[a].on
    /\ \A i \in DOMAIN subs : Upgraded(i) => subs[i].status # "active"

\* "No active upgraded subscription, downgrade to previous group": when every
\* upgraded subscription has been ended the user is back in the base group.
GroupRestored == Ended => group = BaseGroup

\* The same for a user whose upgraded subscriptions never overlapped.
GroupRestoredWithoutOverlap ==
    Ended /\ (\A i \in DOMAIN subs : Upgraded(i) => subs[i].alone)
        => group = BaseGroup
=============================================================================
