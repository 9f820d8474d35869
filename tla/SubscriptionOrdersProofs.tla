---------------------- MODULE SubscriptionOrdersProofs ----------------------
(***************************************************************************)
(* Safety theorems about SubscriptionOrders, for any set of orders, plans, *)
(* goroutines and processes.                                               *)
(*                                                                         *)
(* What a transaction has read must still hold when it commits.  For the   *)
(* order it closes that follows from any of LockOrder in a single process, *)
(* row locks or a serialising database (Protected); for the limit and the  *)
(* group it needs the serialising database.                                *)
(***************************************************************************)
EXTENDS SubscriptionOrders, SequenceTheorems, FiniteSetTheorems, TLAPS

\* Nothing else can close an order between the read and the commit.
Protected ==
    \/ Isolation \in {"serial", "rowLocks"}
    \/ \A v, w \in Worker : NodeOf[v] = NodeOf[w]

OneBuy == \A a \in Actor : tx[a].buys = {} \/ \E p \in Plan : tx[a].buys = {p}

TypeInv == TypeOK /\ OneBuy

\* A running transaction that closes an order has found it pending, creates a
\* subscription exactly if the order was paid, and is the only one unless the
\* database aborts the others.
OrderTx(a) ==
    tx[a].on /\ tx[a].order # NoOrder =>
        /\ a \in Worker
        /\ orders[tx[a].order] = "pending"
        /\ tx[a].to = "success" \/ (tx[a].to = "expired" /\ tx[a].buys = {})
        /\ tx[a].to = "success" => tx[a].buys # {}
        /\ Isolation # "serial" =>
             \A b \in Actor : tx[b].on /\ tx[b].order = tx[a].order => b = a

OrderInv ==
    /\ \A a \in Actor : OrderTx(a)
    /\ SuccessMeansSubscription
    /\ OrderFulfilledOnce

-----------------------------------------------------------------------------
(* The rows a commit leaves behind.                                        *)

Rows(t) == [i \in DOMAIN subs |-> Written(i, t)]

LEMMA ClockIsNat ==
    ASSUME TypeOK
    PROVE  now \in Nat
<1>1. now \in 0..MaxTime
  BY DEF TypeOK
<1>2. MaxTime \in Nat
  BY ConstantsAssumption
<1> QED BY <1>1, <1>2

\* An update keeps what a row says of its purchase.
LEMMA WrittenKeeps ==
    ASSUME TypeOK, NEW t \in TxType, NEW i \in DOMAIN subs
    PROVE  /\ Written(i, t) \in SubType
           /\ Written(i, t).order = subs[i].order
           /\ Written(i, t).plan = subs[i].plan
           /\ Written(i, t).upgrade = subs[i].upgrade
           /\ subs[i].status = "deleted" => Written(i, t).status = "deleted"
           /\ Written(i, t).status = "active" =>
                /\ subs[i].status = "active" /\ i \notin t.ids
                /\ Written(i, t).end = subs[i].end
<1>1. subs[i] \in SubType
  <2>1. subs \in Seq(SubType)
    BY DEF TypeOK
  <2> QED BY <2>1, LenProperties, ElementOfSeq
<1>2. now \in Nat
  BY ClockIsNat
<1> QED BY <1>1, <1>2 DEF Written, SubType, TxType

LEMMA RowsAreRows ==
    ASSUME TypeOK, NEW t \in TxType
    PROVE  Rows(t) \in Seq(SubType) /\ Len(Rows(t)) = Len(subs)
<1>1. Len(subs) \in Nat /\ DOMAIN subs = 1..Len(subs)
  BY LenProperties DEF TypeOK
<1>2. Rows(t) \in [1..Len(subs) -> SubType]
  BY <1>1, WrittenKeeps DEF Rows
<1>3. Rows(t) \in Seq(SubType)
  BY <1>1, <1>2, SeqDef
<1> QED BY <1>1, <1>2, <1>3, LenProperties

LEMMA NewRowIsRow ==
    ASSUME TypeOK, NEW t \in TxType, NEW p \in Plan
    PROVE  NewRow(p, t) \in SubType
<1>1. now + Duration[p] \in Nat
  <2>1. Duration[p] \in Nat
    BY ConstantsAssumption
  <2> QED BY <2>1, ClockIsNat
<1>2. UpgradeGroup[p] \in Groups
  BY DEF Groups
<1>3. (\A i \in DOMAIN subs : Upgraded(i) => subs[i].status # "active") \in BOOLEAN
  OBVIOUS
<1> QED BY <1>1, <1>2, <1>3 DEF NewRow, SubType, TxType

\* A commit rewrites the rows and adds the one that was bought.
LEMMA CommitRows ==
    ASSUME TypeInv, NEW a \in Actor, Commit(a)
    PROVE  /\ tx[a] \in TxType
           /\ \/ /\ tx[a].buys = {} /\ subs' = Rows(tx[a])
                 /\ DOMAIN subs' = DOMAIN subs
              \/ \E p \in Plan :
                   /\ tx[a].buys = {p}
                   /\ subs' = Append(Rows(tx[a]), NewRow(p, tx[a]))
                   /\ DOMAIN subs' = DOMAIN subs \cup {Len(subs) + 1}
                   /\ Len(subs) + 1 \notin DOMAIN subs
                   /\ subs'[Len(subs) + 1] = NewRow(p, tx[a])
           /\ \A i \in DOMAIN subs : subs'[i] = Written(i, tx[a])
           /\ subs' \in Seq(SubType) /\ Len(subs') <= MaxSubs
<1> DEFINE t == tx[a]
<1>1. t \in TxType
  BY DEF TypeInv, TypeOK
<1>2. Rows(t) \in Seq(SubType) /\ Len(Rows(t)) = Len(subs)
  BY <1>1, RowsAreRows DEF TypeInv
<1>3. Len(subs) \in Nat /\ DOMAIN subs = 1..Len(subs)
  BY LenProperties DEF TypeInv, TypeOK
<1>4. DOMAIN Rows(t) = DOMAIN subs /\ \A i \in DOMAIN subs : Rows(t)[i] = Written(i, t)
  BY DEF Rows
<1>5. CASE t.buys = {}
  <2>1. subs' = Rows(t)
    BY <1>5 DEF Commit, Rows
  <2> QED BY <1>1, <1>2, <1>4, <1>5, <2>1 DEF TypeInv, TypeOK
<1>6. CASE t.buys # {}
  <2>1. PICK p \in Plan : t.buys = {p}
    BY <1>6 DEF TypeInv, OneBuy
  <2>2. (CHOOSE q \in t.buys : TRUE) = p
    BY <2>1
  <2>3. subs' = Append(Rows(t), NewRow(p, t))
    BY <1>6, <2>2 DEF Commit, Rows
  <2>4. NewRow(p, t) \in SubType
    BY <1>1, NewRowIsRow DEF TypeInv
  <2>5. /\ subs' \in Seq(SubType) /\ Len(subs') = Len(subs) + 1
        /\ \A i \in 1..Len(subs) : subs'[i] = Rows(t)[i]
        /\ subs'[Len(subs) + 1] = NewRow(p, t)
    BY <1>2, <2>3, <2>4, AppendProperties
  <2>6. DOMAIN subs' = 1..(Len(subs) + 1)
    BY <1>3, <2>5, LenProperties
  <2>7. DOMAIN subs' = DOMAIN subs \cup {Len(subs) + 1} /\ Len(subs) + 1 \notin DOMAIN subs
    BY <1>3, <2>6
  <2>8. Len(subs) + 1 <= MaxSubs
    <3>1. Cardinality(t.buys) = 1
      BY <2>1, FS_Singleton
    <3> QED BY <3>1 DEF Commit
  <2> QED BY <1>1, <1>3, <1>4, <2>1, <2>3, <2>5, <2>7, <2>8
<1> QED BY <1>5, <1>6
-----------------------------------------------------------------------------
(* What a transaction has read and decided when it begins.                 *)

\* While the group a transaction decided on is still right: a purchase lends
\* its plan's group, and a downgrade leaves no upgraded subscription active.
GroupTx(t) ==
    /\ \A p \in t.buys :
         IF UpgradeGroup[p] = "" THEN t.group = ""
         ELSE UpgradeGroup[p] = IF t.group = "" THEN group ELSE t.group
    /\ t.buys = {} /\ t.group # "" => ActiveUpgraded \subseteq t.ids

LimitTx(t) == \A p \in t.buys : ~LimitReached(p)

\* The upgraded subscriptions nobody has ended yet, whether or not they are due.
Live == {i \in DOMAIN subs : Upgraded(i) /\ subs[i].status = "active"}

NoOverlap == \A i \in DOMAIN subs : Upgraded(i) => subs[i].alone

\* For a user whose upgraded subscriptions never overlapped: each of them was
\* bought from the base group, at most one is live, its group is the user's (or,
\* once it is due, may have been taken back already), and none that has expired
\* ended after it.
LentInv ==
    NoOverlap =>
        /\ \A i \in DOMAIN subs : Upgraded(i) => subs[i].prev = BaseGroup
        /\ \A i, j \in Live : i = j
        /\ Live = {} => group = BaseGroup
        /\ \A j \in Live :
             group = subs[j].upgrade \/ (group = BaseGroup /\ subs[j].end <= now)
        /\ \A k \in DOMAIN subs : Upgraded(k) /\ subs[k].status = "expired" =>
             subs[k].end <= now /\ \A j \in Live : subs[k].end < subs[j].end

\* A transaction that ends the live subscription takes the group back, and one
\* that takes it back leaves none that is not due.
TakesBack(ids, g) ==
    \/ g = "" /\ (Live \cap ids # {} => group = BaseGroup)
    \/ g = BaseGroup /\ \A j \in Live \ ids : subs[j].end <= now

LentTx(t) ==
    NoOverlap =>
        /\ \A p \in t.buys : UpgradeGroup[p] # "" /\ Live = {} =>
             t.group = UpgradeGroup[p] /\ t.prev = BaseGroup
        /\ t.buys # {} => t.ids = {}
        /\ t.buys = {} => TakesBack(t.ids, t.group)
        /\ t.status = "expired" =>
             \A i \in DOMAIN subs : i \in t.ids => subs[i].end <= now

Begins(a, t) ==
    /\ t \in TxType /\ t.on /\ (t.buys = {} \/ \E p \in Plan : t.buys = {p})
    /\ CanBegin(a, t.order) /\ Begin(a, t)
    /\ t.order # NoOrder =>
         /\ a \in Worker /\ LockFree(a, t.order)
         /\ orders[t.order] = "pending"
         /\ t.to = "success" \/ (t.to = "expired" /\ t.buys = {})
         /\ t.to = "success" => t.buys # {}
    /\ LimitTx(t) /\ GroupTx(t) /\ (LentInv => LentTx(t))

LEMMA NoTxIsTx == NoTx \in TxType /\ "" \in Groups
BY DEF NoTx, TxType, OrderStatus, Groups

LEMMA PurchaseTx ==
    ASSUME TypeOK, NEW p \in Plan
    PROVE  LET t == CreateUserSubscription(p)
           IN  /\ t \in TxType /\ t.on /\ t.buys = {p} /\ t.order = NoOrder
               /\ GroupTx(t) /\ (LentInv => LentTx(t))
<1> DEFINE t == CreateUserSubscription(p)
           up == UpgradeGroup[p] # "" /\ group # UpgradeGroup[p]
           g == IF up THEN UpgradeGroup[p] ELSE ""
           h == IF up THEN group ELSE ""
<1>1. g \in Groups /\ h \in Groups
  BY NoTxIsTx DEF Groups, TypeOK
<1>2. t = [NoTx EXCEPT !.on = TRUE, !.buys = {p}, !.group = g, !.prev = h]
  BY DEF CreateUserSubscription
<1>3. /\ t \in TxType /\ t.on /\ t.buys = {p} /\ t.order = NoOrder /\ t.group = g
      /\ t.prev = h /\ t.ids = {}
  <2> HIDE DEF t, g, h
  <2>1. {p} \in SUBSET Plan
    OBVIOUS
  <2> QED BY <1>1, <1>2, <2>1, NoTxIsTx DEF TxType, NoTx
<1>4. GroupTx(t)
  BY <1>3 DEF GroupTx
<1>5. LentInv => LentTx(t)
  <2>1. UpgradeGroup[p] # BaseGroup
    BY ConstantsAssumption
  <2> HIDE DEF t
  <2> QED BY <1>3, <2>1 DEF LentInv, LentTx
<1> QED BY <1>3, <1>4, <1>5

LEMMA CompleteBegins ==
    ASSUME TypeOK, NEW w \in Worker, NEW o \in Order, CompleteSubscriptionOrder(w, o)
    PROVE  \E t : Begins(w, t)
<1> DEFINE c == CreateUserSubscription(PlanOf[o])
           t == [c EXCEPT !.order = o, !.to = "success"]
<1>1. PlanOf[o] \in Plan /\ o # NoOrder
  BY ConstantsAssumption
<1>2. /\ c \in TxType /\ c.on /\ c.buys = {PlanOf[o]} /\ GroupTx(c)
      /\ LentInv => LentTx(c)
  BY <1>1, PurchaseTx
<1>3. /\ t \in TxType /\ t.on /\ t.buys = {PlanOf[o]} /\ t.order = o /\ t.to = "success"
      /\ t.group = c.group /\ t.prev = c.prev /\ t.ids = c.ids /\ t.status = c.status
  BY <1>2 DEF TxType, OrderStatus
<1>4. GroupTx(t) /\ (LentInv => LentTx(t))
  <2> HIDE DEF c, t
  <2>1. GroupTx(t)
    BY <1>2, <1>3 DEF GroupTx
  <2>2. LentTx(c) => LentTx(t)
    BY <1>2, <1>3 DEF LentTx
  <2> QED BY <1>2, <2>1, <2>2
<1>5. Begins(w, t)
  BY <1>1, <1>3, <1>4 DEF Begins, CompleteSubscriptionOrder, LimitTx
<1> QED BY <1>5

LEMMA BindBegins ==
    ASSUME TypeOK, NEW w \in Worker, NEW p \in Plan, AdminBindSubscription(w, p)
    PROVE  \E t : Begins(w, t)
<1> DEFINE t == CreateUserSubscription(p)
<1>1. /\ t \in TxType /\ t.on /\ t.buys = {p} /\ t.order = NoOrder /\ GroupTx(t)
      /\ LentInv => LentTx(t)
  BY PurchaseTx
<1>2. Begins(w, t)
  BY <1>1 DEF Begins, AdminBindSubscription, LimitTx
<1> QED BY <1>2

LEMMA ExpireOrderBegins ==
    ASSUME TypeOK, NEW w \in Worker, NEW o \in Order, ExpireSubscriptionOrder(w, o)
    PROVE  \E t : Begins(w, t)
<1> DEFINE t == [NoTx EXCEPT !.on = TRUE, !.order = o, !.to = "expired"]
<1>1. /\ t \in TxType /\ t.on /\ t.buys = {} /\ t.order = o /\ t.to = "expired"
      /\ t.group = "" /\ t.ids = {}
  BY NoTxIsTx DEF TxType, NoTx, OrderStatus
<1>2. LimitTx(t) /\ GroupTx(t) /\ (LentInv => LentTx(t))
  <2> HIDE DEF t
  <2> QED BY <1>1 DEF LimitTx, GroupTx, LentTx, TakesBack
<1>3. Begins(w, t)
  BY <1>1, <1>2 DEF Begins, ExpireSubscriptionOrder
<1> QED BY <1>3

LEMMA IntervalGrows ==
    ASSUME NEW m \in Nat, NEW n \in Nat, m <= n
    PROVE  1..m \subseteq 1..n
OBVIOUS

\* A transaction that ends subscriptions and may take the group back.
LEMMA EndTx ==
    ASSUME TypeOK, NEW ids \in SUBSET DOMAIN subs, NEW g \in Groups,
           NEW st \in {"expired", "cancelled", "deleted"},
           g # "" => ActiveUpgraded \subseteq ids,
           LentInv /\ NoOverlap => TakesBack(ids, g),
           st = "expired" => \A i \in ids : subs[i].end <= now,
           NEW a \in Actor, CanBegin(a, NoOrder),
           Begin(a, [NoTx EXCEPT !.on = TRUE, !.ids = ids, !.status = st, !.group = g])
    PROVE  \E t : Begins(a, t)
<1> DEFINE t == [NoTx EXCEPT !.on = TRUE, !.ids = ids, !.status = st, !.group = g]
<1>1. ids \in SUBSET (1..MaxSubs)
  <2>1. DOMAIN subs = 1..Len(subs)
    BY LenProperties DEF TypeOK
  <2>2. Len(subs) \in Nat /\ Len(subs) <= MaxSubs /\ MaxSubs \in Nat
    BY LenProperties, ConstantsAssumption DEF TypeOK
  <2>3. 1..Len(subs) \subseteq 1..MaxSubs
    BY <2>2, IntervalGrows
  <2> QED BY <2>1, <2>3
<1>2. /\ t \in TxType /\ t.on /\ t.buys = {} /\ t.order = NoOrder
      /\ t.group = g /\ t.ids = ids /\ t.status = st
  BY <1>1, NoTxIsTx DEF TxType, NoTx
<1>3. LimitTx(t) /\ GroupTx(t) /\ (LentInv => LentTx(t))
  <2> HIDE DEF t
  <2> QED BY <1>2 DEF LimitTx, GroupTx, LentTx
<1>4. Begins(a, t)
  BY <1>2, <1>3 DEF Begins
<1> QED BY <1>4

LEMMA RowTypes ==
    ASSUME TypeOK, NEW i \in DOMAIN subs
    PROVE  subs[i] \in SubType /\ subs[i].end \in Nat /\ i \in Nat /\ i <= i
<1>1. subs \in Seq(SubType) /\ DOMAIN subs = 1..Len(subs) /\ Len(subs) \in Nat
  BY LenProperties DEF TypeOK
<1>2. subs[i] \in SubType
  BY <1>1, ElementOfSeq
<1>3. i \in Nat
  BY <1>1
<1> QED BY <1>2, <1>3 DEF SubType

LEMMA NotActiveIsDue ==
    ASSUME TypeOK, NEW j \in Live, j \notin ActiveUpgraded
    PROVE  subs[j].end <= now
<1>1. j \in DOMAIN subs /\ ~(subs[j].end > now)
  BY DEF Live, ActiveUpgraded
<1>2. subs[j] \in SubType
  BY <1>1, LenProperties, ElementOfSeq DEF TypeOK
<1>3. subs[j].end \in Nat /\ now \in Nat
  BY <1>2, ClockIsNat DEF SubType
<1> QED BY <1>1, <1>3

LEMMA ActiveIsNotDue ==
    ASSUME TypeOK, NEW i \in ActiveUpgraded
    PROVE  ~(subs[i].end <= now)
<1>1. i \in DOMAIN subs /\ subs[i].end > now
  BY DEF ActiveUpgraded
<1> QED BY <1>1, RowTypes, ClockIsNat

LEMMA DowngradeIsGroup ==
    ASSUME TypeOK, NEW i \in DOMAIN subs
    PROVE  /\ DowngradeGroup(i) \in Groups
           /\ DowngradeGroup(i) # "" => ActiveUpgraded \subseteq {i}
           /\ LentInv /\ NoOverlap => TakesBack({i}, DowngradeGroup(i))
<1>1. \A j \in DOMAIN subs : subs[j] \in SubType
  BY LenProperties, ElementOfSeq DEF TypeOK
<1>2. subs[i].prev \in Groups
  BY <1>1 DEF SubType
<1>3. ASSUME LentInv, NoOverlap PROVE TakesBack({i}, DowngradeGroup(i))
  <2>1. CASE DowngradeGroup(i) # ""
    <3>1. Upgraded(i) /\ DowngradeGroup(i) = subs[i].prev /\ ActiveUpgraded \ {i} = {}
      BY <2>1 DEF DowngradeGroup
    <3>2. DowngradeGroup(i) = BaseGroup
      BY <1>3, <3>1 DEF LentInv
    <3>3. \A j \in Live \ {i} : subs[j].end <= now
      BY <3>1, NotActiveIsDue
    <3> QED BY <3>2, <3>3 DEF TakesBack
  <2>2. CASE DowngradeGroup(i) = ""
    <3>1. ASSUME i \in Live, group # BaseGroup PROVE FALSE
      <4>1. Upgraded(i) /\ group = subs[i].upgrade /\ subs[i].prev = BaseGroup
        BY <1>3, <3>1 DEF LentInv, Live
      <4>2. ActiveUpgraded \ {i} = {}
        BY <1>3, <3>1 DEF LentInv, Live, ActiveUpgraded
      <4>3. DowngradeGroup(i) = BaseGroup
        BY <3>1, <4>1, <4>2 DEF DowngradeGroup
      <4> QED BY <2>2, <4>3, ConstantsAssumption
    <3> QED BY <2>2, <3>1 DEF TakesBack
  <2> QED BY <2>1, <2>2
<1> QED BY <1>2, <1>3, NoTxIsTx DEF DowngradeGroup

LEMMA AdminEndBegins ==
    ASSUME TypeOK, NEW w \in Worker, NEW i \in DOMAIN subs,
           AdminInvalidateUserSubscription(w, i) \/ AdminDeleteUserSubscription(w, i)
    PROVE  \E t : Begins(w, t)
<1>1. w \in Actor
  BY DEF Actor
<1>2. CASE AdminInvalidateUserSubscription(w, i)
  BY <1>1, <1>2, DowngradeIsGroup, EndTx DEF AdminInvalidateUserSubscription
<1>3. CASE AdminDeleteUserSubscription(w, i)
  BY <1>1, <1>3, DowngradeIsGroup, EndTx DEF AdminDeleteUserSubscription
<1> QED BY <1>2, <1>3

LEMMA ExpireDueBegins ==
    ASSUME TypeOK, ExpireDueSubscriptions
    PROVE  \E t : Begins(Task, t)
<1> DEFINE back == {subs[i].prev : i \in {j \in LastExpired :
                      group = subs[j].upgrade /\ group # subs[j].prev}}
<1>1. back \subseteq Groups
  <2>1. SUFFICES ASSUME NEW i \in LastExpired
                 PROVE  subs[i].prev \in Groups
    OBVIOUS
  <2>2. i \in DOMAIN subs
    BY DEF LastExpired, Due
  <2>3. subs[i] \in SubType
    BY <2>2, LenProperties, ElementOfSeq DEF TypeOK
  <2> QED BY <2>3 DEF SubType
<1>2. PICK g \in IF ActiveUpgraded = {} /\ back # {} THEN back ELSE {""} :
        Begin(Task, [NoTx EXCEPT !.on = TRUE, !.ids = Due, !.status = "expired",
                                 !.group = g])
  BY DEF ExpireDueSubscriptions
<1>3. g \in Groups /\ (g # "" => ActiveUpgraded \subseteq Due)
  BY <1>1, NoTxIsTx
<1>4. Due \in SUBSET DOMAIN subs /\ Task \in Actor /\ CanBegin(Task, NoOrder)
  BY DEF Due, Actor, ExpireDueSubscriptions
<1>5. \A i \in Due : subs[i].end <= now
  BY DEF Due
<1>6. ASSUME LentInv, NoOverlap PROVE TakesBack(Due, g)
  <2>1. CASE ActiveUpgraded = {} /\ back # {}
    <3>1. PICK i \in LastExpired : g = subs[i].prev
      BY <2>1
    <3>2. i \in DOMAIN subs /\ Upgraded(i)
      BY DEF LastExpired
    <3>3. g = BaseGroup
      BY <1>6, <3>1, <3>2 DEF LentInv
    <3> QED BY <2>1, <3>3, NotActiveIsDue DEF TakesBack
  <2>2. CASE ~(ActiveUpgraded = {} /\ back # {})
    <3>1. g = ""
      BY <2>2
    <3>2. ASSUME NEW j \in Live \cap Due, group # BaseGroup PROVE FALSE
      <4>1. /\ j \in DOMAIN subs /\ Upgraded(j) /\ subs[j].prev = BaseGroup
            /\ group = subs[j].upgrade /\ \A i \in Live : i = j
        BY <1>6, <3>2 DEF LentInv, Live
      <4>2. ActiveUpgraded = {}
        <5> SUFFICES ASSUME NEW i \in ActiveUpgraded PROVE FALSE
          OBVIOUS
        <5>1. i \in Live
          BY DEF ActiveUpgraded, Live
        <5>2. subs[i].end <= now
          BY <1>5, <3>2, <4>1, <5>1, Zenon
        <5> QED BY <5>2, ActiveIsNotDue, Zenon
      <4>3. j \in LastExpired
        <5>1. ASSUME NEW k \in DOMAIN subs, Upgraded(k), subs[k].status = "expired" \/ k \in Due
              PROVE  subs[k].end < subs[j].end \/ k = j
          <6>1. CASE subs[k].status = "expired"
            BY <1>6, <3>2, <5>1, <6>1 DEF LentInv
          <6>2. CASE k \in Due
            BY <4>1, <5>1, <6>2 DEF Due, Live
          <6> QED BY <5>1, <6>1, <6>2
        <5>2. j \in Nat /\ j <= j
          BY <4>1, RowTypes
        <5> QED BY <3>2, <4>1, <5>1, <5>2 DEF LastExpired
      <4>4. subs[j].prev \in back
        BY <3>2, <4>1, <4>3
      <4> QED BY <2>2, <4>2, <4>4
    <3> QED BY <3>1, <3>2 DEF TakesBack
  <2> QED BY <2>1, <2>2
<1> HIDE DEF back
<1> QED BY <1>2, <1>3, <1>4, <1>5, <1>6, EndTx

\* A commit ends its transaction, and on SQLite every other one with it.
LEMMA AfterCommitTxs ==
    ASSUME NEW a \in Actor, Commit(a)
    PROVE  /\ DOMAIN tx' = Actor /\ ~tx'[a].on
           /\ \A b \in Actor : tx'[b] = NoTx \/ tx'[b] = tx[b]
           /\ \A b \in Actor : tx'[b].on => b # a /\ tx'[b] = tx[b] /\ Isolation # "serial"
<1> QED BY DEF Commit, AfterCommit, NoTx

\* Every step is an order request, the start or the end of a transaction, or
\* the passing of time.
LEMMA Steps ==
    ASSUME TypeOK, [Next]_vars
    PROVE  \/ \E o \in Order : RequestOrder(o)
           \/ \E a \in Actor : \E t : Begins(a, t)
           \/ \E a \in Actor : Commit(a)
           \/ \E a \in Actor : Rollback(a)
           \/ Tick
           \/ UNCHANGED vars
<1>1. Worker \subseteq Actor /\ Task \in Actor
  BY DEF Actor
<1>2. CASE \E w \in Worker, o \in Order : CompleteSubscriptionOrder(w, o)
  BY <1>1, <1>2, CompleteBegins
<1>3. CASE \E w \in Worker, o \in Order : ExpireSubscriptionOrder(w, o)
  BY <1>1, <1>3, ExpireOrderBegins
<1>4. CASE \E w \in Worker, p \in Plan : AdminBindSubscription(w, p)
  BY <1>1, <1>4, BindBegins
<1>5. CASE \E w \in Worker, i \in DOMAIN subs :
             AdminInvalidateUserSubscription(w, i) \/ AdminDeleteUserSubscription(w, i)
  BY <1>1, <1>5, AdminEndBegins
<1>6. CASE ExpireDueSubscriptions
  BY <1>1, <1>6, ExpireDueBegins
<1> QED BY <1>2, <1>3, <1>4, <1>5, <1>6 DEF Next
-----------------------------------------------------------------------------
(* Type correctness.                                                       *)

LEMMA TypeInit == Init => TypeInv
<1>1. ASSUME Init PROVE TypeOK
  <2>1. BaseGroup \in Groups \ {""}
    BY ConstantsAssumption DEF Groups
  <2>2. 0 \in 0..MaxTime /\ 0 <= MaxSubs
    <3>1. MaxTime \in Nat /\ MaxSubs \in Nat
      BY ConstantsAssumption
    <3> QED BY <3>1
  <2>3. subs \in Seq(SubType) /\ Len(subs) = 0
    BY <1>1, EmptySeq DEF Init
  <2> QED BY <1>1, <2>1, <2>2, <2>3, NoTxIsTx DEF Init, TypeOK, OrderStatus
<1>2. ASSUME Init PROVE OneBuy
  BY <1>2 DEF Init, OneBuy, NoTx
<1> QED BY <1>1, <1>2 DEF TypeInv

LEMMA TypeStep ==
    ASSUME TypeInv, [Next]_vars
    PROVE  TypeInv'
<1> USE DEF TypeInv
<1>1. CASE \E o \in Order : RequestOrder(o)
  BY <1>1 DEF RequestOrder, TypeOK, OneBuy, OrderStatus
<1>2. CASE \E a \in Actor : \E t : Begins(a, t)
  BY <1>2 DEF Begins, Begin, TypeOK, OneBuy
<1>3. ASSUME NEW a \in Actor, Commit(a)
      PROVE  TypeInv'
  <2>1. subs' \in Seq(SubType) /\ Len(subs') <= MaxSubs /\ tx[a] \in TxType
    BY <1>3, CommitRows
  <2>2. group' \in Groups \ {""}
    BY <1>3, <2>1 DEF Commit, TypeOK, TxType
  <2>3. orders' \in [Order -> OrderStatus]
    BY <1>3, <2>1 DEF Commit, TypeOK, TxType
  <2>4. tx' \in [Actor -> TxType] /\ OneBuy'
    <3>1. NoTx.buys = {}
      BY DEF NoTx
    <3>2. DOMAIN tx' = Actor /\ \A b \in Actor : tx'[b] = NoTx \/ tx'[b] = tx[b]
      BY <1>3, AfterCommitTxs
    <3>3. tx' = [b \in Actor |-> tx'[b]]
      BY <1>3 DEF Commit, AfterCommit
    <3> QED BY <3>1, <3>2, <3>3, NoTxIsTx DEF TypeOK, OneBuy
  <2>5. now' \in 0..MaxTime
    BY <1>3 DEF Commit, TypeOK
  <2> QED BY <2>1, <2>2, <2>3, <2>4, <2>5 DEF TypeOK
<1>4. ASSUME NEW a \in Actor, Rollback(a)
      PROVE  TypeInv'
  <2>1. NoTx.buys = {}
    BY DEF NoTx
  <2> QED BY <1>4, <2>1, NoTxIsTx DEF Rollback, TypeOK, OneBuy
<1>5. CASE Tick
  <2>1. now' \in 0..MaxTime
    <3>1. MaxTime \in Nat /\ now \in Nat
      BY ClockIsNat, ConstantsAssumption
    <3> QED BY <1>5, <3>1 DEF Tick
  <2> QED BY <1>5, <2>1 DEF Tick, TypeOK, OneBuy
<1>6. CASE UNCHANGED vars
  BY <1>6 DEF vars, TypeOK, OneBuy
<1> QED BY <1>1, <1>2, <1>3, <1>4, <1>5, <1>6, Steps

-----------------------------------------------------------------------------
(* Orders.                                                                 *)

LEMMA OrderInit == Init => OrderInv
<1> SUFFICES ASSUME Init PROVE OrderInv
  OBVIOUS
<1>1. DOMAIN subs = {}
  BY EmptySeq, LenProperties DEF Init
<1>2. \A a \in Actor : ~tx[a].on
  BY DEF Init, NoTx
<1> QED BY <1>1, <1>2 DEF OrderInv, OrderTx, Init, SuccessMeansSubscription,
                          OrderFulfilledOnce

\* A new transaction finds no other one at work on its order.
LEMMA OrderBegins ==
    ASSUME Protected, TypeInv, OrderInv, NEW a \in Actor, NEW t, Begins(a, t)
    PROVE  OrderInv'
<1>1. ~tx[a].on /\ tx' = [tx EXCEPT ![a] = t] /\ orders' = orders /\ subs' = subs
  BY DEF Begins, Begin, CanBegin
<1>2. tx \in [Actor -> TxType]
  BY DEF TypeInv, TypeOK
<1>3. Isolation # "serial" /\ t.order # NoOrder =>
        \A b \in Actor : tx[b].on => tx[b].order # t.order
  <2>1. SUFFICES ASSUME Isolation # "serial", t.order # NoOrder, NEW b \in Actor, tx[b].on,
                        tx[b].order = t.order
                 PROVE  FALSE
    OBVIOUS
  <2>2. b \in Worker /\ a \in Worker
    BY <2>1 DEF OrderInv, OrderTx, Begins
  <2>3. NodeOf[b] # NodeOf[a]
    BY <2>1, <2>2 DEF Begins, LockFree
  <2>4. Isolation \in {"serial", "rowLocks"}
    BY <2>2, <2>3 DEF Protected
  <2>5. Isolation = "rowLocks"
    BY <2>1, <2>4
  <2> QED BY <2>1, <2>5 DEF Begins, CanBegin
<1>4. ASSUME NEW b \in Actor PROVE OrderTx(b)'
  <2>1. CASE b = a
    BY <1>1, <1>2, <1>3, <2>1 DEF OrderTx, Begins
  <2>2. CASE b # a
    <3>1. OrderTx(b) /\ tx'[b] = tx[b]
      BY <1>1, <1>2, <2>2 DEF OrderInv
    <3>2. \A c \in Actor \ {a} : tx'[c] = tx[c]
      BY <1>1, <1>2
    <3>3. tx'[a] = t
      BY <1>1, <1>2
    <3> QED BY <1>1, <1>3, <3>1, <3>2, <3>3 DEF OrderTx
  <2> QED BY <2>1, <2>2
<1>5. SuccessMeansSubscription' /\ OrderFulfilledOnce'
  BY <1>1 DEF OrderInv, SuccessMeansSubscription, OrderFulfilledOnce
<1> QED BY <1>4, <1>5 DEF OrderInv

\* A commit closes its order, and has created the subscription of a paid one.
LEMMA OrderCommits ==
    ASSUME TypeInv, OrderInv, NEW a \in Actor, Commit(a)
    PROVE  /\ OrderInv'
           /\ \A o \in Order : orders[o] \in {"success", "expired"} => orders'[o] = orders[o]
<1> DEFINE t == tx[a]
<1>0. OrderTx(a) /\ t.on /\ t \in TxType
  BY CommitRows DEF OrderInv, Commit
<1>1. /\ tx \in [Actor -> TxType]
      /\ orders' = [o \in Order |-> IF o = t.order THEN t.to ELSE orders[o]]
  BY DEF Commit, TypeInv, TypeOK
<1>2. ASSUME NEW b \in Actor PROVE OrderTx(b)'
  <2>1. SUFFICES ASSUME tx'[b].on PROVE OrderTx(b)'
    BY DEF OrderTx
  <2>2. b # a /\ tx'[b] = tx[b] /\ Isolation # "serial" /\ OrderTx(b)
    BY <2>1, AfterCommitTxs DEF OrderInv
  <2>3. \A c \in Actor : tx'[c].on => tx'[c] = tx[c]
    BY AfterCommitTxs
  <2>4. tx[b].on /\ tx[b].order # NoOrder => tx[b].order # t.order
    BY <1>0, <2>2 DEF OrderTx
  <2>5. tx[b].order # NoOrder => tx[b].order \in Order
    BY <1>1 DEF TxType
  <2> QED BY <1>1, <2>1, <2>2, <2>3, <2>4, <2>5 DEF OrderTx
<1>3. \A i \in DOMAIN subs : i \in DOMAIN subs' /\ subs'[i].order = subs[i].order
  <2>1. \A i \in DOMAIN subs : subs'[i].order = subs[i].order
    BY <1>0, CommitRows, WrittenKeeps DEF TypeInv
  <2>2. DOMAIN subs \subseteq DOMAIN subs'
    BY CommitRows
  <2> QED BY <2>1, <2>2
<1>4. ASSUME t.buys = {}
      PROVE  SuccessMeansSubscription' /\ OrderFulfilledOnce'
  <2>1. DOMAIN subs' = DOMAIN subs
    BY <1>4, CommitRows
  <2>2. OrderFulfilledOnce'
    BY <1>3, <2>1 DEF OrderInv, OrderFulfilledOnce
  <2>3. ASSUME NEW o \in Order
        PROVE  (orders'[o] = "success") <=> (orders[o] = "success")
    <3>1. o # NoOrder
      BY ConstantsAssumption
    <3> QED BY <1>0, <1>1, <1>4, <3>1 DEF OrderTx
  <2>4. SuccessMeansSubscription'
    BY <1>3, <2>1, <2>3 DEF OrderInv, SuccessMeansSubscription
  <2> QED BY <2>2, <2>4
<1>5. ASSUME t.buys # {}
      PROVE  SuccessMeansSubscription' /\ OrderFulfilledOnce'
  <2> DEFINE n == Len(subs) + 1
  <2>1. DOMAIN subs' = DOMAIN subs \cup {n} /\ n \notin DOMAIN subs /\ subs'[n].order = t.order
    <3>1. PICK p \in Plan :
            /\ DOMAIN subs' = DOMAIN subs \cup {n} /\ n \notin DOMAIN subs
            /\ subs'[n] = NewRow(p, t)
      BY <1>5, CommitRows
    <3>2. NewRow(p, t).order = t.order
      BY DEF NewRow
    <3> QED BY <3>1, <3>2
  <2> HIDE DEF n
  <2>2. t.order # NoOrder => t.order \in Order /\ t.to = "success" /\ orders[t.order] = "pending"
    BY <1>0, <1>5 DEF OrderTx, TxType
  <2>3. t.order # NoOrder => \A i \in DOMAIN subs : subs[i].order # t.order
    BY <2>2 DEF OrderInv, SuccessMeansSubscription
  <2>4. OrderFulfilledOnce'
    BY <1>3, <2>1, <2>3 DEF OrderInv, OrderFulfilledOnce
  <2>5. ASSUME NEW o \in Order
        PROVE  (orders'[o] = "success") <=> (\E i \in DOMAIN subs' : subs'[i].order = o)
    <3>1. o # NoOrder
      BY ConstantsAssumption
    <3>2. orders[o] = "success" <=> \E i \in DOMAIN subs : subs[i].order = o
      BY DEF OrderInv, SuccessMeansSubscription
    <3>3. CASE o = t.order
      BY <1>1, <2>1, <2>2, <3>1, <3>3
    <3>4. CASE o # t.order
      BY <1>1, <1>3, <2>1, <3>2, <3>4
    <3> QED BY <3>3, <3>4
  <2> QED BY <2>4, <2>5 DEF SuccessMeansSubscription
<1>6. ASSUME NEW o \in Order, orders[o] \in {"success", "expired"}
      PROVE  orders'[o] = orders[o]
  <2>1. o # NoOrder
    BY ConstantsAssumption
  <2> QED BY <1>0, <1>1, <1>6, <2>1 DEF OrderTx
<1> QED BY <1>2, <1>4, <1>5, <1>6 DEF OrderInv

LEMMA OrderStep ==
    ASSUME Protected, TypeInv, OrderInv, [Next]_vars
    PROVE  OrderInv'
<1>1. ASSUME NEW o \in Order, RequestOrder(o)
      PROVE  OrderInv'
  <2>1. /\ orders[o] = "none" /\ subs' = subs /\ tx' = tx
        /\ orders' = [orders EXCEPT ![o] = "pending"] /\ orders \in [Order -> OrderStatus]
    BY <1>1 DEF RequestOrder, TypeInv, TypeOK
  <2>2. \A a \in Actor : tx[a].order # NoOrder => tx[a].order \in Order
    BY DEF TypeInv, TypeOK, TxType
  <2>3. \A a \in Actor : OrderTx(a)'
    BY <2>1, <2>2 DEF OrderInv, OrderTx
  <2>4. \A x \in Order : (orders'[x] = "success") <=> (orders[x] = "success")
    BY <2>1
  <2>5. SuccessMeansSubscription' /\ OrderFulfilledOnce'
    BY <2>1, <2>4 DEF OrderInv, SuccessMeansSubscription, OrderFulfilledOnce
  <2> QED BY <2>3, <2>5 DEF OrderInv
<1>2. CASE \E a \in Actor : \E t : Begins(a, t)
  BY <1>2, OrderBegins
<1>3. CASE \E a \in Actor : Commit(a)
  BY <1>3, OrderCommits
<1>4. ASSUME NEW a \in Actor, Rollback(a)
      PROVE  OrderInv'
  <2>1. /\ tx' = [tx EXCEPT ![a] = NoTx] /\ tx \in [Actor -> TxType] /\ ~NoTx.on
        /\ orders' = orders /\ subs' = subs
    BY <1>4 DEF Rollback, TypeInv, TypeOK, NoTx
  <2>2. \A b \in Actor : tx'[b].on => tx'[b] = tx[b]
    BY <2>1
  <2>3. \A b \in Actor : OrderTx(b)'
    BY <2>1, <2>2 DEF OrderInv, OrderTx
  <2> QED BY <2>1, <2>3 DEF OrderInv, SuccessMeansSubscription, OrderFulfilledOnce
<1>5. CASE Tick
  BY <1>5 DEF Tick, OrderInv, OrderTx, SuccessMeansSubscription, OrderFulfilledOnce
<1>6. CASE UNCHANGED vars
  BY <1>6 DEF vars, OrderInv, OrderTx, SuccessMeansSubscription, OrderFulfilledOnce
<1> QED BY <1>1, <1>2, <1>3, <1>4, <1>5, <1>6, Steps DEF TypeInv
-----------------------------------------------------------------------------
(* The limit and the group, on a database that serialises transactions.    *)

\* What a transaction has read still holds.
SerialTx(a) == tx[a].on => LimitTx(tx[a]) /\ GroupTx(tx[a])

SerialInv ==
    /\ \A a \in Actor : SerialTx(a)
    /\ PurchaseLimit /\ ActiveKeepsUpgrade

LEMMA OfPlanFinite ==
    ASSUME TypeOK, NEW p
    PROVE  IsFiniteSet(OfPlan(p)) /\ Cardinality(OfPlan(p)) \in Nat
<1>1. DOMAIN subs = 1..Len(subs) /\ Len(subs) \in Nat
  BY LenProperties DEF TypeOK
<1>2. IsFiniteSet(DOMAIN subs)
  BY <1>1, FS_Interval
<1>3. OfPlan(p) \in SUBSET DOMAIN subs
  BY DEF OfPlan
<1> QED BY <1>2, <1>3, FS_Subset, FS_CardinalityType

LEMMA SerialInit == Init => SerialInv
<1> SUFFICES ASSUME Init PROVE SerialInv
  OBVIOUS
<1>1. DOMAIN subs = {}
  BY EmptySeq, LenProperties DEF Init
<1>2. \A a \in Actor : ~tx[a].on
  BY DEF Init, NoTx
<1>3. \A p \in Plan : Cardinality(OfPlan(p)) = 0 /\ MaxPurchase[p] \in Nat
  <2>1. \A p \in Plan : OfPlan(p) = {}
    BY <1>1 DEF OfPlan
  <2> QED BY <2>1, FS_EmptySet, ConstantsAssumption
<1>4. PurchaseLimit
  BY <1>3 DEF PurchaseLimit
<1>5. ActiveKeepsUpgrade
  BY <1>1 DEF ActiveKeepsUpgrade, ActiveUpgraded
<1> QED BY <1>2, <1>4, <1>5 DEF SerialInv, SerialTx

\* The rows that count for the limit after a commit.
LEMMA CommitKeepsLimit ==
    ASSUME TypeInv, TypeInv', SerialInv, NEW a \in Actor, Commit(a)
    PROVE  PurchaseLimit'
<1> DEFINE t == tx[a]
           n == Len(subs) + 1
<1>1. SUFFICES ASSUME NEW p \in Plan, MaxPurchase[p] > 0
               PROVE  Cardinality(OfPlan(p)') <= MaxPurchase[p]
  BY DEF PurchaseLimit
<1>2. t \in TxType /\ LimitTx(t)
  BY CommitRows DEF SerialInv, SerialTx, Commit
<1>3. /\ IsFiniteSet(OfPlan(p)) /\ Cardinality(OfPlan(p)) \in Nat
      /\ IsFiniteSet(OfPlan(p)') /\ Cardinality(OfPlan(p)') \in Nat
      /\ MaxPurchase[p] \in Nat
  <2>1. IsFiniteSet(OfPlan(p)) /\ Cardinality(OfPlan(p)) \in Nat
    BY OfPlanFinite DEF TypeInv
  <2>2. IsFiniteSet(OfPlan(p)') /\ Cardinality(OfPlan(p)') \in Nat
    <3>1. DOMAIN subs' = 1..Len(subs') /\ Len(subs') \in Nat
      BY LenProperties DEF TypeInv, TypeOK
    <3>2. IsFiniteSet(DOMAIN subs')
      BY <3>1, FS_Interval
    <3>3. OfPlan(p)' \in SUBSET DOMAIN subs'
      BY DEF OfPlan
    <3> QED BY <3>2, <3>3, FS_Subset, FS_CardinalityType
  <2> QED BY <2>1, <2>2, ConstantsAssumption
<1>4. Cardinality(OfPlan(p)) <= MaxPurchase[p]
  BY <1>1 DEF SerialInv, PurchaseLimit
<1>5. \A i \in DOMAIN subs : i \in OfPlan(p)' => i \in OfPlan(p)
  <2>1. \A i \in DOMAIN subs : /\ subs'[i].plan = subs[i].plan
                               /\ subs[i].status = "deleted" => subs'[i].status = "deleted"
    BY <1>2, CommitRows, WrittenKeeps DEF TypeInv
  <2> QED BY <2>1 DEF OfPlan
<1>6. CASE p \in t.buys
  <2>1. Cardinality(OfPlan(p)) < MaxPurchase[p]
    <3>1. ~LimitReached(p)
      BY <1>2, <1>6 DEF LimitTx
    <3> QED BY <1>1, <1>3, <3>1 DEF LimitReached
  <2>2. DOMAIN subs' = DOMAIN subs \cup {n}
    BY <1>6, CommitRows
  <2>3. OfPlan(p)' \in SUBSET (OfPlan(p) \cup {n})
    <3> HIDE DEF n
    <3>1. OfPlan(p)' \subseteq DOMAIN subs'
      BY DEF OfPlan
    <3> QED BY <1>5, <2>2, <3>1
  <2>4. /\ IsFiniteSet(OfPlan(p) \cup {n})
        /\ \/ Cardinality(OfPlan(p) \cup {n}) = Cardinality(OfPlan(p)) + 1
           \/ Cardinality(OfPlan(p) \cup {n}) = Cardinality(OfPlan(p))
    BY <1>3, FS_AddElement
  <2>5. Cardinality(OfPlan(p)') <= Cardinality(OfPlan(p) \cup {n})
    BY <2>3, <2>4, FS_Subset
  <2> QED BY <1>3, <2>1, <2>4, <2>5
<1>7. CASE p \notin t.buys
  <2>1. OfPlan(p)' \in SUBSET OfPlan(p)
    <3>1. CASE t.buys = {}
      <4>1. DOMAIN subs' = DOMAIN subs
        BY <3>1, CommitRows
      <4> QED BY <1>5, <4>1 DEF OfPlan
    <3>2. CASE t.buys # {}
      <4>1. PICK q \in Plan : /\ t.buys = {q} /\ DOMAIN subs' = DOMAIN subs \cup {n}
                              /\ subs'[n] = NewRow(q, t)
        BY <3>2, CommitRows
      <4>2. subs'[n].plan # p
        <5>1. NewRow(q, t).plan = q
          BY DEF NewRow
        <5> QED BY <1>7, <4>1, <5>1
      <4>3. n \notin OfPlan(p)'
        BY <4>2 DEF OfPlan
      <4>4. OfPlan(p)' \subseteq DOMAIN subs'
        BY DEF OfPlan
      <4> HIDE DEF n
      <4> QED BY <1>5, <4>1, <4>3, <4>4
    <3> QED BY <3>1, <3>2
  <2>2. Cardinality(OfPlan(p)') <= Cardinality(OfPlan(p))
    BY <1>3, <2>1, FS_Subset
  <2> QED BY <1>3, <1>4, <2>2
<1> QED BY <1>6, <1>7

LEMMA StillActive ==
    ASSUME TypeOK, NEW t \in TxType, NEW j \in DOMAIN subs,
           Written(j, t).status = "active", Written(j, t).end > now,
           Written(j, t).upgrade # ""
    PROVE  j \in ActiveUpgraded /\ j \notin t.ids
<1>1. /\ subs[j].status = "active" /\ j \notin t.ids
      /\ subs[j].end = Written(j, t).end /\ subs[j].upgrade = Written(j, t).upgrade
  BY WrittenKeeps
<1> QED BY <1>1 DEF ActiveUpgraded, Upgraded

\* What is active and upgraded after a commit was so before, and is not among
\* the subscriptions ended, or has just been bought.
LEMMA CommitKeepsUpgrade ==
    ASSUME TypeInv, SerialInv, NEW a \in Actor, Commit(a)
    PROVE  ActiveKeepsUpgrade'
<1> DEFINE t == tx[a]
           n == Len(subs) + 1
<1>1. SUFFICES ASSUME NEW j \in ActiveUpgraded' PROVE group' # BaseGroup
  BY DEF ActiveKeepsUpgrade
<1>2. t \in TxType /\ GroupTx(t)
  BY CommitRows DEF SerialInv, SerialTx, Commit
<1>3. /\ j \in DOMAIN subs' /\ subs'[j].status = "active" /\ subs'[j].end > now
      /\ subs'[j].upgrade # ""
  BY DEF ActiveUpgraded, Upgraded, Commit
<1>4. group' = IF t.group = "" THEN group ELSE t.group
  BY DEF Commit
<1>5. CASE j \in DOMAIN subs /\ t.buys = {}
  <2>1. j \in ActiveUpgraded /\ j \notin t.ids
    <3>1. subs'[j] = Written(j, t)
      BY <1>5, CommitRows
    <3> QED BY <1>2, <1>3, <1>5, <3>1, StillActive DEF TypeInv
  <2>2. t.group = ""
    BY <1>2, <1>5, <2>1 DEF GroupTx
  <2> QED BY <1>4, <2>1, <2>2 DEF SerialInv, ActiveKeepsUpgrade
<1>6. CASE t.buys # {}
  <2>1. PICK p \in Plan : t.buys = {p} /\ subs'[n] = NewRow(p, t)
                          /\ DOMAIN subs' = DOMAIN subs \cup {n}
    BY <1>6, CommitRows
  <2>2. UpgradeGroup[p] # BaseGroup
    BY ConstantsAssumption
  <2>3. CASE UpgradeGroup[p] # ""
    BY <1>2, <1>4, <2>1, <2>2, <2>3 DEF GroupTx
  <2>4. CASE UpgradeGroup[p] = ""
    <3>1. t.group = ""
      BY <1>2, <2>1, <2>4 DEF GroupTx
    <3>2. j # n
      <4>1. NewRow(p, t).upgrade = ""
        BY <2>4 DEF NewRow
      <4> QED BY <1>3, <2>1, <4>1
    <3>3. j \in DOMAIN subs
      BY <1>3, <2>1, <3>2
    <3>4. subs'[j] = Written(j, t)
      BY <3>3, CommitRows
    <3>5. j \in ActiveUpgraded
      BY <1>2, <1>3, <3>3, <3>4, StillActive DEF TypeInv
    <3> QED BY <1>4, <3>1, <3>5 DEF SerialInv, ActiveKeepsUpgrade
  <2> QED BY <2>3, <2>4
<1>7. t.buys = {} => j \in DOMAIN subs
  BY <1>3, CommitRows
<1> QED BY <1>5, <1>6, <1>7

LEMMA SerialStep ==
    ASSUME Isolation = "serial", TypeInv, SerialInv, [Next]_vars
    PROVE  SerialInv'
<1> USE DEF TypeInv
<1>0. tx \in [Actor -> TxType]
  BY DEF TypeOK
<1>1. ASSUME UNCHANGED <<now, group, subs, tx>>
      PROVE  SerialInv'
  <2>1. ActiveUpgraded' = ActiveUpgraded
    BY <1>1 DEF ActiveUpgraded, Upgraded
  <2>2. \A p : OfPlan(p)' = OfPlan(p)
    BY <1>1 DEF OfPlan
  <2>3. PurchaseLimit'
    BY <2>2 DEF SerialInv, PurchaseLimit
  <2>4. ActiveKeepsUpgrade'
    BY <1>1, <2>1 DEF SerialInv, ActiveKeepsUpgrade
  <2>5. ASSUME NEW a \in Actor PROVE SerialTx(a)'
    <3>1. SerialTx(a)
      BY DEF SerialInv
    <3>2. LimitTx(tx[a])' <=> LimitTx(tx[a])
      BY <1>1, <2>2 DEF LimitTx, LimitReached
    <3>3. GroupTx(tx[a])' <=> GroupTx(tx[a])
      BY <1>1, <2>1 DEF GroupTx
    <3> QED BY <1>1, <3>1, <3>2, <3>3 DEF SerialTx
  <2> QED BY <2>3, <2>4, <2>5 DEF SerialInv
<1>2. ASSUME NEW a \in Actor, NEW t, Begins(a, t)
      PROVE  SerialInv'
  <2>1. tx' = [tx EXCEPT ![a] = t] /\ UNCHANGED <<now, group, subs>>
    BY <1>2 DEF Begins, Begin
  <2>2. LimitTx(t) /\ GroupTx(t)
    BY <1>2 DEF Begins
  <2>3. PurchaseLimit' /\ ActiveKeepsUpgrade'
    BY <2>1 DEF OfPlan, ActiveUpgraded, Upgraded, SerialInv, PurchaseLimit, ActiveKeepsUpgrade
  <2>4. ASSUME NEW b \in Actor PROVE SerialTx(b)'
    <3>1. PICK u : u = tx'[b] /\ (u.on => LimitTx(u) /\ GroupTx(u))
      BY <1>0, <2>1, <2>2 DEF SerialInv, SerialTx
    <3>2. u.on => LimitTx(u)' /\ GroupTx(u)'
      BY <2>1, <3>1 DEF LimitTx, GroupTx, LimitReached, OfPlan, ActiveUpgraded, Upgraded
    <3> QED BY <3>1, <3>2 DEF SerialTx, LimitTx, GroupTx
  <2> QED BY <2>3, <2>4 DEF SerialInv
<1>3. ASSUME NEW a \in Actor, Commit(a)
      PROVE  SerialInv'
  <2>1. \A b \in Actor : ~tx'[b].on
    BY <1>3, AfterCommitTxs
  <2>2. TypeInv'
    BY TypeStep
  <2>3. PurchaseLimit' /\ ActiveKeepsUpgrade'
    BY <1>3, <2>2, CommitKeepsLimit, CommitKeepsUpgrade
  <2> QED BY <2>1, <2>3 DEF SerialInv, SerialTx
<1>4. ASSUME NEW a \in Actor, Rollback(a)
      PROVE  SerialInv'
  <2>1. UNCHANGED <<now, group, subs>> /\ tx' = [tx EXCEPT ![a] = NoTx] /\ ~NoTx.on
    BY <1>4 DEF Rollback, NoTx
  <2>2. PurchaseLimit' /\ ActiveKeepsUpgrade'
    BY <2>1 DEF SerialInv, PurchaseLimit, OfPlan, ActiveKeepsUpgrade, ActiveUpgraded, Upgraded
  <2>3. ASSUME NEW b \in Actor, tx'[b].on PROVE LimitTx(tx[b])' /\ GroupTx(tx[b])'
    <3>1. PICK u : u = tx'[b] /\ LimitTx(u) /\ GroupTx(u)
      BY <1>0, <2>1, <2>3 DEF SerialInv, SerialTx
    <3>2. LimitTx(u)' /\ GroupTx(u)'
      BY <2>1, <3>1 DEF LimitTx, GroupTx, LimitReached, OfPlan, ActiveUpgraded, Upgraded
    <3> QED BY <3>1, <3>2 DEF LimitTx, GroupTx
  <2> QED BY <2>2, <2>3 DEF SerialInv, SerialTx
<1>5. CASE Tick
  <2>1. UNCHANGED <<group, subs, tx>> /\ now' = now + 1
    BY <1>5 DEF Tick
  <2>2. ActiveUpgraded' \subseteq ActiveUpgraded
    <3>1. \A i \in DOMAIN subs : subs[i].end \in Nat
      <4>1. \A i \in DOMAIN subs : subs[i] \in SubType
        BY LenProperties, ElementOfSeq DEF TypeOK
      <4> QED BY <4>1 DEF SubType
    <3>2. \A e \in Nat : e > now' => e > now
      BY <2>1, ClockIsNat
    <3> QED BY <2>1, <3>1, <3>2 DEF ActiveUpgraded, Upgraded
  <2>3. \A b \in Actor : GroupTx(tx[b]) => GroupTx(tx[b])'
    BY <2>1, <2>2 DEF GroupTx
  <2>4. \A b \in Actor : LimitTx(tx[b]) => LimitTx(tx[b])'
    BY <2>1 DEF LimitTx, LimitReached, OfPlan
  <2>5. PurchaseLimit' /\ ActiveKeepsUpgrade'
    BY <2>1, <2>2 DEF SerialInv, PurchaseLimit, OfPlan, ActiveKeepsUpgrade
  <2> QED BY <2>1, <2>3, <2>4, <2>5 DEF SerialInv, SerialTx
<1>6. CASE \E o \in Order : RequestOrder(o)
  BY <1>1, <1>6 DEF RequestOrder
<1>7. CASE UNCHANGED vars
  BY <1>1, <1>7 DEF vars
<1> QED BY <1>2, <1>3, <1>4, <1>5, <1>6, <1>7, Steps

-----------------------------------------------------------------------------
(* The group of a user whose upgraded subscriptions never overlapped.      *)

LentTxs == \A a \in Actor : tx[a].on => LentTx(tx[a])

\* What an update keeps of a row, and which rows it leaves live or expired.
LEMMA WrittenLends ==
    ASSUME TypeOK, NEW t \in TxType, NEW i \in DOMAIN subs
    PROVE  /\ Written(i, t).upgrade = subs[i].upgrade
           /\ Written(i, t).prev = subs[i].prev /\ Written(i, t).alone = subs[i].alone
           /\ Written(i, t).status = "active" <=> subs[i].status = "active" /\ i \notin t.ids
           /\ Written(i, t).status = "active" => Written(i, t).end = subs[i].end
           /\ Written(i, t).status = "expired" =>
                /\ Written(i, t).end = subs[i].end
                /\ \/ subs[i].status = "expired"
                   \/ subs[i].status = "active" /\ i \in t.ids /\ t.status = "expired"
<1>1. subs[i] \in SubType
  BY LenProperties, ElementOfSeq DEF TypeOK
<1>2. now \in Nat
  BY ClockIsNat
<1> QED BY <1>1, <1>2 DEF Written, SubType, TxType

\* The old rows after a commit.
LEMMA CommitLends ==
    ASSUME TypeInv, NEW a \in Actor, Commit(a), NEW i \in DOMAIN subs
    PROVE  /\ i \in DOMAIN subs' /\ subs'[i].upgrade = subs[i].upgrade
           /\ subs'[i].prev = subs[i].prev /\ subs'[i].alone = subs[i].alone
           /\ i \in Live' <=> i \in Live /\ i \notin tx[a].ids
           /\ i \in Live' => subs'[i].end = subs[i].end
           /\ subs'[i].status = "expired" =>
                /\ subs'[i].end = subs[i].end
                /\ \/ subs[i].status = "expired"
                   \/ subs[i].status = "active" /\ i \in tx[a].ids /\ tx[a].status = "expired"
<1>1. tx[a] \in TxType /\ i \in DOMAIN subs' /\ subs'[i] = Written(i, tx[a])
  BY CommitRows
<1>2. TypeOK /\ (Upgraded(i)' <=> Upgraded(i))
  BY <1>1, WrittenLends DEF TypeInv, Upgraded
<1>3. /\ i \in Live <=> Upgraded(i) /\ subs[i].status = "active"
      /\ i \in Live' <=> Upgraded(i)' /\ subs'[i].status = "active"
  BY <1>1 DEF Live
<1> QED BY <1>1, <1>2, <1>3, WrittenLends

\* Subscriptions are ended, and the group is taken back with the live one.
LEMMA EndLends ==
    ASSUME TypeInv, LentInv, NEW a \in Actor, Commit(a), tx[a].buys = {}, LentTx(tx[a])
    PROVE  LentInv'
<1> DEFINE t == tx[a]
<1> SUFFICES ASSUME NoOverlap' PROVE LentInv'
  BY DEF LentInv
<1>1. DOMAIN subs' = DOMAIN subs
  BY CommitRows
<1>2. NoOverlap
  BY <1>1, CommitLends DEF NoOverlap, Upgraded
<1>3. /\ TakesBack(t.ids, t.group)
      /\ t.status = "expired" =>
           \A i \in DOMAIN subs : i \in t.ids => subs[i].end <= now
  BY <1>2 DEF LentTx
<1>4. group' = (IF t.group = "" THEN group ELSE t.group) /\ now' = now
  BY DEF Commit
<1>5. Live' = Live \ t.ids
  <2>1. Live' \subseteq DOMAIN subs /\ Live \subseteq DOMAIN subs
    BY <1>1 DEF Live
  <2> QED BY <2>1, CommitLends
<1>6. \A i \in DOMAIN subs' : Upgraded(i)' => subs'[i].prev = BaseGroup
  BY <1>1, <1>2, CommitLends DEF LentInv, Upgraded
<1>7. \A i, j \in Live' : i = j
  BY <1>2, <1>5 DEF LentInv
<1>8. BaseGroup # "" /\ Live \subseteq DOMAIN subs
  BY ConstantsAssumption DEF Live
<1>9. /\ Live' = {} => group' = BaseGroup
      /\ \A j \in Live' : group' = subs'[j].upgrade \/ (group' = BaseGroup /\ subs'[j].end <= now')
  <2>1. CASE t.group = BaseGroup /\ \A j \in Live \ t.ids : subs[j].end <= now
    <3>1. group' = BaseGroup
      BY <1>4, <1>8, <2>1
    <3> QED BY <1>4, <1>5, <1>8, <2>1, <3>1, CommitLends
  <2>2. CASE t.group = "" /\ Live \cap t.ids # {} /\ group = BaseGroup
    <3>1. Live' = {} /\ group' = BaseGroup
      BY <1>2, <1>4, <1>5, <2>2 DEF LentInv
    <3> QED BY <3>1
  <2>3. CASE t.group = "" /\ Live \cap t.ids = {}
    <3>1. Live' = Live /\ group' = group
      BY <1>4, <1>5, <2>3
    <3>2. \A j \in Live' : subs'[j].upgrade = subs[j].upgrade /\ subs'[j].end = subs[j].end
      BY <1>8, <3>1, CommitLends
    <3> QED BY <1>2, <1>4, <3>1, <3>2 DEF LentInv
  <2> QED BY <1>3, <2>1, <2>2, <2>3 DEF TakesBack
<1>10. ASSUME NEW k \in DOMAIN subs', Upgraded(k)', subs'[k].status = "expired"
       PROVE  subs'[k].end <= now' /\ \A j \in Live' : subs'[k].end < subs'[j].end
  <2>1. k \in DOMAIN subs /\ Upgraded(k) /\ subs'[k].end = subs[k].end
    BY <1>1, <1>10, CommitLends DEF Upgraded
  <2>2. \A j \in Live' : j \in Live /\ subs'[j].end = subs[j].end
    BY <1>5, <1>8, CommitLends
  <2>3. CASE subs[k].status = "expired"
    <3>1. subs[k].end <= now /\ \A j \in Live : subs[k].end < subs[j].end
      BY <1>2, <2>1, <2>3 DEF LentInv
    <3> QED BY <1>4, <2>1, <2>2, <3>1
  <2>4. CASE subs[k].status = "active" /\ k \in t.ids /\ t.status = "expired"
    <3>1. k \in Live /\ Live' = {}
      BY <1>2, <1>5, <2>1, <2>4 DEF Live, LentInv
    <3> QED BY <1>3, <1>4, <2>1, <2>4, <3>1
  <2> QED BY <1>10, <2>1, <2>3, <2>4, CommitLends
<1> QED BY <1>6, <1>7, <1>9, <1>10 DEF LentInv

\* A subscription is bought: it lends its group only when no other is live, or
\* else it overlaps.
LEMMA BuyLends ==
    ASSUME TypeInv, LentInv, NEW a \in Actor, Commit(a), tx[a].buys # {},
           LentTx(tx[a]), GroupTx(tx[a])
    PROVE  LentInv'
<1> DEFINE t == tx[a]
<1> SUFFICES ASSUME NoOverlap' PROVE LentInv'
  BY DEF LentInv
<1>0. PICK n : n = Len(subs) + 1
  OBVIOUS
<1>1. PICK p \in Plan : /\ t.buys = {p} /\ DOMAIN subs' = DOMAIN subs \cup {n}
                        /\ n \notin DOMAIN subs /\ subs'[n] = NewRow(p, t)
  BY <1>0, CommitRows
<1>2. /\ subs'[n].upgrade = UpgradeGroup[p] /\ subs'[n].prev = t.prev
      /\ subs'[n].status = "active" /\ subs'[n].end = now + Duration[p]
      /\ subs'[n].alone = \A i \in DOMAIN subs : Upgraded(i) => subs[i].status # "active"
  BY <1>1 DEF NewRow
<1>3. NoOverlap
  BY <1>1, CommitLends DEF NoOverlap, Upgraded
<1>4. t.ids = {} /\ (UpgradeGroup[p] # "" /\ Live = {} =>
                       t.group = UpgradeGroup[p] /\ t.prev = BaseGroup)
  BY <1>1, <1>3 DEF LentTx
<1>5. group' = (IF t.group = "" THEN group ELSE t.group) /\ now' = now
  BY DEF Commit
<1>6. now \in Nat /\ Duration[p] \in Nat \ {0}
  BY ClockIsNat, ConstantsAssumption DEF TypeInv
<1>7. Live \subseteq DOMAIN subs /\ Live' \subseteq DOMAIN subs \cup {n}
  BY <1>1 DEF Live
<1>8. \A i \in DOMAIN subs :
        /\ i \in Live' <=> i \in Live
        /\ Upgraded(i)' <=> Upgraded(i)
        /\ subs'[i].upgrade = subs[i].upgrade /\ subs'[i].prev = subs[i].prev
        /\ i \in Live' => subs'[i].end = subs[i].end
        /\ subs'[i].status = "expired" =>
             subs'[i].end = subs[i].end /\ subs[i].status = "expired"
  BY <1>4, CommitLends DEF Upgraded
<1>9. n \in Live' <=> UpgradeGroup[p] # ""
  BY <1>1, <1>2 DEF Live, Upgraded
<1>10. CASE UpgradeGroup[p] = ""
  <2>1. Live' = Live
    BY <1>7, <1>8, <1>9, <1>10
  <2>2. group' = group
    BY <1>1, <1>5, <1>10 DEF GroupTx
  <2>3. ~Upgraded(n)'
    BY <1>2, <1>10 DEF Upgraded
  <2>4. \A j \in Live : subs'[j].upgrade = subs[j].upgrade /\ subs'[j].end = subs[j].end
    BY <1>7, <1>8, <2>1
  <2>5. \A i \in DOMAIN subs' : Upgraded(i)' => i \in DOMAIN subs /\ Upgraded(i)
    BY <1>1, <1>8, <2>3
  <2> QED BY <1>3, <1>5, <1>8, <2>1, <2>2, <2>4, <2>5 DEF LentInv
<1>11. CASE UpgradeGroup[p] # ""
  <2>1. Live = {}
    <3>1. Upgraded(n)' /\ subs'[n].alone
      BY <1>1, <1>2, <1>11 DEF Upgraded, NoOverlap
    <3> QED BY <1>2, <3>1 DEF Live
  <2>2. Live' = {n}
    BY <1>7, <1>8, <1>9, <1>11, <2>1
  <2>3. group' = UpgradeGroup[p] /\ t.prev = BaseGroup
    BY <1>4, <1>5, <1>11, <2>1
  <2>4. \A i \in DOMAIN subs' : Upgraded(i)' => subs'[i].prev = BaseGroup
    BY <1>1, <1>2, <1>3, <1>8, <2>3 DEF LentInv
  <2>5. ASSUME NEW k \in DOMAIN subs', Upgraded(k)', subs'[k].status = "expired"
        PROVE  subs'[k].end <= now' /\ \A j \in Live' : subs'[k].end < subs'[j].end
    <3>1. k \in DOMAIN subs
      BY <1>1, <1>2, <2>5
    <3>2. subs'[k].end = subs[k].end /\ subs[k].end <= now
      BY <1>3, <1>8, <2>5, <3>1 DEF LentInv
    <3>3. subs[k].end \in Nat
      BY <3>1, RowTypes DEF TypeInv
    <3>4. subs[k].end < now + Duration[p]
      BY <1>6, <3>2, <3>3
    <3> QED BY <1>2, <1>5, <2>2, <3>2, <3>4
  <2> QED BY <1>2, <2>2, <2>3, <2>4, <2>5 DEF LentInv
<1> QED BY <1>10, <1>11

LEMMA LentInit == Init => LentInv /\ LentTxs
<1> SUFFICES ASSUME Init PROVE LentInv /\ LentTxs
  OBVIOUS
<1>1. DOMAIN subs = {} /\ group = BaseGroup
  BY EmptySeq, LenProperties DEF Init
<1>2. \A a \in Actor : ~tx[a].on
  BY DEF Init, NoTx
<1> QED BY <1>1, <1>2 DEF LentInv, LentTxs, Live

LEMMA LentStep ==
    ASSUME Isolation = "serial", TypeInv, SerialInv, LentInv, LentTxs, [Next]_vars
    PROVE  LentInv' /\ LentTxs'
<1>0. tx \in [Actor -> TxType] /\ TypeOK
  BY DEF TypeInv, TypeOK
<1> DEFINE Same == UNCHANGED <<now, group, subs>>
<1>1. ASSUME Same PROVE LentInv' /\ \A t : LentTx(t) => LentTx(t)'
  <2>1. Live' = Live /\ (NoOverlap' <=> NoOverlap)
    BY <1>1 DEF Live, NoOverlap, Upgraded
  <2> QED BY <1>1, <2>1 DEF LentInv, LentTx, TakesBack, Upgraded
<1>2. ASSUME Same, \A b \in Actor : tx'[b].on => LentTx(tx'[b]) PROVE LentInv' /\ LentTxs'
  <2>1. ASSUME NEW b \in Actor, tx'[b].on PROVE LentTx(tx[b])'
    <3>1. PICK u : u = tx'[b] /\ LentTx(u)
      BY <1>2, <2>1
    <3>2. LentTx(u)'
      BY <1>1, <1>2, <3>1
    <3> QED BY <3>1, <3>2 DEF LentTx
  <2> QED BY <1>1, <1>2, <2>1 DEF LentTxs
<1>3. ASSUME NEW a \in Actor, NEW t, Begins(a, t) PROVE LentInv' /\ LentTxs'
  <2>1. Same /\ tx' = [tx EXCEPT ![a] = t] /\ LentTx(t)
    BY <1>3 DEF Begins, Begin
  <2> HIDE DEF Same
  <2> QED BY <1>0, <1>2, <2>1 DEF LentTxs
<1>4. ASSUME NEW a \in Actor, Commit(a) PROVE LentInv' /\ LentTxs'
  <2>1. LentTx(tx[a]) /\ GroupTx(tx[a])
    BY <1>4 DEF Commit, LentTxs, SerialInv, SerialTx
  <2>2. LentTxs'
    BY <1>4, AfterCommitTxs DEF LentTxs
  <2> QED BY <1>4, <2>1, <2>2, EndLends, BuyLends
<1>5. ASSUME NEW a \in Actor, Rollback(a) PROVE LentInv' /\ LentTxs'
  <2>1. Same /\ tx' = [tx EXCEPT ![a] = NoTx] /\ ~NoTx.on
    BY <1>5 DEF Rollback, NoTx
  <2> HIDE DEF Same
  <2> QED BY <1>0, <1>2, <2>1 DEF LentTxs
<1>6. CASE Tick
  <2>1. UNCHANGED <<group, subs, tx>> /\ now' = now + 1
    BY <1>6 DEF Tick
  <2>2. Live' = Live /\ (NoOverlap' <=> NoOverlap)
    BY <2>1 DEF Live, NoOverlap, Upgraded
  <2>3. \A i \in DOMAIN subs : subs[i].end <= now => subs[i].end <= now'
    <3>1. \A i \in DOMAIN subs : subs[i].end \in Nat
      BY <1>0, RowTypes
    <3>2. \A e \in Nat : e <= now => e <= now'
      BY <1>0, <2>1, ClockIsNat
    <3> QED BY <3>1, <3>2
  <2>4. Live \subseteq DOMAIN subs
    BY DEF Live
  <2>5. LentInv'
    BY <2>1, <2>2, <2>3, <2>4 DEF LentInv, Upgraded
  <2>6. \A b \in Actor : LentTx(tx[b]) => LentTx(tx[b])'
    BY <2>1, <2>2, <2>3, <2>4 DEF LentTx, TakesBack
  <2> QED BY <2>1, <2>5, <2>6 DEF LentTxs
<1>7. CASE \E o \in Order : RequestOrder(o)
  BY <1>1, <1>7 DEF RequestOrder, LentTxs
<1>8. CASE UNCHANGED vars
  BY <1>1, <1>8 DEF vars, LentTxs
<1> QED BY <1>0, <1>3, <1>4, <1>5, <1>6, <1>7, <1>8, Steps

-----------------------------------------------------------------------------
(* Theorems.                                                               *)

\* Orders, subscriptions, the group and the write sets of the transactions
\* stay of their types, at every isolation level.
THEOREM TypeCorrect == Spec => []TypeOK
<1>1. Init => TypeInv
  BY TypeInit
<1>2. TypeInv /\ [Next]_vars => TypeInv'
  BY TypeStep
<1>3. TypeInv => TypeOK
  BY DEF TypeInv
<1> QED BY <1>1, <1>2, <1>3, PTL DEF Spec

LEMMA OrderSafety == ASSUME Protected PROVE Spec => [](TypeInv /\ OrderInv)
<1>1. Init => TypeInv /\ OrderInv
  BY TypeInit, OrderInit
<1>2. TypeInv /\ OrderInv /\ [Next]_vars => (TypeInv /\ OrderInv)'
  BY TypeStep, OrderStep
<1> QED BY <1>1, <1>2, PTL DEF Spec

\* CompleteSubscriptionOrder is idempotent wherever LockOrder of a single
\* process, row locks or the database keep two webhooks of an order apart: one
\* payment creates one subscription.
THEOREM PaidOnce == ASSUME Protected PROVE Spec => []OrderFulfilledOnce
<1>1. OrderInv => OrderFulfilledOnce
  BY DEF OrderInv
<1> QED BY <1>1, OrderSafety, PTL

\* Under the same condition an order that CompleteSubscriptionOrder has marked
\* as paid has its subscription, whatever failed and was retried before.
THEOREM PaidMeansSubscribed == ASSUME Protected PROVE Spec => []SuccessMeansSubscription
<1>1. OrderInv => SuccessMeansSubscription
  BY DEF OrderInv
<1> QED BY <1>1, OrderSafety, PTL

\* Under the same condition no late or duplicated webhook reopens an order
\* that is closed, or closes it in another way.
THEOREM ClosedOrdersStay ==
    ASSUME Protected
    PROVE  Spec => OrderIsFinal
<1>1. Init => TypeInv /\ OrderInv
  BY TypeInit, OrderInit
<1>2. TypeInv /\ OrderInv /\ [Next]_vars => (TypeInv /\ OrderInv)'
  BY TypeStep, OrderStep
<1>3. TypeInv /\ OrderInv /\ [Next]_vars =>
        [\A o \in Order : orders[o] \in {"success", "expired"} => orders'[o] = orders[o]]_vars
  <2> SUFFICES ASSUME TypeInv, OrderInv, [Next]_vars
               PROVE  \A o \in Order :
                        orders[o] \in {"success", "expired"} => orders'[o] = orders[o]
    OBVIOUS
  <2>1. CASE \E a \in Actor : Commit(a)
    BY <2>1, OrderCommits
  <2>2. CASE \E o \in Order : RequestOrder(o)
    BY <2>2 DEF RequestOrder, TypeInv, TypeOK
  <2>3. CASE orders' = orders
    BY <2>3
  <2> QED BY <2>1, <2>2, <2>3, Steps DEF TypeInv, Begins, Begin, Rollback, Tick, vars
<1> QED BY <1>1, <1>2, <1>3, PTL DEF Spec, OrderIsFinal

LEMMA SerialRuns == ASSUME Isolation = "serial" PROVE Spec => [](TypeInv /\ SerialInv)
<1>1. Init => TypeInv /\ SerialInv
  BY TypeInit, SerialInit
<1>2. TypeInv /\ SerialInv /\ [Next]_vars => (TypeInv /\ SerialInv)'
  BY TypeStep, SerialStep
<1> QED BY <1>1, <1>2, PTL DEF Spec

\* On SQLite, where transactions overlap and one that has read what another has
\* written since cannot commit, racing payments and administrators do not get
\* past a plan's purchase limit.
THEOREM LimitHolds == ASSUME Isolation = "serial" PROVE Spec => []PurchaseLimit
<1>1. SerialInv => PurchaseLimit
  BY DEF SerialInv
<1> QED BY <1>1, SerialRuns, PTL

\* On such a database neither the expiry task nor an administrator takes the
\* group of a user whose upgrade is still active.
THEOREM UpgradeStays == ASSUME Isolation = "serial" PROVE Spec => []ActiveKeepsUpgrade
<1>1. SerialInv => ActiveKeepsUpgrade
  BY DEF SerialInv
<1> QED BY <1>1, SerialRuns, PTL

\* On such a database a user whose upgraded subscriptions never overlapped is
\* back in the group he had before when the last of them has been ended, by the
\* expiry task or an administrator, in any order and however late.
THEOREM GroupComesBack ==
    ASSUME Isolation = "serial" PROVE Spec => []GroupRestoredWithoutOverlap
<1>1. Init => TypeInv /\ SerialInv /\ LentInv /\ LentTxs
  BY TypeInit, SerialInit, LentInit
<1>2. TypeInv /\ SerialInv /\ LentInv /\ LentTxs /\ [Next]_vars
        => (TypeInv /\ SerialInv /\ LentInv /\ LentTxs)'
  BY TypeStep, SerialStep, LentStep
<1>3. LentInv => GroupRestoredWithoutOverlap
  BY DEF LentInv, NoOverlap, Live, GroupRestoredWithoutOverlap, Ended
<1> QED BY <1>1, <1>2, <1>3, PTL DEF Spec
=============================================================================
