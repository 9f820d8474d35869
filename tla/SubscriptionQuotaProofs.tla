---------------------- MODULE SubscriptionQuotaProofs -----------------------
(***************************************************************************)
(* For any number of requests and subscriptions: the state is well typed;  *)
(* and where the transactions on user_subscriptions do not interleave,     *)
(* nothing is consumed for free.  For this, what a transaction will save   *)
(* is compared with what it charges, and only one is open at a time.       *)
(***************************************************************************)
EXTENDS SubscriptionQuota, WellFoundedInduction, TLAPS

(* Reset times.                                                            *)

(* A nonempty set of times within bounds has a greatest and a least one.   *)
LEMMA LeastNat ==
    ASSUME NEW T \in SUBSET Nat, T # {}
    PROVE  \E x \in T : \A y \in T : x <= y
<1>1. PICK x \in T : \A y \in T : ~(<<y, x>> \in OpToRel(<, Nat))
  BY NatLessThanWellFounded, WFMin
<1>2. ASSUME NEW y \in T PROVE x <= y
  <2>1. <<y, x>> \in Nat \X Nat /\ ~(<<y, x>> \in {ss \in Nat \X Nat : ss[1] < ss[2]})
    BY <1>1 DEF OpToRel
  <2> QED BY <2>1
<1> QED BY <1>2

LEMMA MaxIsIn ==
    ASSUME NEW a \in Int, NEW b \in Int, NEW S \in SUBSET (a..b), S # {}
    PROVE  Max(S) \in S
<1> DEFINE T == {b - x : x \in S}
<1>1. PICK m \in T : \A y \in T : m <= y
  <2>1. \A y \in T : y \in Nat
    OBVIOUS
  <2>2. T # {}
    OBVIOUS
  <2> HIDE DEF T
  <2> QED BY <2>1, <2>2, LeastNat
<1>2. PICK x \in S : m = b - x
  OBVIOUS
<1>3. \A y \in S : x >= y
  <2> SUFFICES ASSUME NEW y \in S PROVE x >= y
    OBVIOUS
  <2>1. b - y \in T
    OBVIOUS
  <2>2. b - x <= b - y
    BY <1>1, <1>2, <2>1
  <2> QED BY <2>2
<1> QED BY <1>3 DEF Max

LEMMA MinIsIn ==
    ASSUME NEW a \in Int, NEW b \in Int, NEW S \in SUBSET (a..b), S # {}
    PROVE  Min(S) \in S
<1> DEFINE T == {x - a : x \in S}
<1>1. PICK m \in T : \A y \in T : m <= y
  <2>1. \A y \in T : y \in Nat
    OBVIOUS
  <2>2. T # {}
    OBVIOUS
  <2> HIDE DEF T
  <2> QED BY <2>1, <2>2, LeastNat
<1>2. PICK x \in S : m = x - a
  OBVIOUS
<1>3. \A y \in S : x <= y
  <2> SUFFICES ASSUME NEW y \in S PROVE x <= y
    OBVIOUS
  <2>1. y - a \in T
    OBVIOUS
  <2>2. x - a <= y - a
    BY <1>1, <1>2, <2>1
  <2> QED BY <2>2
<1> QED BY <1>3 DEF Min

(* The next reset is after its base, or there is none.                     *)
LEMMA NextResetType ==
    ASSUME NEW base \in Int, base >= -1, NEW end \in Nat
    PROVE  /\ ResetTimes(base, end) \in SUBSET ((base + 1)..end)
           /\ calcNextResetTime(base, end) \in {ZeroTime} \cup Nat
<1>1. ResetTimes(base, end) \in SUBSET ((base + 1)..end)
  BY DEF ResetTimes
<1>2. CASE ResetTimes(base, end) = {}
  BY <1>1, <1>2 DEF calcNextResetTime
<1>3. CASE ResetTimes(base, end) # {}
  <2> DEFINE lo == base + 1
  <2>1. lo \in Int /\ end \in Int /\ ResetTimes(base, end) \in SUBSET (lo..end)
    BY <1>1
  <2> HIDE DEF lo
  <2>2. Min(ResetTimes(base, end)) \in ResetTimes(base, end)
    BY <1>3, <2>1, MinIsIn
  <2> QED BY <1>1, <1>3, <2>2 DEF calcNextResetTime
<1> QED BY <1>2, <1>3

(* What maybeResetUserSubscriptionWithPlanTx does to a row: its end and    *)
(* status stay, and the used amount goes to zero or stays; it stays if the *)
(* time of the last reset does.                                            *)
LEMMA ResetRow ==
    ASSUME NEW r \in RowType, NEW at \in Nat
    PROVE  /\ maybeReset(r, at) \in RowType
           /\ maybeReset(r, at).used \in {0, r.used}
           /\ maybeReset(r, at).last = r.last => maybeReset(r, at).used = r.used
<1> DEFINE base == IF r.last = Null THEN Start ELSE r.last
           passed == {t \in ResetTimes(base, r.end) : t <= at}
           next == calcNextResetTime(base, r.end)
<1>1. base \in Int /\ base >= -1 /\ base \in {ZeroTime} \cup Nat /\ r.end \in Nat
  BY ConstantsAssumption DEF RowType, Times, Null, ZeroTime
<1>2. ResetTimes(base, r.end) \in SUBSET ((base + 1)..r.end) /\ next \in {ZeroTime} \cup Nat
  BY <1>1, NextResetType
<1>3. ASSUME passed # {}
      PROVE  /\ Max(passed) \in Nat /\ Max(passed) > base
             /\ calcNextResetTime(Max(passed), r.end) \in {ZeroTime} \cup Nat
  <2> DEFINE lo == base + 1
             hi == r.end
  <2>1. passed \in SUBSET (lo..hi) /\ lo \in Int /\ hi \in Int
    BY <1>1, <1>2
  <2>2. Max(passed) \in passed
    <3> HIDE DEF lo, hi, passed
    <3> QED BY <1>3, <2>1, MaxIsIn
  <2>3. Max(passed) \in Nat /\ Max(passed) > base
    BY <1>1, <2>1, <2>2
  <2> HIDE DEF passed
  <2>4. calcNextResetTime(Max(passed), r.end) \in {ZeroTime} \cup Nat
    BY <1>1, <2>3, NextResetType
  <2> QED BY <2>3, <2>4
<1> HIDE DEF base, next
<1>4. CASE r.next > at \/ Period = 0
  BY <1>4 DEF maybeReset
<1>5. CASE ~(r.next > at \/ Period = 0) /\ passed # {}
  <2> DEFINE k == [r EXCEPT !.used = 0, !.last = Max(passed),
                            !.next = calcNextResetTime(Max(passed), r.end)]
  <2>1. maybeReset(r, at) = k
    BY <1>5 DEF maybeReset, base
  <2>2. k \in RowType /\ k.used = 0
    BY <1>3, <1>5 DEF RowType, Times
  <2>3. k.last = Max(passed) /\ Max(passed) # r.last
    <3>1. k.last = Max(passed)
      BY DEF RowType
    <3>2. Max(passed) # r.last
      BY <1>1, <1>3, <1>5 DEF base, Null, ZeroTime, RowType, Times
    <3> QED BY <3>1, <3>2
  <2> HIDE DEF k
  <2> QED BY <2>1, <2>2, <2>3
<1>6. CASE ~(r.next > at \/ Period = 0) /\ passed = {} /\ r.next = Null /\ next # ZeroTime
  <2> DEFINE k == [r EXCEPT !.last = base, !.next = next]
  <2>1. maybeReset(r, at) = k
    BY <1>6 DEF maybeReset, base, next
  <2>2. k \in RowType /\ k.used = r.used
    BY <1>1, <1>2 DEF RowType, Times
  <2> HIDE DEF k
  <2> QED BY <2>1, <2>2
<1>7. CASE /\ ~(r.next > at \/ Period = 0) /\ passed = {}
           /\ ~(r.next = Null /\ next # ZeroTime)
  BY <1>7 DEF maybeReset, base, next
<1> QED BY <1>4, <1>5, <1>6, <1>7

-----------------------------------------------------------------------------
(* Transactions: well typed, and covering what is charged once committed.  *)

Planned(t) ==
    /\ t.done \in {"consumed", "record", "done"} /\ t.failed \in {"refund", "rejected", "done"}
    /\ t.done = "consumed" => t.charge \in Nat

TypesInv == TypeOK /\ \A r \in Request : tx[r].on => Planned(tx[r])

(* Covered, once the transaction t has been committed.           *)
Covers(t) ==
    \A s \in Sub :
        /\ Recharged(t)[s] <= Saved(t)[s].used
        /\ Total[s] > 0 => Saved(t)[s].used <= Total[s]

(* One transaction is open, or none.                                       *)
OneTx == \A a, b \in Actor : tx[a].on /\ tx[b].on => a = b

Alone == \A a \in Actor : ~tx[a].on

CoverInv ==
    /\ Covered
    /\ \A a \in Actor : tx[a].on => Covers(tx[a])
    /\ OneTx

LEMMA PreConsumeTx ==
    ASSUME TypeOK, NEW r \in Request, NEW n \in Amounts, PreConsumeUserSubscription(r, n)
    PROVE  \E t : /\ Begin(r, t) /\ t.on = TRUE /\ IsTx(t) /\ Planned(t)
                  /\ Covered => Covers(t)
<1>1. PICK s \in {u \in Active : HasRoom(u, n)} :
        LET tried == {u \in Active : u = s \/ Before(u, s)}
            fresh == [u \in tried |-> maybeReset(row[u], now)]
        IN  Begin(r, [on |-> TRUE,
                      rows |-> [u \in {u \in tried : u = s \/ fresh[u] # row[u]} |->
                                  IF u = s THEN [fresh[u] EXCEPT !.used = @ + n]
                                  ELSE fresh[u]],
                      resets |-> {u \in tried : fresh[u].last # row[u].last},
                      sub |-> s, charge |-> n, done |-> "consumed", failed |-> "rejected"])
  BY DEF PreConsumeUserSubscription
<1> DEFINE tried == {u \in Active : u = s \/ Before(u, s)}
           fresh == [u \in tried |-> maybeReset(row[u], now)]
           D == {u \in tried : u = s \/ fresh[u] # row[u]}
           rows == [u \in D |-> IF u = s THEN [fresh[u] EXCEPT !.used = @ + n] ELSE fresh[u]]
           resets == {u \in tried : fresh[u].last # row[u].last}
           t == [on |-> TRUE, rows |-> rows, resets |-> resets,
                 sub |-> s, charge |-> n, done |-> "consumed", failed |-> "rejected"]
<1>2. Begin(r, t)
  BY <1>1
<1>3. n \in Nat /\ n \in Int
  BY ConstantsAssumption
<1>4. /\ t.on = TRUE /\ t.rows = rows /\ t.resets = resets /\ t.sub = s /\ t.charge = n
      /\ t.done = "consumed" /\ t.failed = "rejected" /\ DOMAIN rows = D
  OBVIOUS
<1>5. s \in tried /\ s \in D /\ tried \subseteq Sub /\ D \subseteq tried /\ HasRoom(s, n)
  BY DEF Active
<1>6. ASSUME NEW u \in tried
      PROVE  /\ row[u] \in RowType /\ fresh[u] \in RowType
             /\ fresh[u] = maybeReset(row[u], now)
             /\ fresh[u].used \in {0, row[u].used}
             /\ u \notin resets => fresh[u].used = row[u].used
             /\ u \in resets => u \in D
  <2>1. row[u] \in RowType /\ now \in Nat
    BY <1>5 DEF TypeOK
  <2>2. fresh[u] = maybeReset(row[u], now)
    OBVIOUS
  <2>3. /\ fresh[u] \in RowType /\ fresh[u].used \in {0, row[u].used}
        /\ fresh[u].last = row[u].last => fresh[u].used = row[u].used
    BY <2>1, <2>2, ResetRow
  <2> QED BY <2>1, <2>2, <2>3
<1>7. ASSUME NEW u \in D
      PROVE  /\ rows[u] \in RowType
             /\ rows[u].used = fresh[u].used + (IF u = s THEN n ELSE 0)
  <2>1. fresh[u] \in RowType /\ fresh[u].used \in Nat
    BY <1>5, <1>6 DEF RowType
  <2>2. rows[u] = IF u = s THEN [fresh[u] EXCEPT !.used = fresh[u].used + n] ELSE fresh[u]
    OBVIOUS
  <2> HIDE DEF rows, fresh
  <2> QED BY <1>3, <2>1, <2>2 DEF RowType
<1> HIDE DEF t
<1>8. IsTx(t) /\ Planned(t)
  <2>1. rows \in [D -> RowType]
    BY <1>7
  <2>2. resets \subseteq D
    BY <1>6
  <2> HIDE DEF rows, D, resets, tried
  <2> QED BY <1>3, <1>4, <1>5, <2>1, <2>2 DEF IsTx, Planned
<1>9. ASSUME Covered, NEW u \in Sub
      PROVE  /\ Recharged(t)[u] <= Saved(t)[u].used
             /\ Total[u] > 0 => Saved(t)[u].used <= Total[u]
  <2>1. /\ row[u].used \in Nat /\ charged[u] \in Int /\ Total[u] \in Nat
        /\ charged[u] <= row[u].used /\ (Total[u] > 0 => row[u].used <= Total[u])
    BY <1>9, ConstantsAssumption DEF Covered, TypeOK, RowType
  <2>2. Recharged(t)[u] = (IF u \in resets THEN 0 ELSE charged[u]) + (IF u = s THEN n ELSE 0)
    BY <1>4 DEF Recharged
  <2>3. CASE u \in D
    <3>1. Saved(t)[u] = rows[u]
      BY <1>4, <2>3 DEF Saved
    <3>2. /\ fresh[u].used \in {0, row[u].used}
          /\ u \notin resets => fresh[u].used = row[u].used
          /\ rows[u].used = fresh[u].used + (IF u = s THEN n ELSE 0)
      BY <1>5, <1>6, <1>7, <2>3
    <3>3. u = s => Total[u] = 0 \/ Total[u] - fresh[u].used >= n
      BY <1>5, <1>6 DEF HasRoom
    <3> HIDE DEF rows, fresh, resets
    <3> QED BY <1>3, <2>1, <2>2, <3>1, <3>2, <3>3
  <2>4. CASE u \notin D
    <3>1. Saved(t)[u] = row[u] /\ u # s /\ u \notin resets
      BY <1>4, <1>5, <1>6, <2>4 DEF Saved
    <3> HIDE DEF rows, fresh, resets
    <3> QED BY <2>1, <2>2, <3>1
  <2> QED BY <2>3, <2>4
<1> QED BY <1>2, <1>4, <1>8, <1>9 DEF Covers

LEMMA PostConsumeTx ==
    ASSUME TypeOK, NEW r \in Request, NEW d \in Int, NEW done \in {"record", "done"},
           NEW failed \in {"refund", "done"}, PostConsume(r, d, done, failed)
    PROVE  \E t : /\ Begin(r, t) /\ t.on = TRUE /\ IsTx(t) /\ Planned(t)
                  /\ Covered => Covers(t)
<1> DEFINE s == req[r].sub
           k == [row[s] EXCEPT !.used = NewUsed(s, d)]
           rows == [u \in {s} |-> [row[u] EXCEPT !.used = NewUsed(s, d)]]
           t == [on |-> TRUE, rows |-> rows, resets |-> {}, sub |-> s, charge |-> d,
                 done |-> done, failed |-> failed]
<1>1. Begin(r, t) /\ (Total[s] > 0 => NewUsed(s, d) <= Total[s])
  BY DEF PostConsume
<1>2. s \in Sub /\ row[s] \in RowType /\ row[s].used \in Nat
  BY DEF TypeOK, ReqType, RowType
<1>3. NewUsed(s, d) \in Nat /\ NewUsed(s, d) >= row[s].used + d
  BY <1>2 DEF NewUsed
<1>4. k \in RowType /\ k.used = NewUsed(s, d) /\ rows[s] = k /\ DOMAIN rows = {s}
  BY <1>2, <1>3 DEF RowType
<1>5. /\ t.on = TRUE /\ t.rows = rows /\ t.resets = {} /\ t.sub = s /\ t.charge = d
      /\ t.done = done /\ t.failed = failed
  OBVIOUS
<1>6. rows \in [{s} -> RowType]
  BY <1>4
<1> HIDE DEF t, rows, k, s
<1>7. IsTx(t) /\ Planned(t)
  BY <1>2, <1>4, <1>5, <1>6 DEF IsTx, Planned
<1>8. ASSUME Covered, NEW u \in Sub
      PROVE  /\ Recharged(t)[u] <= Saved(t)[u].used
             /\ Total[u] > 0 => Saved(t)[u].used <= Total[u]
  <2>1. /\ row[u].used \in Nat /\ charged[u] \in Int /\ Total[u] \in Nat
        /\ charged[u] <= row[u].used /\ (Total[u] > 0 => row[u].used <= Total[u])
    BY <1>8, ConstantsAssumption DEF Covered, TypeOK, RowType
  <2>2. Recharged(t)[u] = charged[u] + (IF u = s THEN d ELSE 0)
    BY <1>5 DEF Recharged
  <2>3. Saved(t)[u] = IF u = s THEN k ELSE row[u]
    BY <1>4, <1>5 DEF Saved
  <2> QED BY <1>1, <1>3, <1>4, <2>1, <2>2, <2>3
<1> QED BY <1>1, <1>5, <1>7, <1>8 DEF Covers

LEMMA ResetOneTx ==
    ASSUME TypeOK, NEW s \in Sub, ResetOne(s)
    PROVE  \E t : /\ Begin(Task, t) /\ t.on = TRUE /\ IsTx(t)
                  /\ Covered => Covers(t)
<1> DEFINE k == maybeReset(row[s], task.at)
           D == {u \in {s} : k # row[s]}
           resets == {u \in {s} : k.last # row[s].last}
           rows == [u \in D |-> k]
           t == [NoTx EXCEPT !.on = TRUE, !.sub = s, !.rows = rows, !.resets = resets]
<1>1. Begin(Task, t)
  BY DEF ResetOne
<1>2. row[s] \in RowType /\ task.at \in Nat
  BY DEF TypeOK, TaskType
<1>3. k \in RowType /\ k.used \in {0, row[s].used} /\ (k.last = row[s].last => k.used = row[s].used)
  BY <1>2, ResetRow
<1>4. /\ t.on = TRUE /\ t.rows = rows /\ t.resets = resets /\ t.sub = s /\ t.charge = 0
      /\ DOMAIN rows = D
  BY DEF NoTx
<1>5. rows \in [D -> RowType] /\ resets \subseteq D /\ D \subseteq {s}
  BY <1>3
<1> HIDE DEF t, k
<1>6. IsTx(t)
  <2> HIDE DEF rows, D, resets
  <2>1. D \subseteq Sub
    BY <1>5
  <2>2. t.on \in BOOLEAN
    BY <1>4, Zenon
  <2>3. t.sub \in Sub /\ t.charge \in Int
    BY <1>4
  <2>4. DOMAIN t.rows = D /\ t.rows \in [D -> RowType] /\ t.resets \subseteq D
    BY <1>4, <1>5
  <2>5. t.rows \in [DOMAIN t.rows -> RowType]
    BY <2>4
  <2> QED BY <2>1, <2>2, <2>3, <2>4, <2>5 DEF IsTx
<1>7. ASSUME Covered, NEW u \in Sub
      PROVE  /\ Recharged(t)[u] <= Saved(t)[u].used
             /\ Total[u] > 0 => Saved(t)[u].used <= Total[u]
  <2>1. /\ row[u].used \in Nat /\ charged[u] \in Int /\ Total[u] \in Nat
        /\ charged[u] <= row[u].used /\ (Total[u] > 0 => row[u].used <= Total[u])
    BY <1>7, ConstantsAssumption DEF Covered, TypeOK, RowType
  <2>2. Recharged(t)[u] = IF u \in resets THEN 0 ELSE charged[u]
    BY <1>4, <2>1 DEF Recharged
  <2>3. CASE u \in D
    BY <1>3, <1>4, <2>1, <2>2, <2>3 DEF Saved
  <2>4. CASE u \notin D
    BY <1>4, <1>5, <2>1, <2>2, <2>4 DEF Saved
  <2> QED BY <2>3, <2>4
<1> QED BY <1>1, <1>4, <1>6, <1>7 DEF Covers

-----------------------------------------------------------------------------
(* The steps.                                                              *)

(* What a step does to a transaction.                                      *)
LEMMA BeginTypes ==
    ASSUME TypesInv, NEW a \in Actor, NEW t, Begin(a, t), IsTx(t),
           a \in Request => Planned(t)
    PROVE  TypesInv'
<1>1. /\ tx' = [tx EXCEPT ![a] = t]
      /\ UNCHANGED <<locked, now, row, req, task, charged, faults>>
  BY DEF Begin
<1>2. DOMAIN tx' = Actor /\ \A b \in Actor : tx'[b] = IF b = a THEN t ELSE tx[b]
  BY <1>1 DEF TypesInv, TypeOK
<1>3. TypeOK'
  BY <1>1, <1>2 DEF TypesInv, TypeOK
<1>4. \A r \in Request : tx'[r].on => Planned(tx'[r])
  BY <1>2 DEF TypesInv, Actor
<1> QED BY <1>3, <1>4 DEF TypesInv

LEMMA NoTxType == IsTx(NoTx) /\ NoTx.on = FALSE
<1>1. AnySub \in Sub
  BY ConstantsAssumption DEF AnySub
<1>2. /\ NoTx.on = FALSE /\ NoTx.rows = NoRows /\ NoTx.resets = {} /\ NoTx.sub = AnySub
      /\ NoTx.charge = 0
  BY DEF NoTx
<1>3. DOMAIN NoRows = {} /\ NoRows \in [{} -> RowType]
  BY DEF NoRows
<1>4. NoTx.on \in BOOLEAN
  BY <1>2, Zenon
<1>5. NoTx.sub \in Sub /\ NoTx.charge \in Int
  BY <1>1, <1>2
<1>6. DOMAIN NoTx.rows = {} /\ NoTx.rows \in [{} -> RowType] /\ NoTx.resets = {}
  BY <1>2, <1>3
<1>7. NoTx.rows \in [DOMAIN NoTx.rows -> RowType]
  BY <1>6
<1> HIDE DEF NoTx
<1> QED BY <1>2, <1>4, <1>5, <1>6, <1>7 DEF IsTx

LEMMA EndTypes ==
    ASSUME TypesInv, NEW a \in Actor, tx' = [tx EXCEPT ![a] = NoTx]
    PROVE  /\ DOMAIN tx' = Actor /\ \A b \in Actor : IsTx(tx'[b])
           /\ \A r \in Request : tx'[r].on => Planned(tx'[r])
<1>1. DOMAIN tx' = Actor /\ \A b \in Actor : tx'[b] = IF b = a THEN NoTx ELSE tx[b]
  BY DEF TypesInv, TypeOK
<1> QED BY <1>1, NoTxType DEF TypesInv, TypeOK, Actor

LEMMA CommitTypes ==
    ASSUME TypesInv, NEW a \in Actor
    PROVE  Saved(tx[a]) \in [Sub -> RowType] /\ Recharged(tx[a]) \in [Sub -> Int]
<1>1. IsTx(tx[a]) /\ row \in [Sub -> RowType] /\ charged \in [Sub -> Int]
  BY DEF TypesInv, TypeOK
<1>2. Saved(tx[a]) \in [Sub -> RowType]
  BY <1>1 DEF Saved, IsTx
<1>3. Recharged(tx[a]) \in [Sub -> Int]
  BY <1>1 DEF Recharged, IsTx
<1> QED BY <1>2, <1>3

(* A request of which an attempt has failed.                               *)
LEMMA FailedRequestType ==
    ASSUME TypesInv, NEW r \in Request, NEW pc \in {"refund", "rejected", "done"},
           req' = [req EXCEPT ![r].pc = pc, ![r].tries = @ + 1]
    PROVE  req' \in [Request -> ReqType]
<1>1. req[r] \in ReqType /\ req \in [Request -> ReqType]
  BY DEF TypesInv, TypeOK
<1>2. req[r].tries + 1 \in Nat /\ pc \in {"idle", "consumed", "refund", "record", "rejected", "done"}
  BY <1>1 DEF ReqType
<1>3. PICK k \in Nat : k = req[r].tries + 1
  BY <1>2
<1>4. [[req[r] EXCEPT !.pc = pc] EXCEPT !.tries = k] \in ReqType
  BY <1>1, <1>2 DEF ReqType
<1>5. req' = [req EXCEPT ![r] = [[req[r] EXCEPT !.pc = pc] EXCEPT !.tries = k]]
  BY <1>1, <1>3 DEF ReqType
<1> QED BY <1>1, <1>4, <1>5

LEMMA InitTypes == Init => TypesInv
<1> SUFFICES ASSUME Init PROVE TypesInv
  OBVIOUS
<1>1. \A s \in Sub : NewRow(s) \in RowType
  <2> SUFFICES ASSUME NEW s \in Sub PROVE NewRow(s) \in RowType
    OBVIOUS
  <2>1. Start \in Nat /\ End[s] \in Nat
    BY ConstantsAssumption
  <2>2. calcNextResetTime(Start, End[s]) \in {ZeroTime} \cup Nat
    BY <2>1, NextResetType
  <2> QED BY <2>1, <2>2 DEF NewRow, RowType, Times
<1>2. row \in [Sub -> RowType]
  BY <1>1 DEF Init
<1>3. /\ now \in 0..MaxTime /\ faults \in 0..MaxFaults /\ charged \in [Sub -> Int]
      /\ locked \in BOOLEAN
  BY ConstantsAssumption DEF Init
<1>4. req \in [Request -> ReqType]
  <2>1. AnySub \in Sub
    BY ConstantsAssumption DEF AnySub
  <2> QED BY <2>1 DEF Init, ReqType
<1>5. task \in TaskType
  BY DEF Init, Idle, TaskType
<1>6. DOMAIN tx = Actor /\ \A a \in Actor : tx[a] = NoTx
  BY DEF Init
<1>7. \A r \in Request : r \in Actor
  BY DEF Actor
<1> QED BY <1>2, <1>3, <1>4, <1>5, <1>6, <1>7, NoTxType DEF TypesInv, TypeOK

LEMMA NextTypes == TypesInv /\ [Next]_vars => TypesInv'
<1> SUFFICES ASSUME TypesInv, [Next]_vars PROVE TypesInv'
  OBVIOUS
<1> USE DEF TypesInv
<1>1. CASE UNCHANGED vars
  BY <1>1 DEF vars, TypeOK
<1>2. ASSUME NEW r \in Request, RequestStep(r) PROVE TypesInv'
  <2>0. r \in Actor
    BY DEF Actor
  <2>1. ASSUME NEW n \in Amounts, PreConsumeUserSubscription(r, n) PROVE TypesInv'
    <3>1. PICK t : Begin(r, t) /\ t.on = TRUE /\ IsTx(t) /\ Planned(t)
      BY <2>1, PreConsumeTx
    <3> QED BY <2>0, <3>1, BeginTypes
  <2>2. ASSUME NEW n \in Amounts, PreConsumeRefused(r, n) PROVE TypesInv'
    BY <2>2 DEF PreConsumeRefused, TypeOK, ReqType
  <2>3. ASSUME NEW d \in Int, NEW done \in {"record", "done"}, NEW failed \in {"refund", "done"},
               PostConsume(r, d, done, failed)
        PROVE  TypesInv'
    <3>1. PICK t : Begin(r, t) /\ t.on = TRUE /\ IsTx(t) /\ Planned(t)
      BY <2>3, PostConsumeTx
    <3> QED BY <2>0, <3>1, BeginTypes
  <2>4. req[r].pre \in Nat
    BY DEF TypeOK, ReqType
  <2>5. ASSUME NEW n \in Amounts, Settle(r, n) PROVE TypesInv'
    <3>1. n - req[r].pre \in Int
      BY <2>4, ConstantsAssumption
    <3> QED BY <2>3, <2>5, <3>1 DEF Settle
  <2>6. ASSUME NEW n \in Amounts, SettleNothing(r, n) PROVE TypesInv'
    BY <2>6 DEF SettleNothing, TypeOK, ReqType
  <2>7. CASE Refund(r)
    <3>1. -req[r].pre \in Int /\ AfterFailure(r) \in {"refund", "done"}
      BY <2>4 DEF AfterFailure
    <3> QED BY <2>3, <2>7, <3>1 DEF Refund
  <2>8. CASE CommitRequest(r)
    <3> DEFINE t == tx[r]
    <3>1. IsTx(t) /\ Planned(t)
      BY <2>0, <2>8 DEF CommitRequest, TypeOK
    <3> DEFINE rq == [req[r] EXCEPT !.pc = t.done, !.sub = t.sub,
                       !.pre = IF t.done = "consumed" THEN t.charge ELSE req[r].pre]
    <3>2. rq \in ReqType
      <4>1. req[r] \in ReqType
        BY DEF TypeOK
      <4> QED BY <2>4, <3>1, <4>1 DEF IsTx, Planned, ReqType
    <3>3. /\ row' = Saved(t) /\ charged' = Recharged(t) /\ tx' = [tx EXCEPT ![r] = NoTx]
          /\ req' = [req EXCEPT ![r] = rq]
          /\ UNCHANGED <<locked, now, task, faults>>
      BY <2>8 DEF CommitRequest
    <3>4. row' \in [Sub -> RowType] /\ charged' \in [Sub -> Int]
      BY <2>0, <3>3, CommitTypes
    <3>5. req' \in [Request -> ReqType]
      <4> HIDE DEF rq
      <4> QED BY <3>2, <3>3 DEF TypeOK
    <3>6. /\ DOMAIN tx' = Actor /\ \A b \in Actor : IsTx(tx'[b])
          /\ \A q \in Request : tx'[q].on => Planned(tx'[q])
      BY <2>0, <3>3, EndTypes
    <3> QED BY <3>3, <3>4, <3>5, <3>6 DEF TypeOK
  <2>9. CASE FailRequest(r)
    <3>1. Planned(tx[r])
      BY <2>9 DEF FailRequest
    <3>2. /\ DOMAIN tx' = Actor /\ \A b \in Actor : IsTx(tx'[b])
          /\ \A q \in Request : tx'[q].on => Planned(tx'[q])
      BY <2>0, <2>9, EndTypes DEF FailRequest
    <3>3. req' \in [Request -> ReqType]
      BY <2>9, <3>1, FailedRequestType DEF FailRequest, Planned
    <3>4. faults' \in 0..MaxFaults
      BY <2>9, ConstantsAssumption DEF FailRequest, TypeOK
    <3> QED BY <2>9, <3>2, <3>3, <3>4 DEF FailRequest, TypeOK
  <2>10. CASE SaveRecord(r)
    <3>1. /\ DOMAIN tx' = Actor /\ \A b \in Actor : IsTx(tx'[b])
          /\ \A q \in Request : tx'[q].on => Planned(tx'[q])
          /\ UNCHANGED <<locked, now, row, task, tx, charged>>
      BY <2>10 DEF SaveRecord, TypeOK
    <3>2. faults' \in 0..MaxFaults
      BY <2>10, ConstantsAssumption DEF SaveRecord, TypeOK
    <3>3. CASE req' = [req EXCEPT ![r].pc = "done"]
      <4>1. req' \in [Request -> ReqType]
        BY <3>3 DEF TypeOK, ReqType
      <4> QED BY <3>1, <3>2, <4>1 DEF TypeOK
    <3>4. CASE req' = [req EXCEPT ![r].pc = AfterFailure(r), ![r].tries = @ + 1]
      <4>1. AfterFailure(r) \in {"refund", "rejected", "done"}
        BY DEF AfterFailure
      <4>2. req' \in [Request -> ReqType]
        BY <3>4, <4>1, FailedRequestType
      <4> QED BY <3>1, <3>2, <4>2 DEF TypeOK
    <3> QED BY <2>10, <3>3, <3>4 DEF SaveRecord
  <2> QED BY <1>2, <2>1, <2>2, <2>5, <2>6, <2>7, <2>8, <2>9, <2>10 DEF RequestStep
<1>3. CASE TaskStep
  <2>0. Task \in Actor /\ Task \notin Request
    BY ConstantsAssumption DEF Actor
  <2>1. CASE RunOnce \/ BatchDone
    BY <2>1 DEF RunOnce, BatchDone, TypeOK, TaskType, Idle
  <2>2. CASE ExpireDue
    <3>1. PICK B : row' = [s \in Sub |-> IF s \in B THEN [row[s] EXCEPT !.status = "expired"]
                                         ELSE row[s]]
      BY <2>2 DEF ExpireDue
    <3>2. row' \in [Sub -> RowType]
      <4>1. \A s \in Sub : row[s] \in RowType /\ [row[s] EXCEPT !.status = "expired"] \in RowType
        BY DEF TypeOK, RowType
      <4> QED BY <3>1, <4>1
    <3>3. task' \in TaskType
      BY <2>2 DEF ExpireDue, Idle, TaskType
    <3> QED BY <2>2, <3>2, <3>3 DEF ExpireDue, TypeOK
  <2>3. CASE SelectDue
    <3>1. PICK B \in SUBSET Sub : task' = [pc |-> "reset", list |-> B, at |-> now, count |-> 0]
      BY <2>3 DEF SelectDue, Batches
    <3>2. task' \in TaskType
      BY <3>1 DEF TaskType, TypeOK
    <3> QED BY <2>3, <3>2 DEF SelectDue, TypeOK
  <2>4. CASE CommitTask
    <3>1. row' \in [Sub -> RowType] /\ charged' \in [Sub -> Int]
      BY <2>0, <2>4, CommitTypes DEF CommitTask
    <3>2. /\ DOMAIN tx' = Actor /\ \A b \in Actor : IsTx(tx'[b])
          /\ \A q \in Request : tx'[q].on => Planned(tx'[q])
      BY <2>0, <2>4, EndTypes DEF CommitTask
    <3>3. task' \in TaskType
      <4>1. /\ task.pc \in {"idle", "expire", "update", "select", "reset"} /\ task.list \in SUBSET Sub
            /\ task.at \in Nat /\ task.count \in Nat /\ task.count + 1 \in Nat
            /\ task.list \ {tx[Task].sub} \in SUBSET Sub /\ task \in TaskType
        BY DEF TypeOK, TaskType
      <4>2. task' = [task EXCEPT !.list = task.list \ {tx[Task].sub}, !.count = task.count + 1]
        BY <2>4 DEF CommitTask
      <4>3. PICK l \in SUBSET Sub, c \in Nat : task' = [task EXCEPT !.list = l, !.count = c]
        BY <4>1, <4>2
      <4> QED BY <4>1, <4>3 DEF TaskType
    <3> QED BY <2>4, <3>1, <3>2, <3>3 DEF CommitTask, TypeOK
  <2>5. CASE FailTask
    <3>1. /\ DOMAIN tx' = Actor /\ \A b \in Actor : IsTx(tx'[b])
          /\ \A q \in Request : tx'[q].on => Planned(tx'[q])
      BY <2>0, <2>5, EndTypes DEF FailTask
    <3>2. task' \in TaskType /\ faults' \in 0..MaxFaults
      BY <2>5, ConstantsAssumption DEF FailTask, TypeOK, TaskType, Idle
    <3> QED BY <2>5, <3>1, <3>2 DEF FailTask, TypeOK
  <2>6. ASSUME NEW s \in Sub, ResetOne(s) PROVE TypesInv'
    <3>1. PICK t : Begin(Task, t) /\ t.on = TRUE /\ IsTx(t)
      BY <2>6, ResetOneTx
    <3> QED BY <2>0, <3>1, BeginTypes
  <2>7. ASSUME NEW s \in Sub, ResetGone(s) PROVE TypesInv'
    <3>1. task' \in TaskType
      BY <2>7 DEF ResetGone, TypeOK, TaskType
    <3>2. faults' \in 0..MaxFaults
      BY <2>7, ConstantsAssumption DEF ResetGone, TypeOK
    <3> QED BY <2>7, <3>1, <3>2 DEF ResetGone, TypeOK
  <2>8. CASE SelectExpired
    <3>1. PICK i \in Nat : i = now
      BY ConstantsAssumption DEF TypeOK
    <3>2. /\ [Idle EXCEPT !.pc = "update", !.at = i] \in TaskType
          /\ [Idle EXCEPT !.pc = "select"] \in TaskType
      BY DEF Idle, TaskType
    <3>3. task' \in {[Idle EXCEPT !.pc = "update", !.at = i], [Idle EXCEPT !.pc = "select"]}
      BY <2>8, <3>1 DEF SelectExpired
    <3>4. task' \in TaskType
      BY <3>2, <3>3
    <3> QED BY <2>8, <3>4 DEF SelectExpired, TypeOK
  <2>9. CASE TaskFails
    <3>1. task' \in TaskType /\ faults' \in 0..MaxFaults
      BY <2>9, ConstantsAssumption DEF TaskFails, Idle, TaskType, TypeOK
    <3> QED BY <2>9, <3>1 DEF TaskFails, TypeOK
  <2> QED BY <1>3, <2>1, <2>2, <2>3, <2>4, <2>5, <2>6, <2>7, <2>8, <2>9 DEF TaskStep
<1>4. ASSUME NEW s \in Sub, AdminInvalidateUserSubscription(s) PROVE TypesInv'
  <2>1. row' \in [Sub -> RowType]
    <3>1. row' = [row EXCEPT ![s] = [row[s] EXCEPT !.status = "cancelled", !.end = now]]
      BY <1>4 DEF AdminInvalidateUserSubscription, TypeOK
    <3>2. [row[s] EXCEPT !.status = "cancelled", !.end = now] \in RowType
      <4>1. row[s] \in RowType /\ now \in Nat
        BY ConstantsAssumption DEF TypeOK
      <4> QED BY <4>1 DEF RowType
    <3> QED BY <3>1, <3>2 DEF TypeOK
  <2> QED BY <1>4, <2>1 DEF AdminInvalidateUserSubscription, TypeOK
<1>5. CASE Tick
  BY <1>5, ConstantsAssumption DEF Tick, TypeOK
<1> QED BY <1>1, <1>2, <1>3, <1>4, <1>5 DEF Next

(* The state is well typed, whether or not transactions interleave: the    *)
(* used amount and what a request reserved never go below zero.            *)
THEOREM QuotaTypeCorrect == Spec => []TypeOK
<1>1. Spec => []TypesInv
  BY InitTypes, NextTypes, PTL DEF Spec
<1>2. TypesInv => TypeOK
  BY DEF TypesInv
<1> QED BY <1>1, <1>2, PTL

-----------------------------------------------------------------------------
(* Charges.  A transaction that is begun alone covers what will be charged *)
(* once it is committed, and until then nobody touches the used amounts.   *)

LEMMA BeginCovers ==
    ASSUME locked, CoverInv, TypeOK, NEW a \in Actor, NEW t, Begin(a, t), Covers(t)
    PROVE  CoverInv'
<1>1. tx' = [tx EXCEPT ![a] = t] /\ row' = row /\ charged' = charged /\ Alone
  BY DEF Begin, CanBegin, Alone
<1>2. \A b \in Actor : tx'[b].on => tx'[b] = t
  BY <1>1 DEF Alone, TypeOK
<1>3. Covered'
  BY <1>1 DEF CoverInv, OneTx, Covered
<1>4. Covers(t)'
  BY <1>1 DEF Covers, Recharged, Saved
<1>5. ASSUME NEW b \in Actor, tx'[b].on PROVE Covers(tx[b])'
  <2>1. tx[b]' = t
    BY <1>2, <1>5
  <2> QED BY <1>1, <2>1 DEF Covers, Recharged, Saved
<1>6. OneTx'
  <2>1. \A b \in Actor : b # a => ~tx'[b].on
    BY <1>1 DEF Alone, TypeOK
  <2> QED BY <2>1 DEF OneTx
<1> QED BY <1>3, <1>5, <1>6 DEF CoverInv

LEMMA EndCovers ==
    ASSUME TypeOK, CoverInv, NEW a \in Actor, tx[a].on, tx' = [tx EXCEPT ![a] = NoTx],
           \/ UNCHANGED <<row, charged>>
           \/ row' = Saved(tx[a]) /\ charged' = Recharged(tx[a])
    PROVE  CoverInv'
<1>1. \A b \in Actor : ~tx'[b].on
  <2>1. \A b \in Actor : tx'[b] = IF b = a THEN NoTx ELSE tx[b]
    BY DEF TypeOK
  <2>2. \A b \in Actor : b # a => ~tx[b].on
    BY DEF CoverInv, OneTx
  <2> QED BY <2>1, <2>2, NoTxType
<1>2. Covers(tx[a]) /\ Covered
  BY DEF CoverInv
<1>3. CASE UNCHANGED <<row, charged>>
  BY <1>1, <1>2, <1>3 DEF CoverInv, OneTx, Covered
<1>4. CASE row' = Saved(tx[a]) /\ charged' = Recharged(tx[a])
  <2>1. Covered'
    BY <1>2, <1>4 DEF Covers, Covered
  <2> QED BY <1>1, <2>1 DEF CoverInv, OneTx
<1> QED BY <1>3, <1>4

LEMMA InitCovers == Init => CoverInv
<1> SUFFICES ASSUME Init PROVE CoverInv
  OBVIOUS
<1>1. \A s \in Sub : charged[s] = 0 /\ row[s].used = 0
  BY DEF Init, NewRow
<1>2. Covered
  BY <1>1, ConstantsAssumption DEF Covered
<1>3. \A a \in Actor : tx[a].on = FALSE
  BY NoTxType DEF Init
<1> QED BY <1>2, <1>3 DEF CoverInv, OneTx

LEMMA NextCovers ==
    ASSUME locked, TypesInv, CoverInv, [Next]_vars
    PROVE  CoverInv'
<1>0. TypeOK /\ Covered
  BY DEF TypesInv, CoverInv
<1>1. ASSUME UNCHANGED <<row, tx, charged>> PROVE CoverInv'
  BY <1>1 DEF CoverInv, OneTx, Covered, Covers, Recharged, Saved
<1>2. ASSUME NEW r \in Request, RequestStep(r) PROVE CoverInv'
  <2>0. r \in Actor /\ req[r].pre \in Nat
    BY <1>0 DEF Actor, TypeOK, ReqType
  <2>1. ASSUME NEW n \in Amounts, PreConsumeUserSubscription(r, n) PROVE CoverInv'
    <3>1. PICK t : Begin(r, t) /\ Covers(t)
      BY <1>0, <2>1, PreConsumeTx
    <3> QED BY <1>0, <2>0, <3>1, BeginCovers
  <2>2. ASSUME NEW n \in Amounts, PreConsumeRefused(r, n) \/ SettleNothing(r, n) PROVE CoverInv'
    BY <1>1, <2>2 DEF PreConsumeRefused, SettleNothing
  <2>3. ASSUME NEW d \in Int, NEW done \in {"record", "done"}, NEW failed \in {"refund", "done"},
               PostConsume(r, d, done, failed)
        PROVE  CoverInv'
    <3>1. PICK t : Begin(r, t) /\ Covers(t)
      BY <1>0, <2>3, PostConsumeTx
    <3> QED BY <1>0, <2>0, <3>1, BeginCovers
  <2>4. ASSUME NEW n \in Amounts, Settle(r, n) PROVE CoverInv'
    <3>1. n - req[r].pre \in Int
      BY <2>0, ConstantsAssumption
    <3> QED BY <2>3, <2>4, <3>1 DEF Settle
  <2>5. CASE Refund(r)
    <3>1. -req[r].pre \in Int /\ AfterFailure(r) \in {"refund", "done"}
      BY <2>0 DEF AfterFailure
    <3> QED BY <2>3, <2>5, <3>1 DEF Refund
  <2>6. CASE CommitRequest(r)
    BY <1>0, <2>0, <2>6, EndCovers DEF CommitRequest
  <2>7. CASE FailRequest(r)
    BY <1>0, <2>0, <2>7, EndCovers DEF FailRequest
  <2>8. CASE SaveRecord(r)
    BY <1>1, <2>8 DEF SaveRecord
  <2> QED BY <1>2, <2>1, <2>2, <2>4, <2>5, <2>6, <2>7, <2>8 DEF RequestStep
<1>3. CASE TaskStep
  <2>0. Task \in Actor
    BY DEF Actor
  <2>1. CASE RunOnce \/ SelectExpired \/ SelectDue \/ BatchDone \/ TaskFails
    BY <1>1, <2>1 DEF RunOnce, SelectExpired, SelectDue, BatchDone, TaskFails
  <2>2. CASE ExpireDue
    <3>1. PICK B : row' = [s \in Sub |-> IF s \in B THEN [row[s] EXCEPT !.status = "expired"]
                                         ELSE row[s]]
      BY <2>2 DEF ExpireDue
    <3>2. Alone /\ tx' = tx /\ charged' = charged
      BY <2>2 DEF ExpireDue, NoReader, Alone
    <3>3. \A s \in Sub : row'[s].used = row[s].used
      BY <1>0, <3>1 DEF TypeOK, RowType
    <3> QED BY <1>0, <3>2, <3>3 DEF CoverInv, OneTx, Covered, Alone
  <2>3. CASE CommitTask
    BY <1>0, <2>0, <2>3, EndCovers DEF CommitTask
  <2>4. CASE FailTask
    BY <1>0, <2>0, <2>4, EndCovers DEF FailTask
  <2>5. ASSUME NEW s \in Sub, ResetOne(s) PROVE CoverInv'
    <3>1. PICK t : Begin(Task, t) /\ Covers(t)
      BY <1>0, <2>5, ResetOneTx
    <3> QED BY <1>0, <2>0, <3>1, BeginCovers
  <2>6. ASSUME NEW s \in Sub, ResetGone(s) PROVE CoverInv'
    BY <1>1, <2>6 DEF ResetGone
  <2> QED BY <1>3, <2>1, <2>2, <2>3, <2>4, <2>5, <2>6 DEF TaskStep
<1>4. ASSUME NEW s \in Sub, AdminInvalidateUserSubscription(s) PROVE CoverInv'
  <2>1. row' = [row EXCEPT ![s] = [row[s] EXCEPT !.status = "cancelled", !.end = now]]
    BY <1>0, <1>4 DEF AdminInvalidateUserSubscription, TypeOK
  <2>2. Alone /\ tx' = tx /\ charged' = charged
    BY <1>4 DEF AdminInvalidateUserSubscription, NoReader, Alone
  <2>3. \A u \in Sub : row'[u].used = row[u].used
    BY <1>0, <2>1 DEF TypeOK, RowType
  <2> QED BY <1>0, <2>2, <2>3 DEF CoverInv, OneTx, Covered, Alone
<1>5. CASE Tick \/ UNCHANGED vars
  BY <1>1, <1>5 DEF Tick, vars
<1> QED BY <1>2, <1>3, <1>4, <1>5 DEF Next

(* Where transactions do not interleave, what requests charge to a         *)
(* subscription between two resets is on its row and within its total:     *)
(* no reset, settlement or refund, in any order and however often a refund *)
(* is tried again, makes a charge vanish.                                  *)
THEOREM NothingForFree == Spec => []UsedCoversCharges
<1>1. Init => TypesInv /\ (locked => CoverInv)
  BY InitTypes, InitCovers
<1>2. ASSUME TypesInv, locked => CoverInv, [Next]_vars
      PROVE  TypesInv' /\ (locked' => CoverInv')
  <2>1. locked' = locked
    BY <1>2 DEF Next, vars, RequestStep, TaskStep, Tick, AdminInvalidateUserSubscription,
                PreConsumeUserSubscription, PreConsumeRefused, Settle, SettleNothing, PostConsume,
                Refund, SaveRecord, CommitRequest, FailRequest, Begin, RunOnce, SelectExpired,
                ExpireDue, SelectDue, ResetOne, ResetGone, CommitTask, FailTask, BatchDone, TaskFails
  <2> QED BY <1>2, <2>1, NextTypes, NextCovers
<1>3. TypesInv /\ (locked => CoverInv) => UsedCoversCharges
  BY DEF CoverInv, UsedCoversCharges
<1> QED BY <1>1, <1>2, <1>3, PTL DEF Spec
=============================================================================
