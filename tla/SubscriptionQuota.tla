-------------------------- MODULE SubscriptionQuota --------------------------
(***************************************************************************)
(* The quota of one user's subscriptions: requests that reserve, settle    *)
(* and give back, the periodic reset, the maintenance task and the         *)
(* administrator (model/subscription.go, service/subscription_reset_task). *)
(*                                                                         *)
(* Every transaction reads rows, changes them in memory and saves them     *)
(* whole: an action named after the Go function reads and decides, Commit  *)
(* saves.  Where the database is locked they do not interleave (SQLite, or *)
(* FOR UPDATE in effect); elsewhere they do, as GORM v2 ignores            *)
(* "gorm:query_option".                                                    *)
(***************************************************************************)
EXTENDS Integers, FiniteSets, FiniteSetsExt

CONSTANTS
    Request, Sub,
    Task,        \* the maintenance goroutine
    Total,       \* AmountTotal of every subscription, 0 for unlimited
    Start,       \* when all of them were bought
    End,         \* EndTime of every subscription
    Rank,        \* ids of the subscriptions: how equal end times are ordered
    Period,      \* of the quota reset, 0 for never
    Aligned,     \* whether resets fall on multiples of Period (daily, weekly)
    Amounts,     \* what requests pre-consume and cost
    BatchSize,   \* subscriptionResetBatchSize
    LockModes,   \* the databases considered: TRUE where transactions do not interleave
    MaxTime,     \* bound: the clock
    MaxFaults    \* bound: database errors

ASSUME ConstantsAssumption ==
    /\ IsFiniteSet(Request) /\ IsFiniteSet(Sub) /\ Sub # {} /\ Task \notin Request
    /\ Total \in [Sub -> Nat] /\ End \in [Sub -> Nat] /\ Rank \in [Sub -> Nat]
    /\ \A s, u \in Sub : Rank[s] = Rank[u] => s = u
    /\ Start \in Nat /\ Period \in Nat /\ Aligned \in BOOLEAN /\ LockModes \subseteq BOOLEAN
    /\ Amounts \subseteq Nat \ {0} /\ BatchSize \in Nat \ {0}
    /\ MaxTime \in Nat /\ Start <= MaxTime /\ MaxFaults \in Nat

VARIABLES
    locked,  \* the database, which does not change
    now,     \* the clock
    row,     \* user_subscriptions
    req,     \* the requests
    task,    \* runSubscriptionQuotaResetOnce
    tx,      \* the transaction every goroutine is in, as what it will save
    charged, \* history: what requests charged to every row since its last reset
    faults   \* database errors so far

vars == <<locked, now, row, req, task, tx, charged, faults>>

Actor == Request \cup {Task}

Null == -2       \* a nil *time.Time
ZeroTime == -1   \* time.Time{}, before every other time

Times == {Null, ZeroTime} \cup Nat

RowType ==
    [used : Nat, last : Times, next : Times, end : Nat,
     status : {"active", "expired", "cancelled"}]

MaxAttempts == 3

\* tries are the failed attempts of refundWithRetry.
ReqType == [pc : {"idle", "consumed", "refund", "record", "rejected", "done"},
            sub : Sub, pre : Nat, tries : Nat]

TaskType ==
    [pc : {"idle", "expire", "update", "select", "reset"}, list : SUBSET Sub, at : Nat, count : Nat]

Idle == [pc |-> "idle", list |-> {}, at |-> 0, count |-> 0]

\* What is saved, which of it are resets, the charge of a request, and where the
\* goroutine goes on after a commit and after an error.
IsTx(t) ==
    /\ t.on \in BOOLEAN /\ t.sub \in Sub /\ t.charge \in Int
    /\ DOMAIN t.rows \subseteq Sub /\ t.rows \in [DOMAIN t.rows -> RowType]
    /\ t.resets \subseteq DOMAIN t.rows

NoRows == [s \in {} |-> 0]

AnySub == CHOOSE s \in Sub : TRUE

NoTx == [on |-> FALSE, rows |-> NoRows, resets |-> {}, sub |-> AnySub, charge |-> 0,
         done |-> "", failed |-> ""]

TypeOK ==
    /\ locked \in BOOLEAN /\ now \in 0..MaxTime
    /\ row \in [Sub -> RowType]
    /\ req \in [Request -> ReqType]
    /\ task \in TaskType
    /\ DOMAIN tx = Actor /\ \A a \in Actor : IsTx(tx[a])
    /\ charged \in [Sub -> Int] /\ faults \in 0..MaxFaults

-----------------------------------------------------------------------------
(***************************************************************************)
(* The reset.                                                              *)
(***************************************************************************)

\* The reset times after base, up to the end of the subscription.
ResetTimes(base, end) ==
    IF Period = 0 THEN {}
    ELSE {t \in (base + 1)..end : (IF Aligned THEN t ELSE t - base) % Period = 0}

calcNextResetTime(base, end) ==
    IF ResetTimes(base, end) = {} THEN ZeroTime ELSE Min(ResetTimes(base, end))

\* Mutant: the period in progress is not moved on.
maybeResetAgain(r, at) ==
    IF r.next > at \/ Period = 0 THEN r ELSE [r EXCEPT !.used = 0]

\* maybeResetUserSubscriptionWithPlanTx at a given time.
maybeReset(r, at) ==
    LET base == IF r.last = Null THEN Start ELSE r.last
        passed == {t \in ResetTimes(base, r.end) : t <= at}
        next == calcNextResetTime(base, r.end)
    IN  IF r.next > at \/ Period = 0 THEN r
        ELSE IF passed # {}
        THEN [r EXCEPT !.used = 0, !.last = Max(passed),
                       !.next = calcNextResetTime(Max(passed), r.end)]
        ELSE IF r.next = Null /\ next # ZeroTime
        THEN [r EXCEPT !.last = base, !.next = next]
        ELSE r

\* A subscription as CreateUserSubscriptionFromPlanTx inserts it.
NewRow(s) ==
    LET next == calcNextResetTime(Start, End[s])
    IN  [used |-> 0, end |-> End[s], status |-> "active",
         last |-> IF next = ZeroTime THEN Null ELSE Start,
         next |-> IF next = ZeroTime THEN Null ELSE next]

Init ==
    /\ locked \in LockModes /\ now = Start
    /\ row = [s \in Sub |-> NewRow(s)]
    /\ req = [r \in Request |-> [pc |-> "idle", sub |-> AnySub, pre |-> 0, tries |-> 0]]
    /\ task = Idle
    /\ tx = [a \in Actor |-> NoTx]
    /\ charged = [s \in Sub |-> 0] /\ faults = 0

-----------------------------------------------------------------------------
(***************************************************************************)
(* Transactions.                                                           *)
(***************************************************************************)

CanBegin(a) == ~tx[a].on /\ (locked => \A b \in Actor : ~tx[b].on)

Begin(a, t) ==
    /\ CanBegin(a)
    /\ tx' = [tx EXCEPT ![a] = t]
    /\ UNCHANGED <<locked, now, row, req, task, charged, faults>>

\* The active subscriptions in the order in which they are tried.
Active == {s \in Sub : row[s].status = "active" /\ row[s].end > now}

Before(s, u) == row[s].end < row[u].end \/ (row[s].end = row[u].end /\ Rank[s] < Rank[u])

HasRoom(s, n) == Total[s] = 0 \/ Total[s] - maybeReset(row[s], now).used >= n

\* PreConsumeUserSubscription: the first active subscription with room, after
\* the reset it may be due; the ones passed over keep theirs.
PreConsumeUserSubscription(r, n) ==
    /\ req[r].pc = "idle"
    /\ \E s \in {u \in Active : HasRoom(u, n)} :
        LET tried == {u \in Active : u = s \/ Before(u, s)}
            fresh == [u \in tried |-> maybeReset(row[u], now)]
        IN  /\ \A u \in tried \ {s} : ~HasRoom(u, n)
            /\ Begin(r, [on |-> TRUE,
                         rows |-> [u \in {u \in tried : u = s \/ fresh[u] # row[u]} |->
                                     IF u = s THEN [fresh[u] EXCEPT !.used = @ + n]
                                     ELSE fresh[u]],
                         resets |-> {u \in tried : fresh[u].last # row[u].last},
                         sub |-> s, charge |-> n, done |-> "consumed", failed |-> "rejected"])

\* No active subscription has room: nothing is saved.
PreConsumeRefused(r, n) ==
    /\ req[r].pc = "idle" /\ CanBegin(r)
    /\ \A s \in Active : ~HasRoom(s, n)
    /\ req' = [req EXCEPT ![r].pc = "rejected"]
    /\ UNCHANGED <<locked, now, row, task, tx, charged, faults>>

\* Mutant: not clamped at zero.
NewUsedUnclamped(s, d) == row[s].used + d

NewUsed(s, d) == IF row[s].used + d < 0 THEN 0 ELSE row[s].used + d

\* PostConsumeUserSubscriptionDelta, and where the request goes on.
PostConsume(r, d, done, failed) ==
    LET s == req[r].sub
    IN  /\ Total[s] > 0 => NewUsed(s, d) <= Total[s]
        /\ Begin(r, [on |-> TRUE, rows |-> [u \in {s} |-> [row[u] EXCEPT !.used = NewUsed(s, d)]],
                     resets |-> {}, sub |-> s, charge |-> d, done |-> done, failed |-> failed])

\* SubscriptionFunding.Settle with the difference to the actual cost.
Settle(r, actual) ==
    /\ req[r].pc = "consumed" /\ actual # req[r].pre
    /\ PostConsume(r, actual - req[r].pre, "done", "done")

\* Nothing to settle, or no room for the rest: the settlement fails.
SettleNothing(r, actual) ==
    LET s == req[r].sub
        d == actual - req[r].pre
    IN  /\ req[r].pc = "consumed" /\ CanBegin(r)
        /\ d = 0 \/ (Total[s] > 0 /\ NewUsed(s, d) > Total[s])
        /\ req' = [req EXCEPT ![r].pc = "done"]
        /\ UNCHANGED <<locked, now, row, task, tx, charged, faults>>

\* After another failed attempt refundWithRetry goes on or gives up.
AfterFailure(r) == IF req[r].tries + 1 < MaxAttempts THEN "refund" ELSE "done"

\* RefundSubscriptionPreConsume gives the amount back, in a transaction of its
\* own ...
Refund(r) ==
    /\ req[r].pc \in {"consumed", "refund"}
    /\ PostConsume(r, -req[r].pre, "record", AfterFailure(r))

\* ... and then saves the pre-consume record as refunded.  When that fails the
\* next attempt finds it consumed and gives the amount back again.
SaveRecord(r) ==
    /\ req[r].pc = "record"
    /\ \/ req' = [req EXCEPT ![r].pc = "done"] /\ UNCHANGED faults
       \/ /\ faults < MaxFaults /\ faults' = faults + 1
          /\ req' = [req EXCEPT ![r].pc = AfterFailure(r), ![r].tries = @ + 1]
    /\ UNCHANGED <<locked, now, row, task, tx, charged>>

\* tx.Save writes every column of the rows it was given.
Saved(t) == [s \in Sub |-> IF s \in DOMAIN t.rows THEN t.rows[s] ELSE row[s]]

\* A reset starts the count over; it goes below zero when a request gives back
\* what it took before the reset.
Recharged(t) ==
    [s \in Sub |-> (IF s \in t.resets THEN 0 ELSE charged[s])
                     + (IF s = t.sub THEN t.charge ELSE 0)]

CommitRequest(r) ==
    LET t == tx[r]
    IN  /\ t.on
        /\ row' = Saved(t)
        /\ charged' = Recharged(t)
        /\ req' = [req EXCEPT ![r] =
                     [@ EXCEPT !.pc = t.done, !.sub = t.sub,
                               !.pre = IF t.done = "consumed" THEN t.charge ELSE req[r].pre]]
        /\ tx' = [tx EXCEPT ![r] = NoTx]
        /\ UNCHANGED <<locked, now, task, faults>>

FailRequest(r) ==
    /\ tx[r].on /\ faults < MaxFaults
    /\ faults' = faults + 1
    /\ req' = [req EXCEPT ![r].pc = tx[r].failed, ![r].tries = @ + 1]
    /\ tx' = [tx EXCEPT ![r] = NoTx]
    /\ UNCHANGED <<locked, now, row, task, charged>>

-----------------------------------------------------------------------------
(***************************************************************************)
(* The maintenance task and the administrator.                             *)
(***************************************************************************)

NoReader == locked => \A a \in Actor : ~tx[a].on

\* The first of a set of rows, by a column, as ORDER BY and LIMIT select them.
Batches(S, key(_)) ==
    {B \in SUBSET S :
        /\ Cardinality(B) = Min({BatchSize, Cardinality(S)})
        /\ \A b \in B, c \in S \ B : key(b) <= key(c)}

\* runSubscriptionQuotaResetOnce, every minute.
RunOnce ==
    /\ task.pc = "idle"
    /\ task' = [Idle EXCEPT !.pc = "expire"]
    /\ UNCHANGED <<locked, now, row, req, tx, charged, faults>>

\* A query or an update of the task fails: its run is over.
TaskFails ==
    /\ faults < MaxFaults /\ faults' = faults + 1
    /\ task' = Idle
    /\ UNCHANGED <<locked, now, row, req, tx, charged>>

\* Mutant: a subscription at its end time is not due yet.
ExpiryPast(s, at) == row[s].status = "active" /\ row[s].end < at

ExpiryDue(s, at) == row[s].status = "active" /\ row[s].end <= at

\* ExpireDueSubscriptions selects what is due ...
SelectExpired ==
    /\ task.pc = "expire"
    /\ task' = IF \E s \in Sub : ExpiryDue(s, now)
               THEN [Idle EXCEPT !.pc = "update", !.at = now] ELSE [Idle EXCEPT !.pc = "select"]
    /\ UNCHANGED <<locked, now, row, req, tx, charged, faults>>

\* ... and expires all that is due of the users it found, until that is less
\* than a batch.
ExpireDue ==
    LET due == {s \in Sub : ExpiryDue(s, task.at)}
    IN  /\ task.pc = "update" /\ NoReader
        /\ row' = [s \in Sub |-> IF s \in due THEN [row[s] EXCEPT !.status = "expired"]
                                 ELSE row[s]]
        /\ task' = [Idle EXCEPT !.pc = IF Cardinality(due) < BatchSize THEN "select" ELSE "expire"]
        /\ UNCHANGED <<locked, now, req, tx, charged, faults>>

ResetDue(s) == row[s].status = "active" /\ row[s].next # Null /\ row[s].next <= now

\* ResetDueSubscriptions reads a batch of what is due.
SelectDue ==
    /\ task.pc = "select"
    /\ \E B \in Batches({s \in Sub : ResetDue(s)}, LAMBDA s : row[s].next) :
         task' = [pc |-> "reset", list |-> B, at |-> now, count |-> 0]
    /\ UNCHANGED <<locked, now, row, req, tx, charged, faults>>

\* Each row of the batch is read again and reset.
ResetOne(s) ==
    LET fresh == maybeReset(row[s], task.at)
    IN  /\ task.pc = "reset" /\ s \in task.list
        /\ row[s].next # Null /\ row[s].next <= task.at
        /\ Begin(Task, [NoTx EXCEPT !.on = TRUE, !.sub = s,
                          !.rows = [u \in {u \in {s} : fresh # row[s]} |-> fresh],
                          !.resets = {u \in {s} : fresh.last # row[s].last}])

\* A row that somebody has reset meanwhile, that cannot be read or whose plan
\* cannot is passed over and not counted.
ResetGone(s) ==
    /\ task.pc = "reset" /\ s \in task.list /\ CanBegin(Task)
    /\ \/ (row[s].next = Null \/ row[s].next > task.at) /\ UNCHANGED faults
       \/ faults < MaxFaults /\ faults' = faults + 1
    /\ task' = [task EXCEPT !.list = @ \ {s}]
    /\ UNCHANGED <<locked, now, row, req, tx, charged>>

CommitTask ==
    /\ tx[Task].on
    /\ row' = Saved(tx[Task])
    /\ charged' = Recharged(tx[Task])
    /\ task' = [task EXCEPT !.list = @ \ {tx[Task].sub}, !.count = @ + 1]
    /\ tx' = [tx EXCEPT ![Task] = NoTx]
    /\ UNCHANGED <<locked, now, req, faults>>

\* An error ends the run of the task.
FailTask ==
    /\ tx[Task].on /\ faults < MaxFaults
    /\ faults' = faults + 1
    /\ task' = Idle
    /\ tx' = [tx EXCEPT ![Task] = NoTx]
    /\ UNCHANGED <<locked, now, row, req, charged>>

\* Mutant: another batch is read whatever the count.
BatchDoneAgain ==
    /\ task.pc = "reset" /\ task.list = {} /\ ~tx[Task].on
    /\ task' = [Idle EXCEPT !.pc = "select"]
    /\ UNCHANGED <<locked, now, row, req, tx, charged, faults>>

\* A full batch is followed by another one.
BatchDone ==
    /\ task.pc = "reset" /\ task.list = {} /\ ~tx[Task].on
    /\ task' = [Idle EXCEPT !.pc = IF task.count < BatchSize THEN "idle" ELSE "select"]
    /\ UNCHANGED <<locked, now, row, req, tx, charged, faults>>

\* AdminInvalidateUserSubscription updates two columns.
AdminInvalidateUserSubscription(s) ==
    /\ NoReader
    /\ row' = [row EXCEPT ![s].status = "cancelled", ![s].end = now]
    /\ UNCHANGED <<locked, now, req, task, tx, charged, faults>>

Tick ==
    /\ now < MaxTime
    /\ now' = now + 1
    /\ UNCHANGED <<locked, row, req, task, tx, charged, faults>>

RequestStep(r) ==
    \/ \E n \in Amounts : PreConsumeUserSubscription(r, n) \/ PreConsumeRefused(r, n)
    \/ \E n \in Amounts : Settle(r, n) \/ SettleNothing(r, n)
    \/ Refund(r) \/ SaveRecord(r) \/ CommitRequest(r) \/ FailRequest(r)

TaskStep ==
    \/ RunOnce \/ SelectExpired \/ ExpireDue \/ SelectDue \/ CommitTask \/ FailTask \/ BatchDone
    \/ task.pc \in {"expire", "update", "select"} /\ TaskFails
    \/ \E s \in Sub : ResetOne(s) \/ ResetGone(s)

Next ==
    \/ \E r \in Request : RequestStep(r)
    \/ TaskStep
    \/ \E s \in Sub : AdminInvalidateUserSubscription(s)
    \/ Tick

Spec == Init /\ [][Next]_vars

\* The task's goroutine and its ticker keep running, and so do transactions.
FairSpec ==
    /\ Spec /\ WF_vars(TaskStep)
    /\ \A r \in Request : WF_vars(CommitRequest(r) \/ FailRequest(r))

-----------------------------------------------------------------------------
(***************************************************************************)
(* Properties.                                                             *)
(***************************************************************************)

\* amount_used is at least what the requests have charged and at most the total.
Covered ==
    \A s \in Sub :
        /\ charged[s] <= row[s].used
        /\ Total[s] > 0 => row[s].used <= Total[s]

\* Where transactions do not interleave, nothing is consumed for free between two
\* resets, whatever the order of resets, retried refunds and settlements.
UsedCoversCharges == locked => Covered

\* A reset that leaves no other before the end writes the zero time, and such a
\* row stays due: with a whole batch of them ResetDueSubscriptions counts a
\* full batch for ever, and the run of the task does not end.
Stuck == Cardinality({s \in Sub : ResetDue(s) /\ row[s].next = ZeroTime}) >= BatchSize

\* A run of the maintenance task comes to its end, after any number of full
\* batches and unless it is stuck.
MaintenanceEnds == []<>(task.pc = "idle" \/ Stuck)

\* "ResetDueSubscriptions resets subscriptions whose next_reset_time has passed",
\* unless it is stuck.
DueIsReset ==
    \A s \in Sub :
        (ResetDue(s) /\ row[s].next # ZeroTime) ~> ~(ResetDue(s) /\ row[s].next # ZeroTime) \/ Stuck

\* A transaction that read a row before it was cancelled or expired may save it
\* as active again, on a database that interleaves them; but the task expires
\* it anew, and in the end no subscription outlives its end time.
ExpiresForGood ==
    \/ <>[](\A s \in Sub : row[s].end <= now => row[s].status # "active")
    \/ []<>Stuck

\* Not checked, and false where transactions interleave: what has ended stays so.
EndedStaysEnded ==
    [][\A s \in Sub : row[s].status # "active" => row'[s].status # "active"]_vars
=============================================================================
