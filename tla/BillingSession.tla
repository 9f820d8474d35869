--------------------------- MODULE BillingSession ---------------------------
(***************************************************************************)
(* The billing session of one relay request (service/billing_session.go),  *)
(* for several requests of ONE user and ONE token that run at the same     *)
(* time.  Every request first takes an estimate of its price from the      *)
(* token and from a funding source (the wallet or a subscription), and is  *)
(* later settled against its real price or refunded.                       *)
(*                                                                         *)
(* One step is one database statement or transaction together with the     *)
(* in-memory assignments up to the next one: requests interleave at every  *)
(* statement.  A session's own calls are serialised by its mutex, so it is *)
(* one process, except for the goroutine that Refund starts, which runs    *)
(* beside the request's remaining work.  Redis and the batch updater are   *)
(* off (the configuration without REDIS_CONN_STRING), and the subscription *)
(* plan has no reset period.  A transaction on the subscription's row is   *)
(* one step: what interleaved transactions, resets and cancellations do to *)
(* that row is the subject of SubscriptionQuota.                           *)
(***************************************************************************)
EXTENDS Integers, FiniteSets

CONSTANTS
    Session,         \* the requests, each with its own request id
    InitQuota,       \* users.quota of the user before the first request
    InitRemain,      \* tokens.remain_quota of the token
    TokenUnlimited,  \* tokens.unlimited_quota
    TrustQuota,      \* common.GetTrustQuota()
    SubTotal,        \* user_subscriptions.amount_total, 0 for no limit
    SubActive,       \* whether the user starts with an active subscription
    Preferences,     \* the billing preferences the requests may carry
    PreQuotas,       \* the estimates a request may come with
    ActualQuotas,    \* the real prices a request may turn out to have
    ReserveTargets,  \* the targets Reserve may be called with
    Playground,      \* the values relayInfo.IsPlayground may have
    ForcePreConsume, \* the values relayInfo.ForcePreConsume may have
    FeeQuotas,       \* violation fees, 0 for a failure without one
    LateFailure,     \* whether a request may fail after it was settled
    MaxFaults,       \* bound: database errors
    MaxCrashes       \* bound: crashes of the server process

AllPreferences ==
    {"subscription_first", "wallet_first", "subscription_only", "wallet_only"}

ASSUME ConstantsAssumption ==
    /\ InitQuota \in Nat /\ InitRemain \in Nat /\ SubTotal \in Nat
    /\ TrustQuota \in Int
    /\ TokenUnlimited \in BOOLEAN /\ SubActive \in BOOLEAN
    /\ LateFailure \in BOOLEAN
    /\ Preferences \subseteq AllPreferences
    /\ PreQuotas \subseteq Nat /\ ActualQuotas \subseteq Nat
    /\ ReserveTargets \subseteq Nat /\ FeeQuotas \subseteq Nat
    /\ Playground \subseteq BOOLEAN /\ ForcePreConsume \subseteq BOOLEAN
    /\ MaxFaults \in Nat /\ MaxCrashes \in Nat

VARIABLES
    wallet,    \* users.quota
    remain,    \* tokens.remain_quota
    tokenOn,   \* tokens.status is enabled (FALSE: exhausted)
    subUsed,   \* user_subscriptions.amount_used
    subOn,     \* user_subscriptions.status is active and end_time is ahead
    record,    \* subscription_pre_consume_records.status of every request id
    sess,      \* the BillingSession and the locals of the code that drives it
    paid,      \* history: what every request has taken, net of what it gave back
    faults,    \* history: database errors so far
    crashes    \* history: crashes so far

vars == <<wallet, remain, tokenOn, subUsed, subOn, record, sess, paid,
          faults, crashes>>

\* Where the request is: "idle" has not arrived, "active" is with the upstream.
PC == {"idle", "checkSub", "tryWallet", "checkToken", "takeToken", "fund",
       "rollbackToken", "active", "reserveCheck", "reserveTake", "reserveUndo",
       "settleToken", "settled", "unsettled", "fee", "feeToken", "failed",
       "rejected", "crashed"}

\* Where the goroutine of Refund is.
RefundPC == {"none", "funding", "record", "extra", "token", "end",
             "lost"}

Codes == {"none", "insufficient", "update"}

SessionType ==
    [pc : PC, rpc : RefundPC, pref : AllPreferences, ask : Nat,
     playground : BOOLEAN, force : BOOLEAN, tokenQuota : Int,
     source : {"none", "wallet", "subscription"}, amount : Nat, code : Codes,
     pre : Nat, tokenConsumed : Nat, extra : Nat, consumed : Nat, subPre : Nat,
     trusted : BOOLEAN, fundingSettled : BOOLEAN, settled : BOOLEAN,
     refunded : BOOLEAN, actual : Nat, attempts : 0..3, fee : Nat]

Fresh ==
    [pc |-> "idle", rpc |-> "none", pref |-> "subscription_first", ask |-> 0,
     playground |-> FALSE, force |-> FALSE, tokenQuota |-> 0,
     source |-> "none", amount |-> 0, code |-> "none",
     pre |-> 0, tokenConsumed |-> 0, extra |-> 0, consumed |-> 0, subPre |-> 0,
     trusted |-> FALSE, fundingSettled |-> FALSE, settled |-> FALSE,
     refunded |-> FALSE, actual |-> 0, attempts |-> 0, fee |-> 0]

PaidType == [wallet : Int, token : Int, sub : Int]

TypeOK ==
    /\ wallet \in Int /\ remain \in Int /\ subUsed \in Int
    /\ tokenOn \in BOOLEAN /\ subOn \in BOOLEAN
    /\ record \in [Session -> {"none", "consumed", "refunded"}]
    /\ sess \in [Session -> SessionType]
    /\ paid \in [Session -> PaidType]
    /\ faults \in 0..MaxFaults /\ crashes \in 0..MaxCrashes

Init ==
    /\ wallet = InitQuota /\ remain = InitRemain /\ tokenOn = TRUE
    /\ subUsed = 0 /\ subOn = SubActive
    /\ record = [s \in Session |-> "none"]
    /\ sess = [s \in Session |-> Fresh]
    /\ paid = [s \in Session |-> [wallet |-> 0, token |-> 0, sub |-> 0]]
    /\ faults = 0 /\ crashes = 0

-----------------------------------------------------------------------------
(***************************************************************************)
(* The statements the session issues.  Each takes the signed amount that   *)
(* leaves the account and books it on the request.                         *)
(***************************************************************************)

\* A statement that succeeds, and one that returns a database error.
Ok == UNCHANGED <<faults, crashes>>
Fault == faults < MaxFaults /\ faults' = faults + 1 /\ UNCHANGED crashes

NoToken == UNCHANGED <<remain, tokenOn>>

\* Mutant: the update without "quota >= ?".
ChangeUserQuotaUnguarded(s, d) ==
    /\ wallet' = wallet - d
    /\ paid' = [paid EXCEPT ![s].wallet = @ + d]
    /\ UNCHANGED subUsed

\* decreaseUserQuota updates only a row with enough quota; increaseUserQuota is
\* unconditional.
ChangeUserQuota(s, d) ==
    /\ d > 0 => wallet >= d
    /\ wallet' = wallet - d
    /\ paid' = [paid EXCEPT ![s].wallet = @ + d]
    /\ UNCHANGED subUsed

\* decreaseTokenQuota and increaseTokenQuota have no guard: remain may go negative.
ChangeTokenQuota(s, d) ==
    /\ remain' = remain - d
    /\ paid' = [paid EXCEPT ![s].token = @ + d]
    /\ UNCHANGED tokenOn

Clamp(n) == IF n < 0 THEN 0 ELSE n

SubRoomFor(n) == SubTotal = 0 \/ Clamp(subUsed + n) <= SubTotal

\* Mutant: refuses to exceed the total by clamping to it.
PostConsumeUserSubscriptionDeltaCapped(s, d) ==
    /\ subUsed' = IF SubRoomFor(d) THEN Clamp(subUsed + d) ELSE SubTotal
    /\ paid' = [paid EXCEPT ![s].sub = @ + d]
    /\ UNCHANGED wallet

\* The transaction clamps at zero and refuses to exceed the total.
PostConsumeUserSubscriptionDelta(s, d) ==
    /\ SubRoomFor(d)
    /\ subUsed' = Clamp(subUsed + d)
    /\ paid' = [paid EXCEPT ![s].sub = @ + d]
    /\ UNCHANGED wallet

\* funding.Settle(delta), and the same statements in reserveFunding,
\* rollbackFundingReserve and PostConsumeQuota: a positive delta takes more.
FundingCanMove(s, d) ==
    IF sess[s].source = "subscription" THEN SubRoomFor(d) ELSE d > 0 => wallet >= d

FundingMove(s, d) ==
    IF sess[s].source = "subscription" THEN PostConsumeUserSubscriptionDelta(s, d)
    ELSE ChangeUserQuota(s, d)

-----------------------------------------------------------------------------
(***************************************************************************)
(* Arrival: token validation and NewBillingSession.                        *)
(***************************************************************************)

\* A request whose token is exhausted is refused, and the first such request
\* turns the token's status to exhausted for good (without Redis).
ValidateUserToken(s) ==
    /\ sess[s].pc = "idle"
    /\ ~tokenOn \/ (~TokenUnlimited /\ remain <= 0)
    /\ tokenOn' = FALSE
    /\ sess' = [sess EXCEPT ![s].pc = "rejected"]
    /\ Ok /\ UNCHANGED <<wallet, remain, subUsed, subOn, record, paid>>

\* trySubscription: a new session over the subscription, of at least 1.
SubscriptionSession(r) ==
    [r EXCEPT !.source = "subscription", !.code = "none", !.trusted = FALSE,
              !.amount = IF r.ask <= 0 THEN 1 ELSE r.ask, !.pc = "checkToken"]

\* The token passes ValidateUserToken, whose copy of remain_quota stays in the
\* request context (a playground request comes with an empty token instead), and
\* the billing preference picks the first funding source.
NewBillingSession(s, p, q, g, f) ==
    LET arrived == [Fresh EXCEPT !.pref = p, !.ask = q, !.playground = g,
                                 !.force = f,
                                 !.tokenQuota = IF g THEN 0 ELSE remain]
    IN  /\ sess[s].pc = "idle"
        /\ g \/ (tokenOn /\ (TokenUnlimited \/ remain > 0))
        /\ sess' = [sess EXCEPT ![s] =
             CASE p = "subscription_only" -> SubscriptionSession(arrived)
               [] p \in {"wallet_only", "wallet_first"} ->
                    [arrived EXCEPT !.pc = "tryWallet"]
               [] OTHER -> [arrived EXCEPT !.pc = "checkSub"]]
        /\ Ok
        /\ UNCHANGED <<wallet, remain, tokenOn, subUsed, subOn, record, paid>>

Reject(s) == sess' = [sess EXCEPT ![s].pc = "rejected"]

\* HasActiveUserSubscription for subscription_first.
HasActiveUserSubscription(s) ==
    /\ sess[s].pc = "checkSub"
    /\ \/ /\ Ok
          /\ sess' = [sess EXCEPT ![s] =
               IF subOn THEN SubscriptionSession(@)
               ELSE [@ EXCEPT !.pc = "tryWallet"]]
       \/ Fault /\ Reject(s)
    /\ UNCHANGED <<wallet, remain, tokenOn, subUsed, subOn, record, paid>>

\* The wallet's trust bypass, decided on the quota just read and on the
\* remaining token quota of the time of authentication.
ShouldTrust(r) ==
    /\ ~r.force
    /\ TrustQuota > 0
    /\ (TokenUnlimited /\ ~r.playground) \/ r.tokenQuota > TrustQuota
    /\ wallet > TrustQuota

\* tryWallet: a new session over the wallet, of nothing for a trusted user.
WalletSession(r, trusts) ==
    [r EXCEPT !.source = "wallet", !.code = "none", !.tokenConsumed = 0,
              !.trusted = trusts, !.amount = IF trusts THEN 0 ELSE r.ask,
              !.pc = IF trusts \/ r.ask = 0 THEN "fund" ELSE "checkToken"]

\* tryWallet reads the quota from the database.  Too little of it is the one
\* error of this path after which wallet_first turns to the subscription.
TryWallet(s) ==
    LET r == sess[s]
    IN  /\ r.pc = "tryWallet"
        /\ \/ /\ Ok
              /\ wallet > 0 /\ wallet >= r.ask
              /\ sess' = [sess EXCEPT ![s] = WalletSession(@, ShouldTrust(r))]
           \/ /\ Ok
              /\ ~(wallet > 0 /\ wallet >= r.ask)
              /\ IF r.pref = "wallet_first"
                 THEN sess' = [sess EXCEPT ![s] = SubscriptionSession(@)]
                 ELSE Reject(s)
           \/ Fault /\ Reject(s)
        /\ UNCHANGED <<wallet, remain, tokenOn, subUsed, subOn, record, paid>>

-----------------------------------------------------------------------------
(***************************************************************************)
(* preConsume: the token first, then the funding source.                   *)
(***************************************************************************)

\* The first half of PreConsumeTokenQuota reads the token and compares.  A
\* playground request has no token: its tokenConsumed is set all the same.
CheckToken(s) ==
    LET r == sess[s]
    IN  /\ r.pc = "checkToken"
        /\ \/ /\ Ok
              /\ IF r.playground
                 THEN sess' = [sess EXCEPT ![s] =
                        [@ EXCEPT !.tokenConsumed = r.amount, !.pc = "fund"]]
                 ELSE IF ~TokenUnlimited /\ remain < r.amount THEN Reject(s)
                 ELSE sess' = [sess EXCEPT ![s].pc = "takeToken"]
           \/ ~r.playground /\ Fault /\ Reject(s)
        /\ UNCHANGED <<wallet, remain, tokenOn, subUsed, subOn, record, paid>>

\* Its second half is an unconditional decrement.
TakeToken(s) ==
    LET r == sess[s]
    IN  /\ r.pc = "takeToken"
        /\ \/ /\ Ok
              /\ ChangeTokenQuota(s, r.amount)
              /\ sess' = [sess EXCEPT ![s] =
                   [@ EXCEPT !.tokenConsumed = r.amount, !.pc = "fund"]]
           \/ Fault /\ Reject(s) /\ NoToken /\ UNCHANGED paid
        /\ UNCHANGED <<wallet, subUsed, subOn, record>>

PreConsumed(r) == [r EXCEPT !.pre = r.amount, !.pc = "active"]

\* Every failure of funding.PreConsume goes through the token rollback.
FundingFailed(s, c) ==
    /\ sess' = [sess EXCEPT ![s] = [@ EXCEPT !.code = c, !.pc = "rollbackToken"]]
    /\ UNCHANGED <<wallet, subUsed, record, paid>>

\* WalletFunding.PreConsume: losing the guarded update is an UpdateDataError.
WalletPreConsume(s) ==
    LET r == sess[s]
    IN  /\ r.pc = "fund" /\ r.source = "wallet"
        /\ \/ /\ Ok
              /\ IF r.amount > 0 THEN ChangeUserQuota(s, r.amount)
                 ELSE UNCHANGED <<wallet, subUsed, paid>>
              /\ sess' = [sess EXCEPT ![s] =
                   [PreConsumed(@) EXCEPT !.consumed = r.amount]]
              /\ UNCHANGED record
           \/ r.amount > wallet /\ Ok /\ FundingFailed(s, "update")
           \/ r.amount > 0 /\ Fault /\ FundingFailed(s, "update")
        /\ UNCHANGED <<remain, tokenOn, subOn>>

\* SubscriptionFunding.PreConsume: one transaction that finds an active
\* subscription with room, books the amount and inserts the record of the
\* request id.  An error of the query for subscriptions reads as "no active
\* subscription" (insufficient), any other database error as an update error.
SubscriptionPreConsume(s) ==
    LET r == sess[s]
    IN  /\ r.pc = "fund" /\ r.source = "subscription"
        /\ \/ /\ Ok
              /\ subOn
              /\ PostConsumeUserSubscriptionDelta(s, r.amount)
              /\ record' = [record EXCEPT ![s] = "consumed"]
              /\ sess' = [sess EXCEPT ![s] =
                   [PreConsumed(@) EXCEPT !.subPre = r.amount]]
           \/ /\ ~(subOn /\ SubRoomFor(r.amount))
              /\ Ok /\ FundingFailed(s, "insufficient")
           \/ Fault /\ \E c \in {"insufficient", "update"} : FundingFailed(s, c)
        /\ UNCHANGED <<remain, tokenOn, subOn>>

\* Mutant: every preference falls back to the wallet.
RollbackTokenAlwaysFalls(s) ==
    LET r == sess[s]
    IN  /\ r.pc = "rollbackToken"
        /\ Ok
        /\ IF r.tokenConsumed > 0 /\ ~r.playground
           THEN ChangeTokenQuota(s, -r.tokenConsumed)
           ELSE NoToken /\ UNCHANGED paid
        /\ sess' = [sess EXCEPT ![s] =
             [@ EXCEPT !.tokenConsumed = 0,
                       !.pc = IF r.source = "subscription" THEN "tryWallet"
                              ELSE "rejected"]]
        /\ UNCHANGED <<wallet, subUsed, subOn, record>>

\* Mutant: the fallback starts over at the subscription.
RollbackTokenStartsOver(s) ==
    LET r == sess[s]
    IN  /\ r.pc = "rollbackToken"
        /\ Ok
        /\ IF r.tokenConsumed > 0 /\ ~r.playground
           THEN ChangeTokenQuota(s, -r.tokenConsumed)
           ELSE NoToken /\ UNCHANGED paid
        /\ sess' = [sess EXCEPT ![s] =
             [@ EXCEPT !.tokenConsumed = 0,
                       !.pc = IF r.pref = "subscription_first" THEN "checkSub"
                              ELSE "rejected"]]
        /\ UNCHANGED <<wallet, subUsed, subOn, record>>

\* The rollback of preConsume, after which subscription_first falls back to
\* the wallet if the subscription was insufficient.
RollbackToken(s) ==
    LET r == sess[s]
        falls == r.pref = "subscription_first" /\ r.source = "subscription"
                   /\ r.code = "insufficient"
        owes == r.tokenConsumed > 0 /\ ~r.playground
    IN  /\ r.pc = "rollbackToken"
        /\ \/ /\ Ok
              /\ IF owes THEN ChangeTokenQuota(s, -r.tokenConsumed)
                 ELSE NoToken /\ UNCHANGED paid
           \/ owes /\ Fault /\ NoToken /\ UNCHANGED paid
        /\ sess' = [sess EXCEPT ![s] =
             [@ EXCEPT !.tokenConsumed = 0,
                       !.pc = IF falls THEN "tryWallet" ELSE "rejected"]]
        /\ UNCHANGED <<wallet, subUsed, subOn, record>>

-----------------------------------------------------------------------------
(***************************************************************************)
(* Reserve: raise the reservation of an open session to a target.          *)
(***************************************************************************)

\* WalletFunding keeps count of what it took; the subscription's record does.
Holding(r, d) ==
    IF r.source = "wallet" THEN [r EXCEPT !.consumed = @ + d] ELSE r

\* Mutant: a lower target is not ignored.
ReserveAnyTarget(s, target) ==
    LET r == sess[s]
        delta == target - r.pre
    IN  /\ r.pc = "active" /\ ~r.trusted
        /\ Ok
        /\ FundingMove(s, delta)
        /\ sess' = [sess EXCEPT ![s] =
             [Holding(@, delta) EXCEPT !.amount = delta, !.pc = "reserveCheck"]]
        /\ UNCHANGED <<remain, tokenOn, subOn, record>>

\* The funding source first; an error leaves the session as it was.
Reserve(s, target) ==
    LET r == sess[s]
        delta == target - r.pre
    IN  /\ r.pc = "active" /\ ~r.trusted /\ delta > 0
        /\ Ok
        /\ FundingMove(s, delta)
        /\ sess' = [sess EXCEPT ![s] =
             [Holding(@, delta) EXCEPT !.amount = delta, !.pc = "reserveCheck"]]
        /\ UNCHANGED <<remain, tokenOn, subOn, record>>

Reserved(r) ==
    [r EXCEPT !.pre = @ + r.amount, !.tokenConsumed = @ + r.amount,
              !.extra = @ + r.amount, !.pc = "active"]

ReserveCheckToken(s) ==
    LET r == sess[s]
    IN  /\ r.pc = "reserveCheck"
        /\ \/ /\ Ok
              /\ sess' = [sess EXCEPT ![s] =
                   IF r.playground THEN Reserved(@)
                   ELSE IF ~TokenUnlimited /\ remain < r.amount
                   THEN [@ EXCEPT !.pc = "reserveUndo"]
                   ELSE [@ EXCEPT !.pc = "reserveTake"]]
           \/ /\ ~r.playground /\ Fault
              /\ sess' = [sess EXCEPT ![s].pc = "reserveUndo"]
        /\ UNCHANGED <<wallet, remain, tokenOn, subUsed, subOn, record, paid>>

ReserveTakeToken(s) ==
    LET r == sess[s]
    IN  /\ r.pc = "reserveTake"
        /\ \/ /\ Ok
              /\ ChangeTokenQuota(s, r.amount)
              /\ sess' = [sess EXCEPT ![s] = Reserved(@)]
           \/ /\ Fault /\ NoToken /\ UNCHANGED paid
              /\ sess' = [sess EXCEPT ![s].pc = "reserveUndo"]
        /\ UNCHANGED <<wallet, subUsed, subOn, record>>

\* rollbackFundingReserve: an error is only logged, and the wallet session then
\* keeps the amount in consumed, where Refund finds it.
RollbackFundingReserve(s) ==
    LET r == sess[s]
    IN  /\ r.pc = "reserveUndo"
        /\ \/ /\ Ok
              /\ FundingMove(s, -r.amount)
              /\ sess' = [sess EXCEPT ![s] =
                   [Holding(@, -r.amount) EXCEPT !.pc = "active"]]
           \/ /\ Fault /\ UNCHANGED <<wallet, subUsed, paid>>
              /\ sess' = [sess EXCEPT ![s].pc = "active"]
        /\ UNCHANGED <<remain, tokenOn, subOn, record>>

-----------------------------------------------------------------------------
(***************************************************************************)
(* Settle: the funding source, then the token.                             *)
(***************************************************************************)

\* Without a difference there is nothing to adjust; a funding source that
\* cannot give the difference leaves the session unsettled, which the caller
\* only logs (the answer has been sent).
Settle(s, actual) ==
    LET r == sess[s]
        delta == actual - r.pre
    IN  /\ r.pc = "active"
        /\ \/ /\ delta = 0 /\ Ok
              /\ sess' = [sess EXCEPT ![s] =
                   [@ EXCEPT !.actual = actual, !.settled = TRUE, !.pc = "settled"]]
              /\ UNCHANGED <<wallet, subUsed, paid>>
           \/ /\ delta # 0 /\ Ok
              /\ FundingMove(s, delta)
              /\ sess' = [sess EXCEPT ![s] =
                   [@ EXCEPT !.actual = actual, !.fundingSettled = TRUE,
                             !.pc = "settleToken"]]
           \/ /\ delta # 0
              /\ (Ok /\ ~FundingCanMove(s, delta)) \/ Fault
              /\ sess' = [sess EXCEPT ![s] =
                   [@ EXCEPT !.actual = actual, !.pc = "unsettled"]]
              /\ UNCHANGED <<wallet, subUsed, paid>>
        /\ UNCHANGED <<remain, tokenOn, subOn, record>>

\* Mutant: the token pays the whole price instead of the difference.
SettleTokenInFull(s) ==
    LET r == sess[s]
    IN  /\ r.pc = "settleToken"
        /\ Ok
        /\ IF r.playground THEN NoToken /\ UNCHANGED paid
           ELSE ChangeTokenQuota(s, r.actual)
        /\ sess' = [sess EXCEPT ![s] = [@ EXCEPT !.settled = TRUE, !.pc = "settled"]]
        /\ UNCHANGED <<wallet, subUsed, subOn, record>>

\* The token follows by the same difference; its error is logged, and the
\* session is settled all the same.
SettleToken(s) ==
    LET r == sess[s]
        delta == r.actual - r.pre
    IN  /\ r.pc = "settleToken"
        /\ \/ /\ Ok
              /\ IF r.playground THEN NoToken /\ UNCHANGED paid
                 ELSE ChangeTokenQuota(s, delta)
           \/ ~r.playground /\ Fault /\ NoToken /\ UNCHANGED paid
        /\ sess' = [sess EXCEPT ![s] = [@ EXCEPT !.settled = TRUE, !.pc = "settled"]]
        /\ UNCHANGED <<wallet, subUsed, subOn, record>>

-----------------------------------------------------------------------------
(***************************************************************************)
(* Refund, its goroutine, and the violation fee of a failed request.       *)
(***************************************************************************)

\* Mutant: a settled session is refunded as well.
NeedsRefundAlways(r) == ~r.refunded /\ (r.tokenConsumed > 0 \/ r.subPre > 0)

NeedsRefund(r) ==
    /\ ~(r.settled \/ r.refunded \/ r.fundingSettled)
    /\ r.tokenConsumed > 0 \/ r.subPre > 0

StartRefund(r) ==
    IF NeedsRefund(r) THEN [r EXCEPT !.refunded = TRUE, !.rpc = "funding"] ELSE r

\* The deferred function of Relay after an error: Refund starts its goroutine,
\* then the violation fee, if this error carries one, is charged beside it.
Refund(s, fee) ==
    LET r == sess[s]
    IN  /\ r.pc = "active" \/ (LateFailure /\ r.pc \in {"settled", "unsettled"})
        /\ sess' = [sess EXCEPT ![s] =
             [StartRefund(@) EXCEPT !.amount = fee,
                                    !.pc = IF fee > 0 THEN "fee" ELSE "failed"]]
        /\ Ok
        /\ UNCHANGED <<wallet, remain, tokenOn, subUsed, subOn, record, paid>>

\* Mutant: the wallet gets back the price instead of what was consumed.
WalletRefundActual(s) ==
    LET r == sess[s]
    IN  /\ r.rpc = "funding" /\ r.source = "wallet"
        /\ Ok /\ ChangeUserQuota(s, -r.actual)
        /\ sess' = [sess EXCEPT ![s].rpc = "token"]
        /\ UNCHANGED <<remain, tokenOn, subOn, record>>

\* WalletFunding.Refund is tried once.
WalletRefund(s) ==
    LET r == sess[s]
    IN  /\ r.rpc = "funding" /\ r.source = "wallet"
        /\ \/ /\ Ok
              /\ IF r.consumed > 0 THEN ChangeUserQuota(s, -r.consumed)
                 ELSE UNCHANGED <<wallet, subUsed, paid>>
           \/ r.consumed > 0 /\ Fault /\ UNCHANGED <<wallet, subUsed, paid>>
        /\ sess' = [sess EXCEPT ![s].rpc = "token"]
        /\ UNCHANGED <<remain, tokenOn, subOn, record>>

\* refundWithRetry: three attempts.
RefundAttemptFailed(s) ==
    sess' = [sess EXCEPT ![s] =
      [@ EXCEPT !.attempts = sess[s].attempts + 1,
                !.rpc = IF sess[s].attempts + 1 < 3 THEN "funding" ELSE "extra"]]

\* RefundSubscriptionPreConsume, first part: unless the record is already
\* refunded, PostConsumeUserSubscriptionDelta gives the amount back in a
\* transaction of its own, which commits at once.
SubscriptionRefund(s) ==
    LET r == sess[s]
    IN  /\ r.rpc = "funding" /\ r.source = "subscription"
        /\ \/ /\ Ok /\ record[s] = "refunded"
              /\ sess' = [sess EXCEPT ![s].rpc = "extra"]
              /\ UNCHANGED <<wallet, subUsed, paid>>
           \/ /\ Ok /\ record[s] = "consumed"
              /\ PostConsumeUserSubscriptionDelta(s, -r.subPre)
              /\ sess' = [sess EXCEPT ![s].rpc = "record"]
           \/ /\ Fault
              /\ RefundAttemptFailed(s)
              /\ UNCHANGED <<wallet, subUsed, paid>>
        /\ UNCHANGED <<remain, tokenOn, subOn, record>>

\* Second part: the outer transaction marks the record and commits.
SubscriptionRefundRecord(s) ==
    /\ sess[s].rpc = "record"
    /\ \/ /\ Ok
          /\ record' = [record EXCEPT ![s] = "refunded"]
          /\ sess' = [sess EXCEPT ![s].rpc = "extra"]
       \/ Fault /\ RefundAttemptFailed(s) /\ UNCHANGED record
    /\ UNCHANGED <<wallet, remain, tokenOn, subUsed, subOn, paid>>

\* What Reserve added is not on the record and is given back separately.
SubscriptionRefundExtra(s) ==
    LET r == sess[s]
    IN  /\ r.rpc = "extra"
        /\ \/ /\ Ok
              /\ IF r.extra > 0 THEN PostConsumeUserSubscriptionDelta(s, -r.extra)
                 ELSE UNCHANGED <<wallet, subUsed, paid>>
           \/ r.extra > 0 /\ Fault /\ UNCHANGED <<wallet, subUsed, paid>>
        /\ sess' = [sess EXCEPT ![s].rpc = "token"]
        /\ UNCHANGED <<remain, tokenOn, subOn, record>>

\* Mutant: the token of the request is forgotten.
RefundTokenSkipped(s) ==
    /\ sess[s].rpc = "token"
    /\ Ok
    /\ sess' = [sess EXCEPT ![s].rpc = "end"]
    /\ UNCHANGED <<wallet, remain, tokenOn, subUsed, subOn, record, paid>>

RefundToken(s) ==
    LET r == sess[s]
        owes == r.tokenConsumed > 0 /\ ~r.playground
    IN  /\ r.rpc = "token"
        /\ \/ /\ Ok
              /\ IF owes THEN ChangeTokenQuota(s, -r.tokenConsumed)
                 ELSE NoToken /\ UNCHANGED paid
           \/ owes /\ Fault /\ NoToken /\ UNCHANGED paid
        /\ sess' = [sess EXCEPT ![s].rpc = "end"]
        /\ UNCHANGED <<wallet, subUsed, subOn, record>>

\* ChargeViolationFeeIfNeeded through PostConsumeQuota: the funding source,
\* then the token.  An error ends it.
ChargeViolationFee(s) ==
    LET r == sess[s]
    IN  /\ r.pc = "fee"
        /\ \/ /\ Ok
              /\ FundingMove(s, r.amount)
              /\ sess' = [sess EXCEPT ![s] =
                   [@ EXCEPT !.fee = r.amount,
                             !.pc = IF r.playground THEN "failed" ELSE "feeToken"]]
           \/ /\ (Ok /\ ~FundingCanMove(s, r.amount)) \/ Fault
              /\ sess' = [sess EXCEPT ![s].pc = "failed"]
              /\ UNCHANGED <<wallet, subUsed, paid>>
        /\ UNCHANGED <<remain, tokenOn, subOn, record>>

ChargeViolationFeeToken(s) ==
    /\ sess[s].pc = "feeToken"
    /\ (Ok /\ ChangeTokenQuota(s, sess[s].fee)) \/ (Fault /\ NoToken /\ UNCHANGED paid)
    /\ sess' = [sess EXCEPT ![s].pc = "failed"]
    /\ UNCHANGED <<wallet, subUsed, subOn, record>>

-----------------------------------------------------------------------------
(***************************************************************************)
(* The environment: the subscription ends, the process crashes.            *)
(***************************************************************************)

\* The subscription expires or is invalidated by an administrator.
EndSubscription ==
    /\ subOn
    /\ subOn' = FALSE
    /\ Ok /\ UNCHANGED <<wallet, remain, tokenOn, subUsed, record, sess, paid>>

AtRest(s) ==
    /\ sess[s].pc \in {"settled", "unsettled", "failed", "rejected", "crashed"}
    /\ sess[s].rpc \in {"none", "end", "lost"}

\* Sessions and goroutines live in memory only: a crash ends those under way.
Crash ==
    /\ crashes < MaxCrashes
    /\ crashes' = crashes + 1
    /\ sess' = [s \in Session |->
         IF sess[s].pc = "idle" \/ AtRest(s) THEN sess[s]
         ELSE [sess[s] EXCEPT !.pc = "crashed",
                 !.rpc = IF @ \in {"none", "end"} THEN @ ELSE "lost"]]
    /\ UNCHANGED <<wallet, remain, tokenOn, subUsed, subOn, record, paid, faults>>

\* Nothing is left to do.
Done ==
    /\ \A s \in Session : AtRest(s)
    /\ UNCHANGED vars

Arrive(s) ==
    \/ ValidateUserToken(s)
    \/ \E p \in Preferences, q \in PreQuotas, g \in Playground, f \in ForcePreConsume :
         NewBillingSession(s, p, q, g, f)

\* The statements a request and its refund goroutine are committed to.
Advance(s) ==
    \/ HasActiveUserSubscription(s) \/ TryWallet(s)
    \/ CheckToken(s) \/ TakeToken(s)
    \/ WalletPreConsume(s) \/ SubscriptionPreConsume(s) \/ RollbackToken(s)
    \/ ReserveCheckToken(s) \/ ReserveTakeToken(s) \/ RollbackFundingReserve(s)
    \/ SettleToken(s)
    \/ ChargeViolationFee(s) \/ ChargeViolationFeeToken(s)

AdvanceRefund(s) ==
    \/ WalletRefund(s) \/ SubscriptionRefund(s) \/ SubscriptionRefundRecord(s)
    \/ SubscriptionRefundExtra(s) \/ RefundToken(s)

\* What the upstream's answer makes the handler call.
Answer(s) ==
    \/ \E a \in ActualQuotas : Settle(s, a)
    \/ \E fee \in FeeQuotas : Refund(s, fee)

Next ==
    \/ \E s \in Session :
         \/ Arrive(s) \/ Advance(s) \/ AdvanceRefund(s) \/ Answer(s)
         \/ \E t \in ReserveTargets : Reserve(s, t)
    \/ EndSubscription
    \/ Crash
    \/ Done

Spec == Init /\ [][Next]_vars

\* A goroutine that runs is scheduled again, and upstream calls end (by an
\* answer, an error or a timeout).
Fairness ==
    \A s \in Session :
        WF_vars(Advance(s)) /\ WF_vars(AdvanceRefund(s)) /\ WF_vars(Answer(s))

FairSpec == Spec /\ Fairness

-----------------------------------------------------------------------------
(***************************************************************************)
(* Properties.                                                             *)
(***************************************************************************)

FundingPaid(s) == paid[s].wallet + paid[s].sub

\* However requests interleave between reading the quota in tryWallet and the
\* guarded update of decreaseUserQuota, the wallet is never overdrawn.
WalletNeverNegative == wallet >= 0

\* Settle, the rollbacks and the refund goroutine never hand back more of the
\* wallet or of the token than the request took, whatever fails or crashes.
NeverOverRefunded ==
    \A s \in Session : paid[s].wallet >= 0 /\ paid[s].token >= 0

\* A request is charged to one funding source only, also after a fallback, and
\* the *_only preferences never touch the other one.
FundingFollowsPreference ==
    \A s \in Session :
        /\ paid[s].wallet = 0 \/ paid[s].sub = 0
        /\ sess[s].pref = "wallet_only" => paid[s].sub = 0
        /\ sess[s].pref = "subscription_only" => paid[s].wallet = 0

\* A settled request has paid its real price (and a fee charged later), from
\* the funding source and, unless a database error was logged, from the token.
SettledPaysActual ==
    \A s \in Session :
        LET r == sess[s]
        IN  r.settled /\ (ReserveTargets = {} \/ faults = 0) =>
              /\ FundingPaid(s) = r.actual + r.fee
              /\ faults = 0 /\ r.pc \notin {"feeToken", "crashed"} =>
                   paid[s].token = IF r.playground THEN 0 ELSE r.actual + r.fee

\* A request that fails costs nothing: one that NewBillingSession refuses has
\* taken nothing, not even along the fallback, and once the refund goroutine of
\* a failed one has ended without a database error or crash, it has paid
\* nothing but its fee, to funding source and token alike.
RefundReturnsAll ==
    \A s \in Session :
        LET r == sess[s]
            charged == IF r.pc = "rejected" THEN 0 ELSE r.fee
        IN  r.pc = "rejected" \/ (r.pc = "failed" /\ r.rpc = "end" /\ faults = 0) =>
              /\ FundingPaid(s) = charged
              /\ faults = 0 => paid[s].token = IF r.playground THEN 0 ELSE charged

\* The books of the subscription agree with what the requests took from it,
\* counted unit by unit: without a database error no refund is cut off by the
\* clamp at zero, counted twice or larger than what was taken.
SubscriptionUnits == UNION {{s} \X (1..paid[s].sub) : s \in Session}

SubscriptionBooksBalance ==
    faults = 0 =>
      /\ \A s \in Session : paid[s].sub >= 0
      /\ subUsed = Cardinality(SubscriptionUnits)

\* "RefundSubscriptionPreConsume is idempotent": refundWithRetry never gives the
\* subscription back more than the request took from it.
SubscriptionRefundIdempotent ==
    \A s \in Session : paid[s].sub >= 0

\* The fallback of wallet_first: a request is not refused for lack of wallet
\* quota while the subscription has not been tried.
WalletFirstFallsBack ==
    \A s \in Session :
        LET r == sess[s]
        IN  r.pref = "wallet_first" /\ r.pc = "rejected" /\ r.source = "wallet"
              => r.code = "none" \/ faults > 0

\* "charges an additional fee after the normal flow finishes (including
\* refund)": a fee has been charged only when the refund is over.
FeeAfterRefund ==
    \A s \in Session :
        sess[s].fee > 0 => sess[s].rpc \in {"none", "end", "lost"}

\* "This token quota is exhausted": when every request has ended, a token that
\* still has quota is not refused as exhausted.
ExhaustedMeansSpent ==
    (\A s \in Session : AtRest(s)) /\ remain > 0 => tokenOn

\* The wallet's side of the sessions keeps the promise of WalletLedger: whatever
\* interleaves, fails or crashes, a request is charged or released once, a
\* release returns exactly what was held, and no money appears or vanishes.
WalletPhase(r, p) ==
    IF r.settled \/ r.fundingSettled THEN "charged"
    ELSE IF r.refunded /\ (r.source = "wallet" => p.wallet = r.fee)
    THEN "released" ELSE "open"

WalletFee(r) == IF r.source = "wallet" THEN r.fee ELSE 0

Ledger == INSTANCE WalletLedger WITH
    Request <- Session,
    InitBalance <- InitQuota,
    balance <- wallet,
    held <- [s \in Session |-> paid[s].wallet - WalletFee(sess[s])],
    fees <- [s \in Session |-> WalletFee(sess[s])],
    phase <- [s \in Session |-> WalletPhase(sess[s], paid[s])]

ImplementsWalletLedger == Ledger!Spec

-----------------------------------------------------------------------------
(***************************************************************************)
(* The inductive invariant behind the safety theorems.  It is local to a   *)
(* request r and what it has paid, p.                                      *)
(***************************************************************************)

\* Before the funding source is charged.
EarlyPC == {"idle", "checkSub", "tryWallet", "checkToken", "takeToken", "fund",
            "rollbackToken", "rejected"}

ReservePC == {"reserveCheck", "reserveTake", "reserveUndo"}

\* The flags of the session follow the request's progress.
FlagsInv(r) ==
    /\ r.refunded <=> r.rpc # "none"
    /\ r.settled \/ r.fundingSettled => ~r.refunded
    /\ r.pc \in EarlyPC \cup ReservePC \cup {"active", "unsettled"} =>
         ~r.settled /\ ~r.fundingSettled /\ ~r.refunded
    /\ r.pc = "settleToken" => r.fundingSettled /\ ~r.settled
    /\ r.pc = "settled" => r.settled
    /\ r.pc \in EarlyPC \cup ReservePC
                  \cup {"active", "settleToken", "settled", "unsettled", "fee"}
         => r.fee = 0
    /\ r.pc \in EarlyPC => r.pre = 0 /\ r.consumed = 0
    /\ r.pc \in {"takeToken", "reserveTake", "feeToken"} => ~r.playground
    /\ r.pc \notin {"idle", "checkSub", "tryWallet", "rejected", "crashed"}
         => r.source # "none"
    /\ r.rpc # "none" => r.source # "none"
    /\ r.rpc \in {"record", "extra"} => r.source = "subscription"
    /\ r.rpc \in {"none", "funding", "record"} => r.attempts < 3

\* The wallet's books: the session knows what it took, and what it settled
\* from was at least its reservation.
WalletInv(r, p) ==
    /\ r.source # "wallet" => p.wallet = 0
    /\ r.source = "wallet" =>
         /\ r.consumed >= r.pre
         /\ r.pc \in ReservePC => r.consumed >= r.pre + r.amount
         /\ r.fundingSettled => p.wallet = r.consumed + r.actual - r.pre + r.fee
         /\ ~r.fundingSettled =>
              \/ p.wallet = r.consumed + r.fee
              \/ r.rpc \in {"token", "end", "lost"} /\ p.wallet = r.fee

\* The token's books: the session never believes it took more than it did.
TokenInv(r, p) ==
    /\ p.token >= 0
    /\ r.playground \/ r.pc = "idle" => p.token = 0
    /\ r.pc = "fund" => r.tokenConsumed = r.amount
    /\ r.pc \notin EarlyPC \cup {"crashed"} => r.tokenConsumed = r.pre
    /\ ~r.playground /\ ~r.settled /\ r.rpc \notin {"end", "lost"} =>
         p.token >= r.tokenConsumed

\* The subscription is charged only by a request that uses it.
SubscriptionInv(r, p) ==
    r.source # "subscription" \/ r.pc \in EarlyPC => p.sub = 0

\* The funding source is one the preference allows.
PreferenceInv(r) ==
    /\ r.source = "wallet" => r.pref # "subscription_only"
    /\ r.source = "subscription" => r.pref # "wallet_only"
    /\ r.pc = "tryWallet" => r.pref # "subscription_only"
    /\ r.pc = "checkSub" => r.pref = "subscription_first"

RequestInv(r, p) ==
    FlagsInv(r) /\ WalletInv(r, p) /\ TokenInv(r, p) /\ SubscriptionInv(r, p)
      /\ PreferenceInv(r)

\* The sessions' own fields account for every unit that left the wallet and for
\* no less of the token than they will give back, at every step of every
\* request.
BooksAgree ==
    /\ wallet >= 0
    /\ \A s \in Session : RequestInv(sess[s], paid[s])

-----------------------------------------------------------------------------

\* Every request that arrives ends, and so does its refund.
RequestsEnd ==
    \A s \in Session : sess[s].pc # "idle" ~> AtRest(s)

\* A failed request whose reservation is to be refunded gets it back.
RefundDelivered ==
    \A s \in Session :
        sess[s].refunded ~> (AtRest(s) /\ FundingPaid(s) = sess[s].fee)
=============================================================================
