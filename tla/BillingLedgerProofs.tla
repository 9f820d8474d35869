------------------------ MODULE BillingLedgerProofs ------------------------
(***************************************************************************)
(* The billing session keeps the promise of WalletLedger, a settled        *)
(* request has paid its price and a failed one its fee.  As in             *)
(* BillingSessionProofs every statement is first a fact about the request  *)
(* that issues it, which is then lifted to the state.                      *)
(***************************************************************************)
EXTENDS BillingSessionProofs, FiniteSetTheorems

\* Whether no error can have left a reservation half undone.
Clean(f) == ReserveTargets = {} \/ f = 0

\* What Reserve has taken and not yet booked.
Pending(r) == IF r.pc \in ReservePC THEN r.amount ELSE 0

\* The session's fields still describe what it took.
Live(r) == r.pc # "crashed" \/ r.settled \/ r.fundingSettled

\* The funding source was charged the reservation, or the price once settled.
FundingExact(r, p, f) ==
    /\ r.pc \in ReservePC => ReserveTargets # {}
    /\ r.settled => r.source # "none"
    /\ r.pc \in EarlyPC => r.extra = 0
    /\ Clean(f) =>
         /\ r.settled /\ ~r.fundingSettled => r.actual = r.pre
         /\ Live(r) /\ r.source = "wallet" => r.consumed = r.pre + Pending(r)
         /\ Live(r) /\ r.source = "subscription" /\ r.pc \notin EarlyPC /\ ~r.refunded =>
              p.sub = (IF r.fundingSettled THEN r.actual ELSE r.pre + Pending(r)) + r.fee

\* Without errors and crashes the refund gives back each part once; c is the
\* record of the request id.
RefundExact(r, p, c, f) ==
    f = 0 =>
      /\ r.source = "subscription" /\ r.pc \in ReservePC \cup {"active", "unsettled"} =>
           c = "consumed" /\ r.pre = r.subPre + r.extra
      /\ r.pc # "crashed" /\ r.source = "wallet" /\ r.rpc \in {"token", "end"} =>
           p.wallet = r.fee
      /\ r.pc # "crashed" /\ r.source = "subscription" =>
           /\ r.rpc = "funding" => c = "consumed" /\ p.sub = r.subPre + r.extra + r.fee
           /\ r.rpc \in {"record", "extra"} => p.sub = r.extra + r.fee
           /\ r.rpc \in {"token", "end"} => p.sub = r.fee

\* What a request that may be settled or failing owes the token.
TokenOwed(r) ==
    IF r.settled THEN r.actual ELSE IF r.rpc = "end" THEN 0 ELSE r.tokenConsumed

\* Without errors and crashes the token was charged what the session believes.
TokenExact(r, p, f) ==
    f = 0 /\ ~r.playground =>
      /\ r.pc \in {"idle", "checkSub", "tryWallet", "checkToken", "takeToken", "rejected"} =>
           p.token = 0 /\ r.tokenConsumed = 0
      /\ r.pc \in {"fund", "rollbackToken"} => p.token = r.tokenConsumed
      /\ r.pc \in ReservePC \cup {"active", "unsettled", "settleToken"} => p.token = r.pre
      /\ r.pc \in {"settled", "fee", "feeToken"} => p.token = TokenOwed(r)
      /\ r.pc = "failed" => p.token = TokenOwed(r) + r.fee

\* Without errors no request gives the subscription back more than it took.
SubscriptionExact(r, p, f) ==
    /\ r.pc = "crashed" => r.rpc \in {"none", "end", "lost"}
    /\ f = 0 => p.sub >= 0

Exact(r, p, c, f) ==
    /\ FundingExact(r, p, f) /\ RefundExact(r, p, c, f)
    /\ TokenExact(r, p, f) /\ SubscriptionExact(r, p, f)

ExactInv == \A s \in Session : Exact(sess[s], paid[s], record[s], faults)

-----------------------------------------------------------------------------
(* What a statement does to the books of the request that issues it.        *)

\* p becomes pp by what leaves the wallet, the token and the subscription.
Paid(p, pp, dw, dt, ds) ==
    /\ pp \in PaidType
    /\ pp.wallet = p.wallet + dw /\ pp.token = p.token + dt /\ pp.sub = p.sub + ds

\* The request's funding source gives d, with w becoming ww in the wallet.
Funded(r, p, w, pp, ww, d) ==
    IF r.source = "subscription" THEN Paid(p, pp, 0, 0, d) /\ ww = w
    ELSE Paid(p, pp, d, 0, 0) /\ ww = w - d /\ ww >= 0

\* One request's part of a step of WalletLedger: nothing, Hold or Charge,
\* Release, Fee.
Booked(r, p, w, rr, pp, ww) ==
    LET h == p.wallet - WalletFee(r)
        hh == pp.wallet - WalletFee(rr)
        phase == WalletPhase(r, p)
        phase2 == WalletPhase(rr, pp)
    IN  \/ hh = h /\ WalletFee(rr) = WalletFee(r) /\ phase2 = phase /\ ww = w
        \/ /\ phase = "open" /\ phase2 \in {"open", "charged"}
           /\ hh >= 0 /\ ww = w - (hh - h) /\ ww >= 0 /\ WalletFee(rr) = WalletFee(r)
        \/ /\ phase = "open" /\ phase2 = "released"
           /\ hh = 0 /\ ww = w + h /\ WalletFee(rr) = WalletFee(r)
        \/ /\ hh = h /\ phase2 = phase /\ WalletFee(r) = 0
           /\ WalletFee(rr) >= 1 /\ ww = w - WalletFee(rr) /\ ww >= 0

\* What the actions do to a session.
ToPc(r, v) == [r EXCEPT !.pc = v]
ToRpc(r, v) == [r EXCEPT !.rpc = v]
TokenTaken(r) == [r EXCEPT !.tokenConsumed = r.amount, !.pc = "fund"]
WalletTaken(r) == [PreConsumed(r) EXCEPT !.consumed = r.amount]
SubscriptionTaken(r) == [PreConsumed(r) EXCEPT !.subPre = r.amount]
NotFunded(r, code) == [r EXCEPT !.code = code, !.pc = "rollbackToken"]
RolledBack(r, next) == [r EXCEPT !.tokenConsumed = 0, !.pc = next]
Raised(r, n) == [Holding(r, n) EXCEPT !.amount = n, !.pc = "reserveCheck"]
Lowered(r) == [Holding(r, -r.amount) EXCEPT !.pc = "active"]
SettledAtOnce(r) == [r EXCEPT !.actual = r.pre, !.settled = TRUE, !.pc = "settled"]
FundingSettled(r, a) ==
    [r EXCEPT !.actual = a, !.fundingSettled = TRUE, !.pc = "settleToken"]
NotSettled(r, a) == [r EXCEPT !.actual = a, !.pc = "unsettled"]
TokenSettled(r) == [r EXCEPT !.settled = TRUE, !.pc = "settled"]
Failing(r, n) ==
    [StartRefund(r) EXCEPT !.amount = n, !.pc = IF n > 0 THEN "fee" ELSE "failed"]
Retried(r) ==
    [r EXCEPT !.attempts = r.attempts + 1,
              !.rpc = IF r.attempts + 1 < 3 THEN "funding" ELSE "extra"]
FeePaid(r) ==
    [r EXCEPT !.fee = r.amount, !.pc = IF r.playground THEN "failed" ELSE "feeToken"]
Crashed(r) ==
    [r EXCEPT !.pc = "crashed", !.rpc = IF @ \in {"none", "end"} THEN @ ELSE "lost"]

\* A step of one request that leaves its books exact and is one of WalletLedger.
Goes(r, p, c, w, f, rr, pp, cc, ww, ff) ==
    Exact(rr, pp, cc, ff) /\ Booked(r, p, w, rr, pp, ww)

\* A request in the wallet w after f errors.
At(r, p, c, w, f) ==
    w \in Nat /\ f \in Nat /\ Request(r, p) /\ Exact(r, p, c, f)

-----------------------------------------------------------------------------

\* Refused before the token is charged.
LEMMA Refused ==
    ASSUME NEW r, NEW p, NEW c, NEW w, NEW f, At(r, p, c, w, f),
           NEW pp, NEW ff \in {f, f + 1},
           r.pc \in {"idle", "checkSub", "tryWallet", "checkToken", "takeToken"},
           Paid(p, pp, 0, 0, 0)
    PROVE  Goes(r, p, c, w, f, ToPc(r, "rejected"), pp, c, w, ff)
<1> DEFINE rr == ToPc(r, "rejected")
<1> USE DEF At, Request, RequestInv, FlagsInv, WalletInv, TokenInv, SubscriptionInv,
           PreferenceInv, EarlyPC, ReservePC, SessionType, PaidType,
           ToPc, Paid
<1>1. FundingExact(rr, pp, ff)
  BY DEF Exact, FundingExact, Clean, Pending, Live
<1>2. RefundExact(rr, pp, c, ff)
  BY DEF Exact, FundingExact, Clean, Pending, Live, RefundExact
<1>3. TokenExact(rr, pp, ff)
  BY DEF Exact, TokenExact, TokenOwed, FundingExact, Clean, Pending, Live
<1>4. Booked(r, p, w, rr, pp, w)
  BY DEF Booked, WalletPhase, WalletFee
<1>5. SubscriptionExact(rr, pp, ff)
  BY DEF Exact, SubscriptionExact, FundingExact, RefundExact, Clean, Pending, Live
<1> QED BY <1>1, <1>2, <1>3, <1>4, <1>5 DEF Exact, Goes

\* trySubscription takes over.
LEMMA TriesSubscription ==
    ASSUME NEW r, NEW p, NEW c, NEW w, NEW f, At(r, p, c, w, f),
           NEW pp, NEW ff \in {f, f + 1},
           r.pc \in {"idle", "checkSub", "tryWallet"},
           Paid(p, pp, 0, 0, 0)
    PROVE  Goes(r, p, c, w, f, SubscriptionSession(r), pp, c, w, ff)
<1> DEFINE rr == SubscriptionSession(r)
<1> USE DEF At, Request, RequestInv, FlagsInv, WalletInv, TokenInv, SubscriptionInv,
           PreferenceInv, EarlyPC, ReservePC, SessionType, PaidType,
           SubscriptionSession, Paid
<1>1. FundingExact(rr, pp, ff)
  BY DEF Exact, FundingExact, Clean, Pending, Live
<1>2. RefundExact(rr, pp, c, ff)
  BY DEF Exact, FundingExact, Clean, Pending, Live, RefundExact
<1>3. TokenExact(rr, pp, ff)
  BY DEF Exact, TokenExact, TokenOwed, FundingExact, Clean, Pending, Live
<1>4. Booked(r, p, w, rr, pp, w)
  BY DEF Booked, WalletPhase, WalletFee
<1>5. SubscriptionExact(rr, pp, ff)
  BY DEF Exact, SubscriptionExact, FundingExact, RefundExact, Clean, Pending, Live
<1> QED BY <1>1, <1>2, <1>3, <1>4, <1>5 DEF Exact, Goes

\* The preference or the lack of an active subscription picks the next source.
LEMMA Turns ==
    ASSUME NEW r, NEW p, NEW c, NEW w, NEW f, At(r, p, c, w, f),
           NEW pp, NEW ff \in {f, f + 1},
           NEW next \in {"checkSub", "tryWallet"},
           r.pc \in {"idle", "checkSub"},
           Paid(p, pp, 0, 0, 0)
    PROVE  Goes(r, p, c, w, f, ToPc(r, next), pp, c, w, ff)
<1> DEFINE rr == ToPc(r, next)
<1> USE DEF At, Request, RequestInv, FlagsInv, WalletInv, TokenInv, SubscriptionInv,
           PreferenceInv, EarlyPC, ReservePC, SessionType, PaidType,
           ToPc, Paid
<1>1. FundingExact(rr, pp, ff)
  BY DEF Exact, FundingExact, Clean, Pending, Live
<1>2. RefundExact(rr, pp, c, ff)
  BY DEF Exact, FundingExact, Clean, Pending, Live, RefundExact
<1>3. TokenExact(rr, pp, ff)
  BY DEF Exact, TokenExact, TokenOwed, FundingExact, Clean, Pending, Live
<1>4. Booked(r, p, w, rr, pp, w)
  BY DEF Booked, WalletPhase, WalletFee
<1>5. SubscriptionExact(rr, pp, ff)
  BY DEF Exact, SubscriptionExact, FundingExact, RefundExact, Clean, Pending, Live
<1> QED BY <1>1, <1>2, <1>3, <1>4, <1>5 DEF Exact, Goes

\* tryWallet has found enough quota.
LEMMA TriesWallet ==
    ASSUME NEW r, NEW p, NEW c, NEW w, NEW f, At(r, p, c, w, f),
           NEW pp, NEW ff \in {f, f + 1},
           NEW trusts \in BOOLEAN,
           r.pc = "tryWallet",
           Paid(p, pp, 0, 0, 0)
    PROVE  Goes(r, p, c, w, f, WalletSession(r, trusts), pp, c, w, ff)
<1> DEFINE rr == WalletSession(r, trusts)
<1> USE DEF At, Request, RequestInv, FlagsInv, WalletInv, TokenInv, SubscriptionInv,
           PreferenceInv, EarlyPC, ReservePC, SessionType, PaidType,
           WalletSession, Paid
<1>1. FundingExact(rr, pp, ff)
  BY DEF Exact, FundingExact, Clean, Pending, Live
<1>2. RefundExact(rr, pp, c, ff)
  BY DEF Exact, FundingExact, Clean, Pending, Live, RefundExact
<1>3. TokenExact(rr, pp, ff)
  BY DEF Exact, TokenExact, TokenOwed, FundingExact, Clean, Pending, Live
<1>4. Booked(r, p, w, rr, pp, w)
  BY DEF Booked, WalletPhase, WalletFee
<1>5. SubscriptionExact(rr, pp, ff)
  BY DEF Exact, SubscriptionExact, FundingExact, RefundExact, Clean, Pending, Live
<1> QED BY <1>1, <1>2, <1>3, <1>4, <1>5 DEF Exact, Goes

\* A playground request has no token.
LEMMA NeedsNoToken ==
    ASSUME NEW r, NEW p, NEW c, NEW w, NEW f, At(r, p, c, w, f),
           NEW pp, NEW ff \in {f, f + 1},
           r.pc = "checkToken",
           r.playground,
           Paid(p, pp, 0, 0, 0)
    PROVE  Goes(r, p, c, w, f, TokenTaken(r), pp, c, w, ff)
<1> DEFINE rr == TokenTaken(r)
<1> USE DEF At, Request, RequestInv, FlagsInv, WalletInv, TokenInv, SubscriptionInv,
           PreferenceInv, EarlyPC, ReservePC, SessionType, PaidType,
           TokenTaken, Paid
<1>1. FundingExact(rr, pp, ff)
  BY DEF Exact, FundingExact, Clean, Pending, Live
<1>2. RefundExact(rr, pp, c, ff)
  BY DEF Exact, FundingExact, Clean, Pending, Live, RefundExact
<1>3. TokenExact(rr, pp, ff)
  BY DEF Exact, TokenExact, TokenOwed, FundingExact, Clean, Pending, Live
<1>4. Booked(r, p, w, rr, pp, w)
  BY DEF Booked, WalletPhase, WalletFee
<1>5. SubscriptionExact(rr, pp, ff)
  BY DEF Exact, SubscriptionExact, FundingExact, RefundExact, Clean, Pending, Live
<1> QED BY <1>1, <1>2, <1>3, <1>4, <1>5 DEF Exact, Goes

\* The token has enough quota.
LEMMA ChecksToken ==
    ASSUME NEW r, NEW p, NEW c, NEW w, NEW f, At(r, p, c, w, f),
           NEW pp, NEW ff \in {f, f + 1},
           r.pc = "checkToken",
           Paid(p, pp, 0, 0, 0)
    PROVE  Goes(r, p, c, w, f, ToPc(r, "takeToken"), pp, c, w, ff)
<1> DEFINE rr == ToPc(r, "takeToken")
<1> USE DEF At, Request, RequestInv, FlagsInv, WalletInv, TokenInv, SubscriptionInv,
           PreferenceInv, EarlyPC, ReservePC, SessionType, PaidType,
           ToPc, Paid
<1>1. FundingExact(rr, pp, ff)
  BY DEF Exact, FundingExact, Clean, Pending, Live
<1>2. RefundExact(rr, pp, c, ff)
  BY DEF Exact, FundingExact, Clean, Pending, Live, RefundExact
<1>3. TokenExact(rr, pp, ff)
  BY DEF Exact, TokenExact, TokenOwed, FundingExact, Clean, Pending, Live
<1>4. Booked(r, p, w, rr, pp, w)
  BY DEF Booked, WalletPhase, WalletFee
<1>5. SubscriptionExact(rr, pp, ff)
  BY DEF Exact, SubscriptionExact, FundingExact, RefundExact, Clean, Pending, Live
<1> QED BY <1>1, <1>2, <1>3, <1>4, <1>5 DEF Exact, Goes

\* The token is charged the reservation.
LEMMA TakesToken ==
    ASSUME NEW r, NEW p, NEW c, NEW w, NEW f, At(r, p, c, w, f),
           NEW pp,
           r.pc = "takeToken",
           Paid(p, pp, 0, r.amount, 0)
    PROVE  Goes(r, p, c, w, f, TokenTaken(r), pp, c, w, f)
<1> DEFINE rr == TokenTaken(r)
<1> USE DEF At, Request, RequestInv, FlagsInv, WalletInv, TokenInv, SubscriptionInv,
           PreferenceInv, EarlyPC, ReservePC, SessionType, PaidType,
           TokenTaken, Paid
<1>1. FundingExact(rr, pp, f)
  BY DEF Exact, FundingExact, Clean, Pending, Live
<1>2. RefundExact(rr, pp, c, f)
  BY DEF Exact, FundingExact, Clean, Pending, Live, RefundExact
<1>3. TokenExact(rr, pp, f)
  BY DEF Exact, TokenExact, TokenOwed, FundingExact, Clean, Pending, Live
<1>4. Booked(r, p, w, rr, pp, w)
  BY DEF Booked, WalletPhase, WalletFee
<1>5. SubscriptionExact(rr, pp, f)
  BY DEF Exact, SubscriptionExact, FundingExact, RefundExact, Clean, Pending, Live
<1> QED BY <1>1, <1>2, <1>3, <1>4, <1>5 DEF Exact, Goes

\* The wallet is charged the reservation.
LEMMA FundsFromWallet ==
    ASSUME NEW r, NEW p, NEW c, NEW w, NEW f, At(r, p, c, w, f),
           NEW pp,
           r.pc = "fund",
           r.source = "wallet",
           Paid(p, pp, r.amount, 0, 0),
           r.amount <= w
    PROVE  Goes(r, p, c, w, f, WalletTaken(r), pp, c, w - r.amount, f)
<1> DEFINE rr == WalletTaken(r)
<1> USE DEF At, Request, RequestInv, FlagsInv, WalletInv, TokenInv, SubscriptionInv,
           PreferenceInv, EarlyPC, ReservePC, SessionType, PaidType,
           WalletTaken, PreConsumed, Paid
<1>1. FundingExact(rr, pp, f)
  BY DEF Exact, FundingExact, Clean, Pending, Live
<1>2. RefundExact(rr, pp, c, f)
  BY DEF Exact, FundingExact, Clean, Pending, Live, RefundExact
<1>3. TokenExact(rr, pp, f)
  BY DEF Exact, TokenExact, TokenOwed, FundingExact, Clean, Pending, Live
<1>4. Booked(r, p, w, rr, pp, w - r.amount)
  BY DEF Booked, WalletPhase, WalletFee
<1>5. SubscriptionExact(rr, pp, f)
  BY DEF Exact, SubscriptionExact, FundingExact, RefundExact, Clean, Pending, Live
<1> QED BY <1>1, <1>2, <1>3, <1>4, <1>5 DEF Exact, Goes

\* The subscription is charged the reservation, on a record.
LEMMA FundsFromSubscription ==
    ASSUME NEW r, NEW p, NEW c, NEW w, NEW f, At(r, p, c, w, f),
           NEW pp,
           r.pc = "fund",
           r.source = "subscription",
           Paid(p, pp, 0, 0, r.amount)
    PROVE  Goes(r, p, c, w, f, SubscriptionTaken(r), pp, "consumed", w, f)
<1> DEFINE rr == SubscriptionTaken(r)
<1> USE DEF At, Request, RequestInv, FlagsInv, WalletInv, TokenInv, SubscriptionInv,
           PreferenceInv, EarlyPC, ReservePC, SessionType, PaidType,
           SubscriptionTaken, PreConsumed, Paid
<1>1. FundingExact(rr, pp, f)
  BY DEF Exact, FundingExact, Clean, Pending, Live
<1>2. RefundExact(rr, pp, "consumed", f)
  BY DEF Exact, FundingExact, Clean, Pending, Live, RefundExact
<1>3. TokenExact(rr, pp, f)
  BY DEF Exact, TokenExact, TokenOwed, FundingExact, Clean, Pending, Live
<1>4. Booked(r, p, w, rr, pp, w)
  BY DEF Booked, WalletPhase, WalletFee
<1>5. SubscriptionExact(rr, pp, f)
  BY DEF Exact, SubscriptionExact, FundingExact, RefundExact, Clean, Pending, Live
<1> QED BY <1>1, <1>2, <1>3, <1>4, <1>5 DEF Exact, Goes

\* The funding source refuses.
LEMMA FailsToFund ==
    ASSUME NEW r, NEW p, NEW c, NEW w, NEW f, At(r, p, c, w, f),
           NEW pp, NEW ff \in {f, f + 1},
           NEW code \in Codes,
           r.pc = "fund",
           Paid(p, pp, 0, 0, 0)
    PROVE  Goes(r, p, c, w, f, NotFunded(r, code), pp, c, w, ff)
<1> DEFINE rr == NotFunded(r, code)
<1> USE DEF At, Request, RequestInv, FlagsInv, WalletInv, TokenInv, SubscriptionInv,
           PreferenceInv, EarlyPC, ReservePC, SessionType, PaidType,
           NotFunded, Paid
<1>1. FundingExact(rr, pp, ff)
  BY DEF Exact, FundingExact, Clean, Pending, Live
<1>2. RefundExact(rr, pp, c, ff)
  BY DEF Exact, FundingExact, Clean, Pending, Live, RefundExact
<1>3. TokenExact(rr, pp, ff)
  BY DEF Exact, TokenExact, TokenOwed, FundingExact, Clean, Pending, Live
<1>4. Booked(r, p, w, rr, pp, w)
  BY DEF Booked, WalletPhase, WalletFee
<1>5. SubscriptionExact(rr, pp, ff)
  BY DEF Exact, SubscriptionExact, FundingExact, RefundExact, Clean, Pending, Live
<1> QED BY <1>1, <1>2, <1>3, <1>4, <1>5 DEF Exact, Goes

\* The token gets its reservation back, unless the statement fails.
LEMMA RollsBack ==
    ASSUME NEW r, NEW p, NEW c, NEW w, NEW f, At(r, p, c, w, f),
           NEW pp, NEW ff \in {f, f + 1},
           NEW next \in {"tryWallet", "rejected"},
           r.pc = "rollbackToken",
           \/ ff = f /\ Paid(p, pp, 0, IF r.playground THEN 0 ELSE -r.tokenConsumed, 0)
           \/ ff = f + 1 /\ Paid(p, pp, 0, 0, 0)
    PROVE  Goes(r, p, c, w, f, RolledBack(r, next), pp, c, w, ff)
<1> DEFINE rr == RolledBack(r, next)
<1>1. FundingExact(rr, pp, ff)
  BY DEF Exact, FundingExact, Clean, Pending, Live,
         At, Request, RequestInv, FlagsInv, WalletInv, TokenInv, SubscriptionInv,
         PreferenceInv, EarlyPC, ReservePC, SessionType, PaidType,
         RolledBack, Paid
<1>2. RefundExact(rr, pp, c, ff)
  BY DEF Exact, FundingExact, Clean, Pending, Live, RefundExact,
         At, Request, RequestInv, FlagsInv, WalletInv, TokenInv, SubscriptionInv,
         PreferenceInv, EarlyPC, ReservePC, SessionType, PaidType,
         RolledBack, Paid
<1>3. TokenExact(rr, pp, ff)
  <2>1. CASE ff = f + 1
    BY <2>1 DEF TokenExact, At
  <2>2. CASE ff = f /\ Paid(p, pp, 0, IF r.playground THEN 0 ELSE -r.tokenConsumed, 0)
    BY <2>2 DEF Exact, TokenExact, TokenOwed, FundingExact, Clean, Pending, Live,
         At, Request, RequestInv, FlagsInv, WalletInv, TokenInv, SubscriptionInv,
         PreferenceInv, EarlyPC, ReservePC, SessionType, PaidType,
         RolledBack, Paid
  <2> QED BY <2>1, <2>2
<1>4. Booked(r, p, w, rr, pp, w)
  BY DEF Booked, WalletPhase, WalletFee,
         At, Request, RequestInv, FlagsInv, WalletInv, TokenInv, SubscriptionInv,
         PreferenceInv, EarlyPC, ReservePC, SessionType, PaidType,
         RolledBack, Paid
<1>5. SubscriptionExact(rr, pp, ff)
  BY DEF Exact, SubscriptionExact, FundingExact, RefundExact, Clean, Pending, Live,
         At, Request, RequestInv, FlagsInv, WalletInv, TokenInv, SubscriptionInv,
         PreferenceInv, EarlyPC, ReservePC, SessionType, PaidType,
         RolledBack, Paid
<1> QED BY <1>1, <1>2, <1>3, <1>4, <1>5 DEF Exact, Goes

\* Reserve raises the reservation.
LEMMA Reserves ==
    ASSUME NEW r, NEW p, NEW c, NEW w, NEW f, At(r, p, c, w, f),
           NEW pp, NEW ww,
           NEW n \in Nat,
           r.pc = "active",
           r.source # "none",
           ReserveTargets # {},
           Funded(r, p, w, pp, ww, n)
    PROVE  Goes(r, p, c, w, f, Raised(r, n), pp, c, ww, f)
<1> DEFINE rr == Raised(r, n)
<1> USE DEF At, Request, RequestInv, FlagsInv, WalletInv, TokenInv, SubscriptionInv,
           PreferenceInv, EarlyPC, ReservePC, SessionType, PaidType,
           Raised, Holding, Funded, Paid
<1>1. FundingExact(rr, pp, f)
  BY DEF Exact, FundingExact, Clean, Pending, Live
<1>2. RefundExact(rr, pp, c, f)
  BY DEF Exact, FundingExact, Clean, Pending, Live, RefundExact
<1>3. TokenExact(rr, pp, f)
  BY DEF Exact, TokenExact, TokenOwed, FundingExact, Clean, Pending, Live
<1>4. Booked(r, p, w, rr, pp, ww)
  BY DEF Booked, WalletPhase, WalletFee
<1>5. SubscriptionExact(rr, pp, f)
  BY DEF Exact, SubscriptionExact, FundingExact, RefundExact, Clean, Pending, Live
<1> QED BY <1>1, <1>2, <1>3, <1>4, <1>5 DEF Exact, Goes

\* The token is compared with the rise.
LEMMA ChecksReserve ==
    ASSUME NEW r, NEW p, NEW c, NEW w, NEW f, At(r, p, c, w, f),
           NEW pp, NEW ff \in {f, f + 1},
           NEW next \in {"reserveTake", "reserveUndo"},
           r.pc \in {"reserveCheck", "reserveTake"},
           Paid(p, pp, 0, 0, 0)
    PROVE  Goes(r, p, c, w, f, ToPc(r, next), pp, c, w, ff)
<1> DEFINE rr == ToPc(r, next)
<1> USE DEF At, Request, RequestInv, FlagsInv, WalletInv, TokenInv, SubscriptionInv,
           PreferenceInv, EarlyPC, ReservePC, SessionType, PaidType,
           ToPc, Paid
<1>1. FundingExact(rr, pp, ff)
  BY DEF Exact, FundingExact, Clean, Pending, Live
<1>2. RefundExact(rr, pp, c, ff)
  BY DEF Exact, FundingExact, Clean, Pending, Live, RefundExact
<1>3. TokenExact(rr, pp, ff)
  BY DEF Exact, TokenExact, TokenOwed, FundingExact, Clean, Pending, Live
<1>4. Booked(r, p, w, rr, pp, w)
  BY DEF Booked, WalletPhase, WalletFee
<1>5. SubscriptionExact(rr, pp, ff)
  BY DEF Exact, SubscriptionExact, FundingExact, RefundExact, Clean, Pending, Live
<1> QED BY <1>1, <1>2, <1>3, <1>4, <1>5 DEF Exact, Goes

\* The token has paid the rise, and the session books it.
LEMMA BooksReserve ==
    ASSUME NEW r, NEW p, NEW c, NEW w, NEW f, At(r, p, c, w, f),
           NEW pp,
           r.pc \in {"reserveCheck", "reserveTake"},
           Paid(p, pp, 0, IF r.playground THEN 0 ELSE r.amount, 0)
    PROVE  Goes(r, p, c, w, f, Reserved(r), pp, c, w, f)
<1> DEFINE rr == Reserved(r)
<1> USE DEF At, Request, RequestInv, FlagsInv, WalletInv, TokenInv, SubscriptionInv,
           PreferenceInv, EarlyPC, ReservePC, SessionType, PaidType,
           Reserved, Paid
<1>1. FundingExact(rr, pp, f)
  BY DEF Exact, FundingExact, Clean, Pending, Live
<1>2. RefundExact(rr, pp, c, f)
  BY DEF Exact, FundingExact, Clean, Pending, Live, RefundExact
<1>3. TokenExact(rr, pp, f)
  BY DEF Exact, TokenExact, TokenOwed, FundingExact, Clean, Pending, Live
<1>4. Booked(r, p, w, rr, pp, w)
  BY DEF Booked, WalletPhase, WalletFee
<1>5. SubscriptionExact(rr, pp, f)
  BY DEF Exact, SubscriptionExact, FundingExact, RefundExact, Clean, Pending, Live
<1> QED BY <1>1, <1>2, <1>3, <1>4, <1>5 DEF Exact, Goes

\* The funding source gets the rise back.
LEMMA UndoesReserve ==
    ASSUME NEW r, NEW p, NEW c, NEW w, NEW f, At(r, p, c, w, f),
           NEW pp, NEW ww,
           r.pc = "reserveUndo",
           r.source # "none",
           Funded(r, p, w, pp, ww, -r.amount)
    PROVE  Goes(r, p, c, w, f, Lowered(r), pp, c, ww, f)
<1> DEFINE rr == Lowered(r)
<1> USE DEF At, Request, RequestInv, FlagsInv, WalletInv, TokenInv, SubscriptionInv,
           PreferenceInv, EarlyPC, ReservePC, SessionType, PaidType,
           Lowered, Holding, Funded, Paid
<1>1. FundingExact(rr, pp, f)
  BY DEF Exact, FundingExact, Clean, Pending, Live
<1>2. RefundExact(rr, pp, c, f)
  BY DEF Exact, FundingExact, Clean, Pending, Live, RefundExact
<1>3. TokenExact(rr, pp, f)
  BY DEF Exact, TokenExact, TokenOwed, FundingExact, Clean, Pending, Live
<1>4. Booked(r, p, w, rr, pp, ww)
  BY DEF Booked, WalletPhase, WalletFee
<1>5. SubscriptionExact(rr, pp, f)
  BY DEF Exact, SubscriptionExact, FundingExact, RefundExact, Clean, Pending, Live
<1> QED BY <1>1, <1>2, <1>3, <1>4, <1>5 DEF Exact, Goes

\* An error leaves the rise with the session.
LEMMA KeepsReserve ==
    ASSUME NEW r, NEW p, NEW c, NEW w, NEW f, At(r, p, c, w, f),
           NEW pp,
           r.pc = "reserveUndo",
           Paid(p, pp, 0, 0, 0)
    PROVE  Goes(r, p, c, w, f, ToPc(r, "active"), pp, c, w, f + 1)
<1> DEFINE rr == ToPc(r, "active")
<1>1. FundingExact(rr, pp, f + 1)
  <2>1. ~Clean(f + 1)
    BY DEF At, Exact, FundingExact, Clean, ReservePC
  <2> QED
    BY <2>1 DEF Exact, FundingExact, Clean, Pending, Live,
         At, Request, RequestInv, FlagsInv, WalletInv, TokenInv, SubscriptionInv,
         PreferenceInv, EarlyPC, ReservePC, SessionType, PaidType,
         ToPc, Paid
<1>2. RefundExact(rr, pp, c, f + 1)
  BY DEF Exact, FundingExact, Clean, Pending, Live, RefundExact,
         At, Request, RequestInv, FlagsInv, WalletInv, TokenInv, SubscriptionInv,
         PreferenceInv, EarlyPC, ReservePC, SessionType, PaidType,
         ToPc, Paid
<1>3. TokenExact(rr, pp, f + 1)
  BY DEF Exact, TokenExact, TokenOwed, FundingExact, Clean, Pending, Live,
         At, Request, RequestInv, FlagsInv, WalletInv, TokenInv, SubscriptionInv,
         PreferenceInv, EarlyPC, ReservePC, SessionType, PaidType,
         ToPc, Paid
<1>4. Booked(r, p, w, rr, pp, w)
  BY DEF Booked, WalletPhase, WalletFee,
         At, Request, RequestInv, FlagsInv, WalletInv, TokenInv, SubscriptionInv,
         PreferenceInv, EarlyPC, ReservePC, SessionType, PaidType,
         ToPc, Paid
<1>5. SubscriptionExact(rr, pp, f + 1)
  BY DEF Exact, SubscriptionExact, FundingExact, RefundExact, Clean, Pending, Live,
         At, Request, RequestInv, FlagsInv, WalletInv, TokenInv, SubscriptionInv,
         PreferenceInv, EarlyPC, ReservePC, SessionType, PaidType,
         ToPc, Paid
<1> QED BY <1>1, <1>2, <1>3, <1>4, <1>5 DEF Exact, Goes

\* The estimate was right.
LEMMA SettlesAtOnce ==
    ASSUME NEW r, NEW p, NEW c, NEW w, NEW f, At(r, p, c, w, f),
           NEW pp, NEW ff \in {f, f + 1},
           r.pc = "active",
           Paid(p, pp, 0, 0, 0)
    PROVE  Goes(r, p, c, w, f, SettledAtOnce(r), pp, c, w, ff)
<1> DEFINE rr == SettledAtOnce(r)
<1> USE DEF At, Request, RequestInv, FlagsInv, WalletInv, TokenInv, SubscriptionInv,
           PreferenceInv, EarlyPC, ReservePC, SessionType, PaidType,
           SettledAtOnce, Paid
<1>1. FundingExact(rr, pp, ff)
  BY DEF Exact, FundingExact, Clean, Pending, Live
<1>2. RefundExact(rr, pp, c, ff)
  BY DEF Exact, FundingExact, Clean, Pending, Live, RefundExact
<1>3. TokenExact(rr, pp, ff)
  BY DEF Exact, TokenExact, TokenOwed, FundingExact, Clean, Pending, Live
<1>4. Booked(r, p, w, rr, pp, w)
  BY DEF Booked, WalletPhase, WalletFee
<1>5. SubscriptionExact(rr, pp, ff)
  BY DEF Exact, SubscriptionExact, FundingExact, RefundExact, Clean, Pending, Live
<1> QED BY <1>1, <1>2, <1>3, <1>4, <1>5 DEF Exact, Goes

\* The funding source is settled.
LEMMA SettlesFunding ==
    ASSUME NEW r, NEW p, NEW c, NEW w, NEW f, At(r, p, c, w, f),
           NEW pp, NEW ww,
           NEW a \in Nat,
           r.pc = "active",
           r.source # "none",
           Funded(r, p, w, pp, ww, a - r.pre)
    PROVE  Goes(r, p, c, w, f, FundingSettled(r, a), pp, c, ww, f)
<1> DEFINE rr == FundingSettled(r, a)
<1> USE DEF At, Request, RequestInv, FlagsInv, WalletInv, TokenInv, SubscriptionInv,
           PreferenceInv, EarlyPC, ReservePC, SessionType, PaidType,
           FundingSettled, Funded, Paid
<1>1. FundingExact(rr, pp, f)
  BY DEF Exact, FundingExact, Clean, Pending, Live
<1>2. RefundExact(rr, pp, c, f)
  BY DEF Exact, FundingExact, Clean, Pending, Live, RefundExact
<1>3. TokenExact(rr, pp, f)
  BY DEF Exact, TokenExact, TokenOwed, FundingExact, Clean, Pending, Live
<1>4. Booked(r, p, w, rr, pp, ww)
  BY DEF Booked, WalletPhase, WalletFee
<1>5. SubscriptionExact(rr, pp, f)
  BY DEF Exact, SubscriptionExact, FundingExact, RefundExact, Clean, Pending, Live
<1> QED BY <1>1, <1>2, <1>3, <1>4, <1>5 DEF Exact, Goes

\* The funding source cannot give the difference.
LEMMA CannotSettle ==
    ASSUME NEW r, NEW p, NEW c, NEW w, NEW f, At(r, p, c, w, f),
           NEW pp, NEW ff \in {f, f + 1},
           NEW a \in Nat,
           r.pc = "active",
           Paid(p, pp, 0, 0, 0)
    PROVE  Goes(r, p, c, w, f, NotSettled(r, a), pp, c, w, ff)
<1> DEFINE rr == NotSettled(r, a)
<1> USE DEF At, Request, RequestInv, FlagsInv, WalletInv, TokenInv, SubscriptionInv,
           PreferenceInv, EarlyPC, ReservePC, SessionType, PaidType,
           NotSettled, Paid
<1>1. FundingExact(rr, pp, ff)
  BY DEF Exact, FundingExact, Clean, Pending, Live
<1>2. RefundExact(rr, pp, c, ff)
  BY DEF Exact, FundingExact, Clean, Pending, Live, RefundExact
<1>3. TokenExact(rr, pp, ff)
  BY DEF Exact, TokenExact, TokenOwed, FundingExact, Clean, Pending, Live
<1>4. Booked(r, p, w, rr, pp, w)
  BY DEF Booked, WalletPhase, WalletFee
<1>5. SubscriptionExact(rr, pp, ff)
  BY DEF Exact, SubscriptionExact, FundingExact, RefundExact, Clean, Pending, Live
<1> QED BY <1>1, <1>2, <1>3, <1>4, <1>5 DEF Exact, Goes

\* The token is settled, unless the statement fails.
LEMMA SettlesToken ==
    ASSUME NEW r, NEW p, NEW c, NEW w, NEW f, At(r, p, c, w, f),
           NEW pp, NEW ff \in {f, f + 1},
           r.pc = "settleToken",
           \/ ff = f /\ Paid(p, pp, 0, IF r.playground THEN 0 ELSE r.actual - r.pre, 0)
           \/ ff = f + 1 /\ Paid(p, pp, 0, 0, 0)
    PROVE  Goes(r, p, c, w, f, TokenSettled(r), pp, c, w, ff)
<1> DEFINE rr == TokenSettled(r)
<1> USE DEF At, Request, RequestInv, FlagsInv, WalletInv, TokenInv, SubscriptionInv,
           PreferenceInv, EarlyPC, ReservePC, SessionType, PaidType,
           TokenSettled, Paid
<1>1. FundingExact(rr, pp, ff)
  BY DEF Exact, FundingExact, Clean, Pending, Live
<1>2. RefundExact(rr, pp, c, ff)
  BY DEF Exact, FundingExact, Clean, Pending, Live, RefundExact
<1>3. TokenExact(rr, pp, ff)
  BY DEF Exact, TokenExact, TokenOwed, FundingExact, Clean, Pending, Live
<1>4. Booked(r, p, w, rr, pp, w)
  BY DEF Booked, WalletPhase, WalletFee
<1>5. SubscriptionExact(rr, pp, ff)
  BY DEF Exact, SubscriptionExact, FundingExact, RefundExact, Clean, Pending, Live
<1> QED BY <1>1, <1>2, <1>3, <1>4, <1>5 DEF Exact, Goes

\* The request has failed, and its refund starts if it needs one.
LEMMA StartsRefund ==
    ASSUME NEW r, NEW p, NEW c, NEW w, NEW f, At(r, p, c, w, f),
           NEW pp,
           NEW n \in Nat,
           r.pc \in {"active", "settled", "unsettled"},
           r.source # "none",
           Paid(p, pp, 0, 0, 0)
    PROVE  Goes(r, p, c, w, f, Failing(r, n), pp, c, w, f)
<1> DEFINE rr == Failing(r, n)
<1> USE DEF At, Request, RequestInv, FlagsInv, WalletInv, TokenInv, SubscriptionInv,
           PreferenceInv, EarlyPC, ReservePC, SessionType, PaidType,
           Failing, StartRefund, NeedsRefund, Paid
<1>1. FundingExact(rr, pp, f)
  BY DEF Exact, FundingExact, Clean, Pending, Live
<1>2. RefundExact(rr, pp, c, f)
  BY DEF Exact, FundingExact, Clean, Pending, Live, RefundExact
<1>3. TokenExact(rr, pp, f)
  BY DEF Exact, TokenExact, TokenOwed, FundingExact, Clean, Pending, Live
<1>4. Booked(r, p, w, rr, pp, w)
  BY DEF Booked, WalletPhase, WalletFee
<1>5. SubscriptionExact(rr, pp, f)
  BY DEF Exact, SubscriptionExact, FundingExact, RefundExact, Clean, Pending, Live
<1> QED BY <1>1, <1>2, <1>3, <1>4, <1>5 DEF Exact, Goes

\* The wallet gets back what the session consumed, unless the statement fails.
LEMMA RefundsWallet ==
    ASSUME NEW r, NEW p, NEW c, NEW w, NEW f, At(r, p, c, w, f),
           NEW pp, NEW ff \in {f, f + 1}, NEW ww,
           r.rpc = "funding",
           r.source = "wallet",
           \/ ff = f /\ Paid(p, pp, -r.consumed, 0, 0) /\ ww = w + r.consumed
           \/ ff = f + 1 /\ Paid(p, pp, 0, 0, 0) /\ ww = w
    PROVE  Goes(r, p, c, w, f, ToRpc(r, "token"), pp, c, ww, ff)
<1> DEFINE rr == ToRpc(r, "token")
<1>1. FundingExact(rr, pp, ff)
  BY DEF Exact, FundingExact, Clean, Pending, Live,
         At, Request, RequestInv, FlagsInv, WalletInv, TokenInv, SubscriptionInv,
         PreferenceInv, EarlyPC, ReservePC, SessionType, PaidType,
         ToRpc, Paid
<1>2. RefundExact(rr, pp, c, ff)
  BY DEF Exact, FundingExact, Clean, Pending, Live, RefundExact,
         At, Request, RequestInv, FlagsInv, WalletInv, TokenInv, SubscriptionInv,
         PreferenceInv, EarlyPC, ReservePC, SessionType, PaidType,
         ToRpc, Paid
<1>3. TokenExact(rr, pp, ff)
  BY DEF Exact, TokenExact, TokenOwed, FundingExact, Clean, Pending, Live,
         At, Request, RequestInv, FlagsInv, WalletInv, TokenInv, SubscriptionInv,
         PreferenceInv, EarlyPC, ReservePC, SessionType, PaidType,
         ToRpc, Paid
<1>4. Booked(r, p, w, rr, pp, ww)
  <2>1. CASE Paid(p, pp, 0, 0, 0) /\ ww = w
    <3>1. /\ rr.source = r.source /\ rr.fee = r.fee /\ rr.settled = r.settled
          /\ rr.fundingSettled = r.fundingSettled /\ rr.refunded = r.refunded
      BY DEF At, Request, SessionType, ToRpc
    <3>2. p.wallet \in Int /\ pp.wallet = p.wallet
      BY <2>1 DEF At, Request, PaidType, Paid
    <3> HIDE DEF rr
    <3>3. WalletFee(rr) = WalletFee(r) /\ WalletPhase(rr, pp) = WalletPhase(r, p)
      BY <3>1, <3>2 DEF WalletFee, WalletPhase
    <3> QED BY <2>1, <3>2, <3>3 DEF Booked
  <2>2. CASE Paid(p, pp, -r.consumed, 0, 0) /\ ww = w + r.consumed
    <3>1. rr.source = "wallet" /\ rr.fee = r.fee /\ rr.refunded /\ r.refunded
          /\ ~rr.settled /\ ~rr.fundingSettled /\ ~r.settled /\ ~r.fundingSettled
      BY DEF At, Request, RequestInv, FlagsInv, SessionType, ToRpc
    <3>2. p.wallet = r.consumed + r.fee /\ r.consumed \in Nat /\ r.fee \in Nat /\ w \in Nat
      BY <3>1 DEF At, Request, RequestInv, WalletInv, SessionType, PaidType
    <3>3. WalletFee(r) = r.fee /\ WalletFee(rr) = r.fee
      BY <3>1 DEF WalletFee
    <3>4. pp.wallet = r.fee
      BY <2>2, <3>2 DEF Paid
    <3>5. WalletPhase(rr, pp) = "released"
      BY <3>1, <3>4 DEF WalletPhase
    <3> HIDE DEF rr
    <3>6. CASE r.consumed = 0
      <4>1. WalletPhase(r, p) = "released"
        BY <3>1, <3>2, <3>6 DEF WalletPhase
      <4> QED BY <2>2, <3>2, <3>3, <3>4, <3>5, <3>6, <4>1 DEF Booked
    <3>7. CASE r.consumed # 0
      <4>1. WalletPhase(r, p) = "open"
        BY <3>1, <3>2, <3>7 DEF WalletPhase
      <4> QED BY <2>2, <3>2, <3>3, <3>4, <3>5, <4>1 DEF Booked
    <3> QED BY <3>6, <3>7
  <2> QED BY <2>1, <2>2
<1>5. SubscriptionExact(rr, pp, ff)
  BY DEF Exact, SubscriptionExact, FundingExact, RefundExact, Clean, Pending, Live,
         At, Request, RequestInv, FlagsInv, WalletInv, TokenInv, SubscriptionInv,
         PreferenceInv, EarlyPC, ReservePC, SessionType, PaidType,
         ToRpc, Paid
<1> QED BY <1>1, <1>2, <1>3, <1>4, <1>5 DEF Exact, Goes

\* The record says the subscription has been refunded.
LEMMA SkipsRefund ==
    ASSUME NEW r, NEW p, NEW c, NEW w, NEW f, At(r, p, c, w, f),
           NEW pp,
           r.rpc = "funding",
           r.source = "subscription",
           c = "refunded",
           Paid(p, pp, 0, 0, 0)
    PROVE  Goes(r, p, c, w, f, ToRpc(r, "extra"), pp, c, w, f)
<1> DEFINE rr == ToRpc(r, "extra")
<1> USE DEF At, Request, RequestInv, FlagsInv, WalletInv, TokenInv, SubscriptionInv,
           PreferenceInv, EarlyPC, ReservePC, SessionType, PaidType,
           ToRpc, Paid
<1>1. FundingExact(rr, pp, f)
  BY DEF Exact, FundingExact, Clean, Pending, Live
<1>2. RefundExact(rr, pp, c, f)
  BY DEF Exact, FundingExact, Clean, Pending, Live, RefundExact
<1>3. TokenExact(rr, pp, f)
  BY DEF Exact, TokenExact, TokenOwed, FundingExact, Clean, Pending, Live
<1>4. Booked(r, p, w, rr, pp, w)
  BY DEF Booked, WalletPhase, WalletFee
<1>5. SubscriptionExact(rr, pp, f)
  BY DEF Exact, SubscriptionExact, FundingExact, RefundExact, Clean, Pending, Live
<1> QED BY <1>1, <1>2, <1>3, <1>4, <1>5 DEF Exact, Goes

\* The subscription gets back what is on the record.
LEMMA RefundsSubscription ==
    ASSUME NEW r, NEW p, NEW c, NEW w, NEW f, At(r, p, c, w, f),
           NEW pp,
           r.rpc = "funding",
           r.source = "subscription",
           Paid(p, pp, 0, 0, -r.subPre)
    PROVE  Goes(r, p, c, w, f, ToRpc(r, "record"), pp, c, w, f)
<1> DEFINE rr == ToRpc(r, "record")
<1> USE DEF At, Request, RequestInv, FlagsInv, WalletInv, TokenInv, SubscriptionInv,
           PreferenceInv, EarlyPC, ReservePC, SessionType, PaidType,
           ToRpc, Paid
<1>1. FundingExact(rr, pp, f)
  BY DEF Exact, FundingExact, Clean, Pending, Live
<1>2. RefundExact(rr, pp, c, f)
  BY DEF Exact, FundingExact, Clean, Pending, Live, RefundExact
<1>3. TokenExact(rr, pp, f)
  BY DEF Exact, TokenExact, TokenOwed, FundingExact, Clean, Pending, Live
<1>4. Booked(r, p, w, rr, pp, w)
  BY DEF Booked, WalletPhase, WalletFee
<1>5. SubscriptionExact(rr, pp, f)
  BY DEF Exact, SubscriptionExact, FundingExact, RefundExact, Clean, Pending, Live
<1> QED BY <1>1, <1>2, <1>3, <1>4, <1>5 DEF Exact, Goes

\* An attempt at the refund fails.
LEMMA RetriesRefund ==
    ASSUME NEW r, NEW p, NEW c, NEW w, NEW f, At(r, p, c, w, f),
           NEW pp,
           r.rpc \in {"funding", "record"},
           r.source = "subscription",
           Paid(p, pp, 0, 0, 0)
    PROVE  Goes(r, p, c, w, f, Retried(r), pp, c, w, f + 1)
<1> DEFINE rr == Retried(r)
<1> USE DEF At, Request, RequestInv, FlagsInv, WalletInv, TokenInv, SubscriptionInv,
           PreferenceInv, EarlyPC, ReservePC, SessionType, PaidType,
           Retried, Paid
<1>1. FundingExact(rr, pp, f + 1)
  BY DEF Exact, FundingExact, Clean, Pending, Live
<1>2. RefundExact(rr, pp, c, f + 1)
  BY DEF Exact, FundingExact, Clean, Pending, Live, RefundExact
<1>3. TokenExact(rr, pp, f + 1)
  BY DEF Exact, TokenExact, TokenOwed, FundingExact, Clean, Pending, Live
<1>4. Booked(r, p, w, rr, pp, w)
  BY DEF Booked, WalletPhase, WalletFee
<1>5. SubscriptionExact(rr, pp, f + 1)
  BY DEF Exact, SubscriptionExact, FundingExact, RefundExact, Clean, Pending, Live
<1> QED BY <1>1, <1>2, <1>3, <1>4, <1>5 DEF Exact, Goes

\* The record is marked refunded.
LEMMA MarksRecord ==
    ASSUME NEW r, NEW p, NEW c, NEW w, NEW f, At(r, p, c, w, f),
           NEW pp,
           r.rpc = "record",
           Paid(p, pp, 0, 0, 0)
    PROVE  Goes(r, p, c, w, f, ToRpc(r, "extra"), pp, "refunded", w, f)
<1> DEFINE rr == ToRpc(r, "extra")
<1> USE DEF At, Request, RequestInv, FlagsInv, WalletInv, TokenInv, SubscriptionInv,
           PreferenceInv, EarlyPC, ReservePC, SessionType, PaidType,
           ToRpc, Paid
<1>1. FundingExact(rr, pp, f)
  BY DEF Exact, FundingExact, Clean, Pending, Live
<1>2. RefundExact(rr, pp, "refunded", f)
  BY DEF Exact, FundingExact, Clean, Pending, Live, RefundExact
<1>3. TokenExact(rr, pp, f)
  BY DEF Exact, TokenExact, TokenOwed, FundingExact, Clean, Pending, Live
<1>4. Booked(r, p, w, rr, pp, w)
  BY DEF Booked, WalletPhase, WalletFee
<1>5. SubscriptionExact(rr, pp, f)
  BY DEF Exact, SubscriptionExact, FundingExact, RefundExact, Clean, Pending, Live
<1> QED BY <1>1, <1>2, <1>3, <1>4, <1>5 DEF Exact, Goes

\* The subscription gets back what Reserve took, unless the statement fails.
LEMMA RefundsExtra ==
    ASSUME NEW r, NEW p, NEW c, NEW w, NEW f, At(r, p, c, w, f),
           NEW pp, NEW ff \in {f, f + 1},
           r.rpc = "extra",
           \/ ff = f /\ Paid(p, pp, 0, 0, -r.extra)
           \/ ff = f + 1 /\ Paid(p, pp, 0, 0, 0)
    PROVE  Goes(r, p, c, w, f, ToRpc(r, "token"), pp, c, w, ff)
<1> DEFINE rr == ToRpc(r, "token")
<1> USE DEF At, Request, RequestInv, FlagsInv, WalletInv, TokenInv, SubscriptionInv,
           PreferenceInv, EarlyPC, ReservePC, SessionType, PaidType,
           ToRpc, Paid
<1>1. FundingExact(rr, pp, ff)
  BY DEF Exact, FundingExact, Clean, Pending, Live
<1>2. RefundExact(rr, pp, c, ff)
  BY DEF Exact, FundingExact, Clean, Pending, Live, RefundExact
<1>3. TokenExact(rr, pp, ff)
  BY DEF Exact, TokenExact, TokenOwed, FundingExact, Clean, Pending, Live
<1>4. Booked(r, p, w, rr, pp, w)
  BY DEF Booked, WalletPhase, WalletFee
<1>5. SubscriptionExact(rr, pp, ff)
  BY DEF Exact, SubscriptionExact, FundingExact, RefundExact, Clean, Pending, Live
<1> QED BY <1>1, <1>2, <1>3, <1>4, <1>5 DEF Exact, Goes

\* The token gets its reservation back, unless the statement fails.
LEMMA RefundsToken ==
    ASSUME NEW r, NEW p, NEW c, NEW w, NEW f, At(r, p, c, w, f),
           NEW pp, NEW ff \in {f, f + 1},
           r.rpc = "token",
           \/ ff = f /\ Paid(p, pp, 0, IF r.playground THEN 0 ELSE -r.tokenConsumed, 0)
           \/ ff = f + 1 /\ Paid(p, pp, 0, 0, 0)
    PROVE  Goes(r, p, c, w, f, ToRpc(r, "end"), pp, c, w, ff)
<1> DEFINE rr == ToRpc(r, "end")
<1> USE DEF At, Request, RequestInv, FlagsInv, WalletInv, TokenInv, SubscriptionInv,
           PreferenceInv, EarlyPC, ReservePC, SessionType, PaidType,
           ToRpc, Paid
<1>1. FundingExact(rr, pp, ff)
  BY DEF Exact, FundingExact, Clean, Pending, Live
<1>2. RefundExact(rr, pp, c, ff)
  BY DEF Exact, FundingExact, Clean, Pending, Live, RefundExact
<1>3. TokenExact(rr, pp, ff)
  BY DEF Exact, TokenExact, TokenOwed, FundingExact, Clean, Pending, Live
<1>4. Booked(r, p, w, rr, pp, w)
  BY DEF Booked, WalletPhase, WalletFee
<1>5. SubscriptionExact(rr, pp, ff)
  BY DEF Exact, SubscriptionExact, FundingExact, RefundExact, Clean, Pending, Live
<1> QED BY <1>1, <1>2, <1>3, <1>4, <1>5 DEF Exact, Goes

\* The funding source is charged the violation fee.
LEMMA PaysFee ==
    ASSUME NEW r, NEW p, NEW c, NEW w, NEW f, At(r, p, c, w, f),
           NEW pp, NEW ww,
           r.pc = "fee",
           r.source # "none",
           Funded(r, p, w, pp, ww, r.amount)
    PROVE  Goes(r, p, c, w, f, FeePaid(r), pp, c, ww, f)
<1> DEFINE rr == FeePaid(r)
<1>1. FundingExact(rr, pp, f)
  BY DEF Exact, FundingExact, Clean, Pending, Live,
         At, Request, RequestInv, FlagsInv, WalletInv, TokenInv, SubscriptionInv,
         PreferenceInv, EarlyPC, ReservePC, SessionType, PaidType,
         FeePaid, Funded, Paid
<1>2. RefundExact(rr, pp, c, f)
  BY DEF Exact, FundingExact, Clean, Pending, Live, RefundExact,
         At, Request, RequestInv, FlagsInv, WalletInv, TokenInv, SubscriptionInv,
         PreferenceInv, EarlyPC, ReservePC, SessionType, PaidType,
         FeePaid, Funded, Paid
<1>3. TokenExact(rr, pp, f)
  BY DEF Exact, TokenExact, TokenOwed, FundingExact, Clean, Pending, Live,
         At, Request, RequestInv, FlagsInv, WalletInv, TokenInv, SubscriptionInv,
         PreferenceInv, EarlyPC, ReservePC, SessionType, PaidType,
         FeePaid, Funded, Paid
<1>4. Booked(r, p, w, rr, pp, ww)
  <2>1. /\ r.fee = 0 /\ rr.fee = r.amount /\ rr.source = r.source /\ r.amount \in Nat
        /\ rr.settled = r.settled /\ rr.refunded = r.refunded
        /\ rr.fundingSettled = r.fundingSettled /\ p.wallet \in Int /\ w \in Nat
    BY DEF At, Request, RequestInv, FlagsInv, SessionType, PaidType, FeePaid
  <2> HIDE DEF rr
  <2>2. CASE r.source = "subscription"
    BY <2>1, <2>2 DEF Booked, WalletPhase, WalletFee, Funded, Paid
  <2>3. CASE r.source # "subscription"
    <3>1. r.source = "wallet"
      BY <2>3 DEF At, Request, SessionType
    <3>2. pp.wallet = p.wallet + r.amount /\ ww = w - r.amount /\ ww >= 0
      BY <2>3 DEF Funded, Paid
    <3>3. WalletFee(r) = 0 /\ WalletFee(rr) = r.amount
      BY <2>1, <3>1 DEF WalletFee
    <3>4. WalletPhase(rr, pp) = WalletPhase(r, p)
      BY <2>1, <3>1, <3>2 DEF WalletPhase
    <3> QED BY <2>1, <3>2, <3>3, <3>4 DEF Booked
  <2> QED BY <2>2, <2>3
<1>5. SubscriptionExact(rr, pp, f)
  BY DEF Exact, SubscriptionExact, FundingExact, RefundExact, Clean, Pending, Live,
         At, Request, RequestInv, FlagsInv, WalletInv, TokenInv, SubscriptionInv,
         PreferenceInv, EarlyPC, ReservePC, SessionType, PaidType,
         FeePaid, Funded, Paid
<1> QED BY <1>1, <1>2, <1>3, <1>4, <1>5 DEF Exact, Goes

\* The funding source cannot pay the fee.
LEMMA PaysNoFee ==
    ASSUME NEW r, NEW p, NEW c, NEW w, NEW f, At(r, p, c, w, f),
           NEW pp, NEW ff \in {f, f + 1},
           r.pc = "fee",
           Paid(p, pp, 0, 0, 0)
    PROVE  Goes(r, p, c, w, f, ToPc(r, "failed"), pp, c, w, ff)
<1> DEFINE rr == ToPc(r, "failed")
<1> USE DEF At, Request, RequestInv, FlagsInv, WalletInv, TokenInv, SubscriptionInv,
           PreferenceInv, EarlyPC, ReservePC, SessionType, PaidType,
           ToPc, Paid
<1>1. FundingExact(rr, pp, ff)
  BY DEF Exact, FundingExact, Clean, Pending, Live
<1>2. RefundExact(rr, pp, c, ff)
  BY DEF Exact, FundingExact, Clean, Pending, Live, RefundExact
<1>3. TokenExact(rr, pp, ff)
  BY DEF Exact, TokenExact, TokenOwed, FundingExact, Clean, Pending, Live
<1>4. Booked(r, p, w, rr, pp, w)
  BY DEF Booked, WalletPhase, WalletFee
<1>5. SubscriptionExact(rr, pp, ff)
  BY DEF Exact, SubscriptionExact, FundingExact, RefundExact, Clean, Pending, Live
<1> QED BY <1>1, <1>2, <1>3, <1>4, <1>5 DEF Exact, Goes

\* The token is charged the fee, unless the statement fails.
LEMMA PaysFeeByToken ==
    ASSUME NEW r, NEW p, NEW c, NEW w, NEW f, At(r, p, c, w, f),
           NEW pp, NEW ff \in {f, f + 1},
           r.pc = "feeToken",
           \/ ff = f /\ Paid(p, pp, 0, r.fee, 0)
           \/ ff = f + 1 /\ Paid(p, pp, 0, 0, 0)
    PROVE  Goes(r, p, c, w, f, ToPc(r, "failed"), pp, c, w, ff)
<1> DEFINE rr == ToPc(r, "failed")
<1> USE DEF At, Request, RequestInv, FlagsInv, WalletInv, TokenInv, SubscriptionInv,
           PreferenceInv, EarlyPC, ReservePC, SessionType, PaidType,
           ToPc, Paid
<1>1. FundingExact(rr, pp, ff)
  BY DEF Exact, FundingExact, Clean, Pending, Live
<1>2. RefundExact(rr, pp, c, ff)
  BY DEF Exact, FundingExact, Clean, Pending, Live, RefundExact
<1>3. TokenExact(rr, pp, ff)
  BY DEF Exact, TokenExact, TokenOwed, FundingExact, Clean, Pending, Live
<1>4. Booked(r, p, w, rr, pp, w)
  BY DEF Booked, WalletPhase, WalletFee
<1>5. SubscriptionExact(rr, pp, ff)
  BY DEF Exact, SubscriptionExact, FundingExact, RefundExact, Clean, Pending, Live
<1> QED BY <1>1, <1>2, <1>3, <1>4, <1>5 DEF Exact, Goes

\* The process crashes.
LEMMA Crashes ==
    ASSUME NEW r, NEW p, NEW c, NEW w, NEW f, At(r, p, c, w, f),
           NEW pp,
           r.pc # "idle",
           Paid(p, pp, 0, 0, 0)
    PROVE  Goes(r, p, c, w, f, Crashed(r), pp, c, w, f)
<1> DEFINE rr == Crashed(r)
<1> USE DEF At, Request, RequestInv, FlagsInv, WalletInv, TokenInv, SubscriptionInv,
           PreferenceInv, EarlyPC, ReservePC, SessionType, PaidType,
           Crashed, Paid
<1>1. FundingExact(rr, pp, f)
  BY DEF Exact, FundingExact, Clean, Pending, Live
<1>2. RefundExact(rr, pp, c, f)
  BY DEF Exact, FundingExact, Clean, Pending, Live, RefundExact
<1>3. TokenExact(rr, pp, f)
  BY DEF Exact, TokenExact, TokenOwed, FundingExact, Clean, Pending, Live
<1>4. Booked(r, p, w, rr, pp, w)
  BY DEF Booked, WalletPhase, WalletFee
<1>5. SubscriptionExact(rr, pp, f)
  BY DEF Exact, SubscriptionExact, FundingExact, RefundExact, Clean, Pending, Live
<1> QED BY <1>1, <1>2, <1>3, <1>4, <1>5 DEF Exact, Goes

-----------------------------------------------------------------------------
(* From one request to the whole state.                                     *)

\* Only the request s changes.
Only(s) ==
    /\ sess' = [sess EXCEPT ![s] = sess'[s]] /\ paid' = [paid EXCEPT ![s] = paid'[s]]
    /\ record' = [record EXCEPT ![s] = record'[s]]
    /\ faults' \in {faults, faults + 1}

\* amount_used follows what the request has paid from the subscription.
SubBooked(s) ==
    \/ subUsed' = subUsed /\ paid'[s].sub = paid[s].sub
    \/ subUsed' = Clamp(subUsed + (paid'[s].sub - paid[s].sub))

\* A step of s that keeps its books exact and is a step of WalletLedger.
Moved(s) ==
    /\ Only(s) /\ SubBooked(s)
    /\ Goes(sess[s], paid[s], record[s], wallet, faults,
            sess'[s], paid'[s], record'[s], wallet', faults')

\* What the invariants say of one request.
Here(s) ==
    /\ At(sess[s], paid[s], record[s], wallet, faults)
    /\ Numbers(sess[s], paid[s]) /\ paid[s] \in PaidType
    /\ wallet \in Nat /\ faults \in Nat

LEMMA IsHere ==
    ASSUME IInv, ExactInv, NEW s \in Session
    PROVE  Here(s)
<1>1. Request(sess[s], paid[s]) /\ Numbers(sess[s], paid[s]) /\ GlobalOK
  BY Now
<1>2. faults \in Nat
  BY <1>1, ConstantsAssumption DEF GlobalOK
<1> QED BY <1>1, <1>2 DEF Here, At, ExactInv, GlobalOK, Request

\* The statements, as movements of the request's books.
LEMMA Quiet ==
    ASSUME IInv, NEW s \in Session, paid' = paid
    PROVE  /\ paid' = [paid EXCEPT ![s] = paid'[s]]
           /\ Paid(paid[s], paid'[s], 0, 0, 0)
BY DEF IInv, TypeOK, PaidType, Paid

LEMMA TokenMoves ==
    ASSUME IInv, NEW s \in Session, NEW d \in Int, ChangeTokenQuota(s, d)
    PROVE  /\ paid' = [paid EXCEPT ![s] = paid'[s]]
           /\ Paid(paid[s], paid'[s], 0, d, 0)
BY DEF IInv, TypeOK, PaidType, Paid, ChangeTokenQuota

LEMMA WalletMoves ==
    ASSUME IInv, NEW s \in Session, NEW d \in Int, ChangeUserQuota(s, d)
    PROVE  /\ paid' = [paid EXCEPT ![s] = paid'[s]]
           /\ Paid(paid[s], paid'[s], d, 0, 0)
           /\ wallet' = wallet - d /\ wallet' >= 0
           /\ SubBooked(s)
<1>1. paid' = [paid EXCEPT ![s] = paid'[s]] /\ Paid(paid[s], paid'[s], d, 0, 0)
  BY DEF IInv, TypeOK, PaidType, Paid, ChangeUserQuota
<1>2. wallet' = wallet - d /\ wallet' >= 0
  BY DEF IInv, TypeOK, BooksAgree, ChangeUserQuota
<1>3. SubBooked(s)
  BY <1>1 DEF SubBooked, Paid, ChangeUserQuota, IInv, TypeOK, PaidType
<1> QED BY <1>1, <1>2, <1>3

LEMMA SubscriptionMoves ==
    ASSUME IInv, NEW s \in Session, NEW d \in Int, PostConsumeUserSubscriptionDelta(s, d)
    PROVE  /\ paid' = [paid EXCEPT ![s] = paid'[s]]
           /\ Paid(paid[s], paid'[s], 0, 0, d)
           /\ wallet' = wallet
           /\ SubBooked(s)
<1>1. paid' = [paid EXCEPT ![s] = paid'[s]] /\ Paid(paid[s], paid'[s], 0, 0, d)
  BY DEF IInv, TypeOK, PaidType, Paid, PostConsumeUserSubscriptionDelta
<1>2. paid'[s].sub - paid[s].sub = d
  BY <1>1 DEF IInv, TypeOK, PaidType, Paid
<1>3. SubBooked(s)
  BY <1>2 DEF SubBooked, PostConsumeUserSubscriptionDelta
<1> QED BY <1>1, <1>3 DEF PostConsumeUserSubscriptionDelta

LEMMA FundingMoves ==
    ASSUME IInv, NEW s \in Session, NEW d \in Int, FundingMove(s, d)
    PROVE  /\ paid' = [paid EXCEPT ![s] = paid'[s]]
           /\ Funded(sess[s], paid[s], wallet, paid'[s], wallet', d)
           /\ SubBooked(s)
BY WalletMoves, SubscriptionMoves DEF FundingMove, Funded

-----------------------------------------------------------------------------
(* The actions, one lemma each.                                             *)

\* A refused request has taken nothing.
LEMMA ValidateUserTokenMoved ==
    ASSUME IInv, ExactInv, NEW s \in Session, ValidateUserToken(s)
    PROVE  Moved(s)
<1> DEFINE r == sess[s]
           p == paid[s]
<1>1. Here(s)
  BY IsHere
<1>2. sess'[s] = ToPc(r, "rejected")
  BY <1>1 DEF ValidateUserToken, IInv, TypeOK, ToPc
<1>3. Paid(p, paid'[s], 0, 0, 0) /\ wallet' = wallet /\ SubBooked(s)
  BY <1>1, Quiet DEF ValidateUserToken, SubBooked, Paid, Here, PaidType
<1>4. Only(s)
  BY <1>1, Quiet DEF Only, ValidateUserToken, Ok, Fault, IInv, TypeOK, Here, Numbers
<1>5. /\ At(r, p, record[s], wallet, faults)
      /\ r.pc \in {"idle", "checkSub", "tryWallet", "checkToken", "takeToken"}
      /\ record'[s] = record[s]
      /\ wallet' = wallet
      /\ faults' \in {faults, faults + 1}
  BY <1>1, <1>3, <1>4 DEF ValidateUserToken, Here, Only, Ok, Fault, IInv, TypeOK
<1>6. Goes(r, p, record[s], wallet, faults, ToPc(r, "rejected"), paid'[s], record[s],
           wallet, faults')
  BY <1>3, <1>5, Refused
<1> QED
  BY <1>2, <1>3, <1>4, <1>5, <1>6 DEF Moved

\* The look at the subscription moves nothing.
LEMMA HasActiveUserSubscriptionMoved ==
    ASSUME IInv, ExactInv, NEW s \in Session, HasActiveUserSubscription(s)
    PROVE  Moved(s)
<1> DEFINE r == sess[s]
           p == paid[s]
<1>1. Here(s)
  BY IsHere
<1>2. CASE Ok /\ subOn /\ sess' = [sess EXCEPT ![s] = SubscriptionSession(@)]
  <2>1. sess'[s] = SubscriptionSession(r)
    BY <1>1, <1>2 DEF HasActiveUserSubscription, IInv, TypeOK
  <2>2. Paid(p, paid'[s], 0, 0, 0) /\ wallet' = wallet /\ SubBooked(s)
    BY <1>1, <1>2, Quiet DEF HasActiveUserSubscription, SubBooked, Paid, Here, PaidType
  <2>3. Only(s)
    BY <1>1, <1>2, Quiet DEF Only, HasActiveUserSubscription, Ok, Fault, IInv, TypeOK,
       Here, Numbers
  <2>4. /\ At(r, p, record[s], wallet, faults)
        /\ r.pc \in {"idle", "checkSub", "tryWallet"}
        /\ record'[s] = record[s]
        /\ wallet' = wallet
        /\ faults' \in {faults, faults + 1}
    BY <1>1, <1>2, <2>2, <2>3 DEF HasActiveUserSubscription, Here, Only, Ok, Fault, IInv,
       TypeOK
  <2>5. Goes(r, p, record[s], wallet, faults, SubscriptionSession(r), paid'[s], record[s],
             wallet, faults')
    BY <2>2, <2>4, TriesSubscription
  <2> QED
    BY <2>1, <2>2, <2>3, <2>4, <2>5 DEF Moved
<1>3. CASE Ok /\ sess' = [sess EXCEPT ![s] = [@ EXCEPT !.pc = "tryWallet"]]
  <2>1. sess'[s] = ToPc(r, "tryWallet")
    BY <1>1, <1>3 DEF HasActiveUserSubscription, IInv, TypeOK, ToPc
  <2>2. Paid(p, paid'[s], 0, 0, 0) /\ wallet' = wallet /\ SubBooked(s)
    BY <1>1, <1>3, Quiet DEF HasActiveUserSubscription, SubBooked, Paid, Here, PaidType
  <2>3. Only(s)
    BY <1>1, <1>3, Quiet DEF Only, HasActiveUserSubscription, Ok, Fault, IInv, TypeOK,
       Here, Numbers
  <2>4. /\ At(r, p, record[s], wallet, faults)
        /\ "tryWallet" \in {"checkSub", "tryWallet"}
        /\ r.pc \in {"idle", "checkSub"}
        /\ record'[s] = record[s]
        /\ wallet' = wallet
        /\ faults' \in {faults, faults + 1}
    BY <1>1, <1>3, <2>2, <2>3 DEF HasActiveUserSubscription, Here, Only, Ok, Fault, IInv,
       TypeOK
  <2>5. Goes(r, p, record[s], wallet, faults, ToPc(r, "tryWallet"), paid'[s], record[s],
             wallet, faults')
    BY <2>2, <2>4, Turns
  <2> QED
    BY <2>1, <2>2, <2>3, <2>4, <2>5 DEF Moved
<1>4. CASE Fault /\ Reject(s)
  <2>1. sess'[s] = ToPc(r, "rejected")
    BY <1>1, <1>4 DEF HasActiveUserSubscription, Reject, IInv, TypeOK, ToPc
  <2>2. Paid(p, paid'[s], 0, 0, 0) /\ wallet' = wallet /\ SubBooked(s)
    BY <1>1, <1>4, Quiet DEF HasActiveUserSubscription, Reject, SubBooked, Paid, Here,
       PaidType
  <2>3. Only(s)
    BY <1>1, <1>4, Quiet DEF Only, HasActiveUserSubscription, Reject, Ok, Fault, IInv,
       TypeOK, Here, Numbers
  <2>4. /\ At(r, p, record[s], wallet, faults)
        /\ r.pc \in {"idle", "checkSub", "tryWallet", "checkToken", "takeToken"}
        /\ record'[s] = record[s]
        /\ wallet' = wallet
        /\ faults' \in {faults, faults + 1}
    BY <1>1, <1>4, <2>2, <2>3 DEF HasActiveUserSubscription, Here, Only, Ok, Fault, Reject,
       IInv, TypeOK
  <2>5. Goes(r, p, record[s], wallet, faults, ToPc(r, "rejected"), paid'[s], record[s],
             wallet, faults')
    BY <2>2, <2>4, Refused
  <2> QED
    BY <2>1, <2>2, <2>3, <2>4, <2>5 DEF Moved
<1> QED
  BY <1>1, <1>2, <1>3, <1>4 DEF HasActiveUserSubscription, Here, Numbers

\* Neither does the look at the wallet.
LEMMA TryWalletMoved ==
    ASSUME IInv, ExactInv, NEW s \in Session, TryWallet(s)
    PROVE  Moved(s)
<1> DEFINE r == sess[s]
           p == paid[s]
<1>1. Here(s)
  BY IsHere
<1>2. CASE Ok /\ sess' = [sess EXCEPT ![s] = WalletSession(@, ShouldTrust(r))]
  <2>1. sess'[s] = WalletSession(r, ShouldTrust(r))
    BY <1>1, <1>2 DEF TryWallet, IInv, TypeOK
  <2>2. Paid(p, paid'[s], 0, 0, 0) /\ wallet' = wallet /\ SubBooked(s)
    BY <1>1, <1>2, Quiet DEF TryWallet, SubBooked, Paid, Here, PaidType
  <2>3. Only(s)
    BY <1>1, <1>2, Quiet DEF Only, TryWallet, Ok, Fault, IInv, TypeOK, Here, Numbers
  <2>4. /\ At(r, p, record[s], wallet, faults)
        /\ ShouldTrust(r) \in BOOLEAN
        /\ r.pc = "tryWallet"
        /\ record'[s] = record[s]
        /\ wallet' = wallet
        /\ faults' \in {faults, faults + 1}
    BY <1>1, <1>2, <2>2, <2>3 DEF TryWallet, Here, Only, Ok, Fault, IInv, TypeOK,
       ShouldTrust
  <2>5. Goes(r, p, record[s], wallet, faults, WalletSession(r, ShouldTrust(r)), paid'[s],
             record[s], wallet, faults')
    BY <2>2, <2>4, TriesWallet
  <2> QED
    BY <2>1, <2>2, <2>3, <2>4, <2>5 DEF Moved
<1>3. CASE Ok /\ sess' = [sess EXCEPT ![s] = SubscriptionSession(@)]
  <2>1. sess'[s] = SubscriptionSession(r)
    BY <1>1, <1>3 DEF TryWallet, IInv, TypeOK
  <2>2. Paid(p, paid'[s], 0, 0, 0) /\ wallet' = wallet /\ SubBooked(s)
    BY <1>1, <1>3, Quiet DEF TryWallet, SubBooked, Paid, Here, PaidType
  <2>3. Only(s)
    BY <1>1, <1>3, Quiet DEF Only, TryWallet, Ok, Fault, IInv, TypeOK, Here, Numbers
  <2>4. /\ At(r, p, record[s], wallet, faults)
        /\ r.pc \in {"idle", "checkSub", "tryWallet"}
        /\ record'[s] = record[s]
        /\ wallet' = wallet
        /\ faults' \in {faults, faults + 1}
    BY <1>1, <1>3, <2>2, <2>3 DEF TryWallet, Here, Only, Ok, Fault, IInv, TypeOK
  <2>5. Goes(r, p, record[s], wallet, faults, SubscriptionSession(r), paid'[s], record[s],
             wallet, faults')
    BY <2>2, <2>4, TriesSubscription
  <2> QED
    BY <2>1, <2>2, <2>3, <2>4, <2>5 DEF Moved
<1>4. CASE (Ok \/ Fault) /\ Reject(s)
  <2>1. sess'[s] = ToPc(r, "rejected")
    BY <1>1, <1>4 DEF TryWallet, Reject, IInv, TypeOK, ToPc
  <2>2. Paid(p, paid'[s], 0, 0, 0) /\ wallet' = wallet /\ SubBooked(s)
    BY <1>1, <1>4, Quiet DEF TryWallet, Reject, SubBooked, Paid, Here, PaidType
  <2>3. Only(s)
    BY <1>1, <1>4, Quiet DEF Only, TryWallet, Reject, Ok, Fault, IInv, TypeOK, Here, Numbers
  <2>4. /\ At(r, p, record[s], wallet, faults)
        /\ r.pc \in {"idle", "checkSub", "tryWallet", "checkToken", "takeToken"}
        /\ record'[s] = record[s]
        /\ wallet' = wallet
        /\ faults' \in {faults, faults + 1}
    BY <1>1, <1>4, <2>2, <2>3 DEF TryWallet, Here, Only, Ok, Fault, Reject, IInv, TypeOK
  <2>5. Goes(r, p, record[s], wallet, faults, ToPc(r, "rejected"), paid'[s], record[s],
             wallet, faults')
    BY <2>2, <2>4, Refused
  <2> QED
    BY <2>1, <2>2, <2>3, <2>4, <2>5 DEF Moved
<1> QED
  BY <1>1, <1>2, <1>3, <1>4 DEF TryWallet, Here, Numbers

\* Neither does the look at the token.
LEMMA CheckTokenMoved ==
    ASSUME IInv, ExactInv, NEW s \in Session, CheckToken(s)
    PROVE  Moved(s)
<1> DEFINE r == sess[s]
           p == paid[s]
<1>1. Here(s)
  BY IsHere
<1>2. CASE Ok /\ r.playground /\ sess' = [sess EXCEPT ![s] =
                [@ EXCEPT !.tokenConsumed = r.amount, !.pc = "fund"]]
  <2>1. sess'[s] = TokenTaken(r)
    BY <1>1, <1>2 DEF CheckToken, IInv, TypeOK, TokenTaken
  <2>2. Paid(p, paid'[s], 0, 0, 0) /\ wallet' = wallet /\ SubBooked(s)
    BY <1>1, <1>2, Quiet DEF CheckToken, SubBooked, Paid, Here, PaidType
  <2>3. Only(s)
    BY <1>1, <1>2, Quiet DEF Only, CheckToken, Ok, Fault, IInv, TypeOK, Here, Numbers
  <2>4. /\ At(r, p, record[s], wallet, faults)
        /\ r.pc = "checkToken"
        /\ r.playground
        /\ record'[s] = record[s]
        /\ wallet' = wallet
        /\ faults' \in {faults, faults + 1}
    BY <1>1, <1>2, <2>2, <2>3 DEF CheckToken, Here, Only, Ok, Fault, IInv, TypeOK
  <2>5. Goes(r, p, record[s], wallet, faults, TokenTaken(r), paid'[s], record[s], wallet,
             faults')
    BY <2>2, <2>4, NeedsNoToken
  <2> QED
    BY <2>1, <2>2, <2>3, <2>4, <2>5 DEF Moved
<1>3. CASE Ok /\ sess' = [sess EXCEPT ![s].pc = "takeToken"]
  <2>1. sess'[s] = ToPc(r, "takeToken")
    BY <1>1, <1>3 DEF CheckToken, IInv, TypeOK, ToPc
  <2>2. Paid(p, paid'[s], 0, 0, 0) /\ wallet' = wallet /\ SubBooked(s)
    BY <1>1, <1>3, Quiet DEF CheckToken, SubBooked, Paid, Here, PaidType
  <2>3. Only(s)
    BY <1>1, <1>3, Quiet DEF Only, CheckToken, Ok, Fault, IInv, TypeOK, Here, Numbers
  <2>4. /\ At(r, p, record[s], wallet, faults)
        /\ r.pc = "checkToken"
        /\ record'[s] = record[s]
        /\ wallet' = wallet
        /\ faults' \in {faults, faults + 1}
    BY <1>1, <1>3, <2>2, <2>3 DEF CheckToken, Here, Only, Ok, Fault, IInv, TypeOK
  <2>5. Goes(r, p, record[s], wallet, faults, ToPc(r, "takeToken"), paid'[s], record[s],
             wallet, faults')
    BY <2>2, <2>4, ChecksToken
  <2> QED
    BY <2>1, <2>2, <2>3, <2>4, <2>5 DEF Moved
<1>4. CASE (Ok \/ Fault) /\ Reject(s)
  <2>1. sess'[s] = ToPc(r, "rejected")
    BY <1>1, <1>4 DEF CheckToken, Reject, IInv, TypeOK, ToPc
  <2>2. Paid(p, paid'[s], 0, 0, 0) /\ wallet' = wallet /\ SubBooked(s)
    BY <1>1, <1>4, Quiet DEF CheckToken, Reject, SubBooked, Paid, Here, PaidType
  <2>3. Only(s)
    BY <1>1, <1>4, Quiet DEF Only, CheckToken, Reject, Ok, Fault, IInv, TypeOK, Here,
       Numbers
  <2>4. /\ At(r, p, record[s], wallet, faults)
        /\ r.pc \in {"idle", "checkSub", "tryWallet", "checkToken", "takeToken"}
        /\ record'[s] = record[s]
        /\ wallet' = wallet
        /\ faults' \in {faults, faults + 1}
    BY <1>1, <1>4, <2>2, <2>3 DEF CheckToken, Here, Only, Ok, Fault, Reject, IInv, TypeOK
  <2>5. Goes(r, p, record[s], wallet, faults, ToPc(r, "rejected"), paid'[s], record[s],
             wallet, faults')
    BY <2>2, <2>4, Refused
  <2> QED
    BY <2>1, <2>2, <2>3, <2>4, <2>5 DEF Moved
<1> QED
  BY <1>1, <1>2, <1>3, <1>4 DEF CheckToken, Here, Numbers

\* The token gives the estimate, or nothing.
LEMMA TakeTokenMoved ==
    ASSUME IInv, ExactInv, NEW s \in Session, TakeToken(s)
    PROVE  Moved(s)
<1> DEFINE r == sess[s]
           p == paid[s]
<1>1. Here(s)
  BY IsHere
<1>2. CASE Ok /\ ChangeTokenQuota(s, r.amount)
           /\ sess' = [sess EXCEPT ![s] =
                [@ EXCEPT !.tokenConsumed = r.amount, !.pc = "fund"]]
  <2>1. sess'[s] = TokenTaken(r)
    BY <1>1, <1>2 DEF TakeToken, IInv, TypeOK, TokenTaken
  <2>2. Paid(p, paid'[s], 0, r.amount, 0) /\ wallet' = wallet /\ SubBooked(s)
    <3>1. r.amount \in Int
      BY <1>1 DEF Here, Numbers
    <3> QED
      BY <1>1, <1>2, <3>1, TokenMoves DEF TakeToken, SubBooked, Paid, Here, PaidType
  <2>3. Only(s)
    BY <1>1, <1>2, TokenMoves DEF Only, TakeToken, Ok, Fault, IInv, TypeOK, Here, Numbers
  <2>4. /\ At(r, p, record[s], wallet, faults)
        /\ r.pc = "takeToken"
        /\ record'[s] = record[s]
        /\ wallet' = wallet
        /\ faults' = faults
    BY <1>1, <1>2, <2>2, <2>3 DEF TakeToken, Here, Only, Ok, Fault, IInv, TypeOK
  <2>5. Goes(r, p, record[s], wallet, faults, TokenTaken(r), paid'[s], record[s], wallet,
             faults)
    BY <2>2, <2>4, TakesToken
  <2> QED
    BY <2>1, <2>2, <2>3, <2>4, <2>5 DEF Moved
<1>3. CASE Fault /\ Reject(s) /\ UNCHANGED paid
  <2>1. sess'[s] = ToPc(r, "rejected")
    BY <1>1, <1>3 DEF TakeToken, Reject, IInv, TypeOK, ToPc
  <2>2. Paid(p, paid'[s], 0, 0, 0) /\ wallet' = wallet /\ SubBooked(s)
    BY <1>1, <1>3, Quiet DEF TakeToken, Reject, SubBooked, Paid, Here, PaidType
  <2>3. Only(s)
    BY <1>1, <1>3, Quiet DEF Only, TakeToken, Reject, Ok, Fault, IInv, TypeOK, Here, Numbers
  <2>4. /\ At(r, p, record[s], wallet, faults)
        /\ r.pc \in {"idle", "checkSub", "tryWallet", "checkToken", "takeToken"}
        /\ record'[s] = record[s]
        /\ wallet' = wallet
        /\ faults' \in {faults, faults + 1}
    BY <1>1, <1>3, <2>2, <2>3 DEF TakeToken, Here, Only, Ok, Fault, Reject, IInv, TypeOK
  <2>5. Goes(r, p, record[s], wallet, faults, ToPc(r, "rejected"), paid'[s], record[s],
             wallet, faults')
    BY <2>2, <2>4, Refused
  <2> QED
    BY <2>1, <2>2, <2>3, <2>4, <2>5 DEF Moved
<1> QED
  BY <1>1, <1>2, <1>3 DEF TakeToken, Here, Numbers

\* The wallet gives the estimate, or nothing.
LEMMA WalletPreConsumeMoved ==
    ASSUME IInv, ExactInv, NEW s \in Session, WalletPreConsume(s)
    PROVE  Moved(s)
<1> DEFINE r == sess[s]
           p == paid[s]
<1>1. Here(s)
  BY IsHere
<1>2. CASE Ok /\ r.amount > 0 /\ ChangeUserQuota(s, r.amount) /\ UNCHANGED record
           /\ sess' = [sess EXCEPT ![s] = [PreConsumed(@) EXCEPT !.consumed = r.amount]]
  <2>1. sess'[s] = WalletTaken(r)
    BY <1>1, <1>2 DEF WalletPreConsume, IInv, TypeOK, WalletTaken
  <2>2. Paid(p, paid'[s], r.amount, 0, 0) /\ wallet' = wallet - r.amount
        /\ r.amount <= wallet /\ SubBooked(s)
    <3>1. r.amount \in Int
      BY <1>1 DEF Here, Numbers
    <3> QED
      BY <1>1, <1>2, <3>1, WalletMoves DEF WalletPreConsume, SubBooked, Paid, Here, PaidType
  <2>3. Only(s)
    BY <1>1, <1>2, WalletMoves DEF Only, WalletPreConsume, Ok, Fault, IInv, TypeOK, Here,
       Numbers
  <2>4. /\ At(r, p, record[s], wallet, faults)
        /\ r.pc = "fund"
        /\ r.source = "wallet"
        /\ r.amount <= wallet
        /\ record'[s] = record[s]
        /\ wallet' = wallet - r.amount
        /\ faults' = faults
    BY <1>1, <1>2, <2>2, <2>3 DEF WalletPreConsume, Here, Only, Ok, Fault, IInv, TypeOK,
       At, Request, RequestInv, FlagsInv, Numbers
  <2>5. Goes(r, p, record[s], wallet, faults, WalletTaken(r), paid'[s], record[s],
             wallet - r.amount, faults)
    BY <2>2, <2>4, FundsFromWallet
  <2> QED
    BY <2>1, <2>2, <2>3, <2>4, <2>5 DEF Moved
<1>3. CASE Ok /\ r.amount = 0 /\ UNCHANGED <<wallet, subUsed, paid, record>>
           /\ sess' = [sess EXCEPT ![s] = [PreConsumed(@) EXCEPT !.consumed = r.amount]]
  <2>1. sess'[s] = WalletTaken(r)
    BY <1>1, <1>3 DEF WalletPreConsume, IInv, TypeOK, WalletTaken
  <2>2. Paid(p, paid'[s], r.amount, 0, 0) /\ wallet' = wallet - r.amount
        /\ r.amount <= wallet /\ SubBooked(s)
    BY <1>1, <1>3, Quiet DEF WalletPreConsume, SubBooked, Paid, Here, PaidType
  <2>3. Only(s)
    BY <1>1, <1>3, Quiet DEF Only, WalletPreConsume, Ok, Fault, IInv, TypeOK, Here, Numbers
  <2>4. /\ At(r, p, record[s], wallet, faults)
        /\ r.pc = "fund"
        /\ r.source = "wallet"
        /\ r.amount <= wallet
        /\ record'[s] = record[s]
        /\ wallet' = wallet - r.amount
        /\ faults' = faults
    BY <1>1, <1>3, <2>2, <2>3 DEF WalletPreConsume, Here, Only, Ok, Fault, IInv, TypeOK,
       At, Request, RequestInv, FlagsInv, Numbers
  <2>5. Goes(r, p, record[s], wallet, faults, WalletTaken(r), paid'[s], record[s],
             wallet - r.amount, faults)
    BY <2>2, <2>4, FundsFromWallet
  <2> QED
    BY <2>1, <2>2, <2>3, <2>4, <2>5 DEF Moved
<1>4. CASE (Ok \/ Fault) /\ FundingFailed(s, "update")
  <2>1. sess'[s] = NotFunded(r, "update")
    BY <1>1, <1>4 DEF WalletPreConsume, FundingFailed, IInv, TypeOK, NotFunded
  <2>2. Paid(p, paid'[s], 0, 0, 0) /\ wallet' = wallet /\ SubBooked(s)
    BY <1>1, <1>4, Quiet DEF WalletPreConsume, FundingFailed, SubBooked, Paid, Here,
       PaidType
  <2>3. Only(s)
    BY <1>1, <1>4, Quiet DEF Only, WalletPreConsume, FundingFailed, Ok, Fault, IInv,
       TypeOK, Here, Numbers
  <2>4. /\ At(r, p, record[s], wallet, faults)
        /\ "update" \in Codes
        /\ r.pc = "fund"
        /\ record'[s] = record[s]
        /\ wallet' = wallet
        /\ faults' \in {faults, faults + 1}
    BY <1>1, <1>4, <2>2, <2>3 DEF WalletPreConsume, Here, Only, Ok, Fault, FundingFailed,
       IInv, TypeOK, Codes
  <2>5. Goes(r, p, record[s], wallet, faults, NotFunded(r, "update"), paid'[s], record[s],
             wallet, faults')
    BY <2>2, <2>4, FailsToFund
  <2> QED
    BY <2>1, <2>2, <2>3, <2>4, <2>5 DEF Moved
<1> QED
  BY <1>1, <1>2, <1>3, <1>4 DEF WalletPreConsume, Here, Numbers

\* The subscription gives the estimate and the record is made, or neither.
LEMMA SubscriptionPreConsumeMoved ==
    ASSUME IInv, ExactInv, NEW s \in Session, SubscriptionPreConsume(s)
    PROVE  Moved(s)
<1> DEFINE r == sess[s]
           p == paid[s]
<1>1. Here(s)
  BY IsHere
<1>2. CASE Ok /\ PostConsumeUserSubscriptionDelta(s, r.amount)
           /\ record' = [record EXCEPT ![s] = "consumed"]
           /\ sess' = [sess EXCEPT ![s] = [PreConsumed(@) EXCEPT !.subPre = r.amount]]
  <2>1. sess'[s] = SubscriptionTaken(r)
    BY <1>1, <1>2 DEF SubscriptionPreConsume, IInv, TypeOK, SubscriptionTaken
  <2>2. Paid(p, paid'[s], 0, 0, r.amount) /\ wallet' = wallet /\ SubBooked(s)
    <3>1. r.amount \in Int
      BY <1>1 DEF Here, Numbers
    <3> QED
      BY <1>1, <1>2, <3>1, SubscriptionMoves DEF SubscriptionPreConsume, SubBooked, Paid,
         Here, PaidType
  <2>3. Only(s)
    BY <1>1, <1>2, SubscriptionMoves DEF Only, SubscriptionPreConsume, Ok, Fault, IInv,
       TypeOK, Here, Numbers
  <2>4. /\ At(r, p, record[s], wallet, faults)
        /\ r.pc = "fund"
        /\ r.source = "subscription"
        /\ record'[s] = "consumed"
        /\ wallet' = wallet
        /\ faults' = faults
    BY <1>1, <1>2, <2>2, <2>3 DEF SubscriptionPreConsume, Here, Only, Ok, Fault, IInv,
       TypeOK, At, Request, RequestInv, FlagsInv
  <2>5. Goes(r, p, record[s], wallet, faults, SubscriptionTaken(r), paid'[s], "consumed",
             wallet, faults)
    BY <2>2, <2>4, FundsFromSubscription
  <2> QED
    BY <2>1, <2>2, <2>3, <2>4, <2>5 DEF Moved
<1>3. CASE (Ok \/ Fault) /\ FundingFailed(s, "insufficient")
  <2>1. sess'[s] = NotFunded(r, "insufficient")
    BY <1>1, <1>3 DEF SubscriptionPreConsume, FundingFailed, IInv, TypeOK, NotFunded
  <2>2. Paid(p, paid'[s], 0, 0, 0) /\ wallet' = wallet /\ SubBooked(s)
    BY <1>1, <1>3, Quiet DEF SubscriptionPreConsume, FundingFailed, SubBooked, Paid, Here,
       PaidType
  <2>3. Only(s)
    BY <1>1, <1>3, Quiet DEF Only, SubscriptionPreConsume, FundingFailed, Ok, Fault, IInv,
       TypeOK, Here, Numbers
  <2>4. /\ At(r, p, record[s], wallet, faults)
        /\ "insufficient" \in Codes
        /\ r.pc = "fund"
        /\ record'[s] = record[s]
        /\ wallet' = wallet
        /\ faults' \in {faults, faults + 1}
    BY <1>1, <1>3, <2>2, <2>3 DEF SubscriptionPreConsume, Here, Only, Ok, Fault,
       FundingFailed, IInv, TypeOK, Codes
  <2>5. Goes(r, p, record[s], wallet, faults, NotFunded(r, "insufficient"), paid'[s],
             record[s], wallet, faults')
    BY <2>2, <2>4, FailsToFund
  <2> QED
    BY <2>1, <2>2, <2>3, <2>4, <2>5 DEF Moved
<1>4. CASE (Ok \/ Fault) /\ FundingFailed(s, "update")
  <2>1. sess'[s] = NotFunded(r, "update")
    BY <1>1, <1>4 DEF SubscriptionPreConsume, FundingFailed, IInv, TypeOK, NotFunded
  <2>2. Paid(p, paid'[s], 0, 0, 0) /\ wallet' = wallet /\ SubBooked(s)
    BY <1>1, <1>4, Quiet DEF SubscriptionPreConsume, FundingFailed, SubBooked, Paid, Here,
       PaidType
  <2>3. Only(s)
    BY <1>1, <1>4, Quiet DEF Only, SubscriptionPreConsume, FundingFailed, Ok, Fault, IInv,
       TypeOK, Here, Numbers
  <2>4. /\ At(r, p, record[s], wallet, faults)
        /\ "update" \in Codes
        /\ r.pc = "fund"
        /\ record'[s] = record[s]
        /\ wallet' = wallet
        /\ faults' \in {faults, faults + 1}
    BY <1>1, <1>4, <2>2, <2>3 DEF SubscriptionPreConsume, Here, Only, Ok, Fault,
       FundingFailed, IInv, TypeOK, Codes
  <2>5. Goes(r, p, record[s], wallet, faults, NotFunded(r, "update"), paid'[s], record[s],
             wallet, faults')
    BY <2>2, <2>4, FailsToFund
  <2> QED
    BY <2>1, <2>2, <2>3, <2>4, <2>5 DEF Moved
<1> QED
  BY <1>1, <1>2, <1>3, <1>4 DEF SubscriptionPreConsume, Here, Numbers

\* The token gets the estimate back unless an error keeps it.
LEMMA RollbackTokenMoved ==
    ASSUME IInv, ExactInv, NEW s \in Session, RollbackToken(s)
    PROVE  Moved(s)
<1> DEFINE r == sess[s]
           p == paid[s]
           falls == r.pref = "subscription_first" /\ r.source = "subscription"
                      /\ r.code = "insufficient"
<1>1. Here(s)
  BY IsHere
<1>2. sess'[s] = RolledBack(r, IF falls THEN "tryWallet" ELSE "rejected")
  BY <1>1 DEF RollbackToken, IInv, TypeOK, RolledBack
<1>3. /\ \/ faults' = faults
            /\ Paid(p, paid'[s], 0, IF r.playground THEN 0 ELSE -r.tokenConsumed, 0) /\ wallet' = wallet
         \/ faults' = faults + 1 /\ Paid(p, paid'[s], 0, 0, 0) /\ wallet' = wallet
      /\ SubBooked(s)
  <2>1. -r.tokenConsumed \in Int
    BY <1>1 DEF Here, Numbers
  <2>2. CASE Ok /\ r.tokenConsumed > 0 /\ ~r.playground
        /\ ChangeTokenQuota(s, -r.tokenConsumed)
    BY <1>1, <2>1, <2>2, TokenMoves DEF RollbackToken, Ok, SubBooked, Paid, Here, Numbers,
       PaidType
  <2>3. CASE Ok /\ ~(r.tokenConsumed > 0 /\ ~r.playground) /\ UNCHANGED paid
    BY <1>1, <2>3, Quiet DEF RollbackToken, Ok, SubBooked, Paid, Here, Numbers, PaidType
  <2>4. CASE Fault /\ UNCHANGED paid
    BY <1>1, <2>4, Quiet DEF RollbackToken, Fault, SubBooked, Paid, Here, Numbers, PaidType
  <2> QED BY <2>2, <2>3, <2>4 DEF RollbackToken
<1>4. Only(s)
  <2>1. paid' = [paid EXCEPT ![s] = paid'[s]]
    BY <1>1, TokenMoves, WalletMoves, SubscriptionMoves, Quiet DEF RollbackToken, IInv,
       TypeOK, PaidType, ChangeTokenQuota, ChangeUserQuota, PostConsumeUserSubscriptionDelta
  <2> QED
    BY <1>1, <2>1 DEF Only, RollbackToken, Ok, Fault, IInv, TypeOK, Here
<1>5. /\ At(r, p, record[s], wallet, faults)
      /\ (IF falls THEN "tryWallet" ELSE "rejected") \in {"tryWallet", "rejected"}
      /\ r.pc = "rollbackToken"
      /\ record'[s] = record[s]
      /\ wallet' = wallet
      /\ faults' \in {faults, faults + 1}
  <2>1. /\ At(r, p, record[s], wallet, faults)
        /\ r.pc = "rollbackToken"
        /\ record'[s] = record[s]
        /\ wallet' = wallet
        /\ faults' \in {faults, faults + 1}
    BY <1>1, <1>3, <1>4 DEF RollbackToken, Here, Only, Ok, Fault, IInv, TypeOK
  <2> HIDE DEF falls
  <2>2. (IF falls THEN "tryWallet" ELSE "rejected") \in {"tryWallet", "rejected"}
    OBVIOUS
  <2> QED BY <2>1, <2>2
<1>6. Goes(r, p, record[s], wallet, faults, RolledBack(r,
           IF falls THEN "tryWallet" ELSE "rejected"), paid'[s], record[s], wallet, faults')
  BY <1>3, <1>5, RollsBack
<1> QED
  BY <1>2, <1>3, <1>4, <1>5, <1>6 DEF Moved

\* The funding source gives the difference to the target.
LEMMA ReserveMoved ==
    ASSUME IInv, ExactInv, NEW s \in Session, NEW target \in ReserveTargets, Reserve(s,
           target)
    PROVE  Moved(s)
<1> DEFINE r == sess[s]
           p == paid[s]
<1>1. Here(s)
  BY IsHere
<1>2. target \in Nat /\ ReserveTargets # {}
  BY ConstantsAssumption, Zenon
<1>3. sess'[s] = Raised(r, target - r.pre)
  BY <1>1, <1>2 DEF Reserve, IInv, TypeOK, Raised
<1>4. Funded(r, p, wallet, paid'[s], wallet', target - r.pre) /\ SubBooked(s)
  <2>1. target - r.pre \in Int
    BY <1>1, <1>2 DEF Here, Numbers
  <2> QED
    BY <1>1, <1>2, <2>1, FundingMoves DEF Reserve, SubBooked, Paid, Here, PaidType
<1>5. Only(s)
  BY <1>1, <1>2, FundingMoves DEF Only, Reserve, Ok, Fault, IInv, TypeOK, Here, Numbers
<1>6. /\ At(r, p, record[s], wallet, faults)
      /\ target - r.pre \in Nat
      /\ r.pc = "active"
      /\ r.source # "none"
      /\ ReserveTargets # {}
      /\ record'[s] = record[s]
      /\ faults' = faults
  BY <1>1, <1>2, <1>5 DEF Reserve, Here, Only, Ok, Fault, IInv, TypeOK, At, Request,
     RequestInv, FlagsInv, Numbers
<1>7. Goes(r, p, record[s], wallet, faults, Raised(r, target - r.pre), paid'[s], record[s],
           wallet', faults)
  BY <1>4, <1>6, Reserves
<1> QED
  BY <1>3, <1>4, <1>5, <1>6, <1>7 DEF Moved

\* Without a token to take from, the reservation is booked at once.
LEMMA ReserveCheckTokenMoved ==
    ASSUME IInv, ExactInv, NEW s \in Session, ReserveCheckToken(s)
    PROVE  Moved(s)
<1> DEFINE r == sess[s]
           p == paid[s]
<1>1. Here(s)
  BY IsHere
<1>2. CASE Ok /\ r.playground /\ sess' = [sess EXCEPT ![s] = Reserved(@)]
  <2>1. sess'[s] = Reserved(r)
    BY <1>1, <1>2 DEF ReserveCheckToken, IInv, TypeOK
  <2>2. Paid(p, paid'[s], 0, IF r.playground THEN 0 ELSE r.amount, 0)
        /\ wallet' = wallet /\ SubBooked(s)
    BY <1>1, <1>2, Quiet DEF ReserveCheckToken, SubBooked, Paid, Here, PaidType, At,
       Request, RequestInv, FlagsInv
  <2>3. Only(s)
    BY <1>1, <1>2, Quiet DEF Only, ReserveCheckToken, Ok, Fault, IInv, TypeOK, Here, Numbers
  <2>4. /\ At(r, p, record[s], wallet, faults)
        /\ r.pc \in {"reserveCheck", "reserveTake"}
        /\ record'[s] = record[s]
        /\ wallet' = wallet
        /\ faults' = faults
    BY <1>1, <1>2, <2>2, <2>3 DEF ReserveCheckToken, Here, Only, Ok, Fault, IInv, TypeOK
  <2>5. Goes(r, p, record[s], wallet, faults, Reserved(r), paid'[s], record[s], wallet,
             faults)
    BY <2>2, <2>4, BooksReserve
  <2> QED
    BY <2>1, <2>2, <2>3, <2>4, <2>5 DEF Moved
<1>3. CASE (Ok \/ Fault) /\ sess' = [sess EXCEPT ![s].pc = "reserveUndo"]
  <2>1. sess'[s] = ToPc(r, "reserveUndo")
    BY <1>1, <1>3 DEF ReserveCheckToken, IInv, TypeOK, ToPc
  <2>2. Paid(p, paid'[s], 0, 0, 0) /\ wallet' = wallet /\ SubBooked(s)
    BY <1>1, <1>3, Quiet DEF ReserveCheckToken, SubBooked, Paid, Here, PaidType
  <2>3. Only(s)
    BY <1>1, <1>3, Quiet DEF Only, ReserveCheckToken, Ok, Fault, IInv, TypeOK, Here, Numbers
  <2>4. /\ At(r, p, record[s], wallet, faults)
        /\ "reserveUndo" \in {"reserveTake", "reserveUndo"}
        /\ r.pc \in {"reserveCheck", "reserveTake"}
        /\ record'[s] = record[s]
        /\ wallet' = wallet
        /\ faults' \in {faults, faults + 1}
    BY <1>1, <1>3, <2>2, <2>3 DEF ReserveCheckToken, Here, Only, Ok, Fault, IInv, TypeOK
  <2>5. Goes(r, p, record[s], wallet, faults, ToPc(r, "reserveUndo"), paid'[s], record[s],
             wallet, faults')
    BY <2>2, <2>4, ChecksReserve
  <2> QED
    BY <2>1, <2>2, <2>3, <2>4, <2>5 DEF Moved
<1>4. CASE Ok /\ sess' = [sess EXCEPT ![s].pc = "reserveTake"]
  <2>1. sess'[s] = ToPc(r, "reserveTake")
    BY <1>1, <1>4 DEF ReserveCheckToken, IInv, TypeOK, ToPc
  <2>2. Paid(p, paid'[s], 0, 0, 0) /\ wallet' = wallet /\ SubBooked(s)
    BY <1>1, <1>4, Quiet DEF ReserveCheckToken, SubBooked, Paid, Here, PaidType
  <2>3. Only(s)
    BY <1>1, <1>4, Quiet DEF Only, ReserveCheckToken, Ok, Fault, IInv, TypeOK, Here, Numbers
  <2>4. /\ At(r, p, record[s], wallet, faults)
        /\ "reserveTake" \in {"reserveTake", "reserveUndo"}
        /\ r.pc \in {"reserveCheck", "reserveTake"}
        /\ record'[s] = record[s]
        /\ wallet' = wallet
        /\ faults' \in {faults, faults + 1}
    BY <1>1, <1>4, <2>2, <2>3 DEF ReserveCheckToken, Here, Only, Ok, Fault, IInv, TypeOK
  <2>5. Goes(r, p, record[s], wallet, faults, ToPc(r, "reserveTake"), paid'[s], record[s],
             wallet, faults')
    BY <2>2, <2>4, ChecksReserve
  <2> QED
    BY <2>1, <2>2, <2>3, <2>4, <2>5 DEF Moved
<1> QED
  BY <1>1, <1>2, <1>3, <1>4 DEF ReserveCheckToken, Here, Numbers

\* The token follows, and the reservation is booked.
LEMMA ReserveTakeTokenMoved ==
    ASSUME IInv, ExactInv, NEW s \in Session, ReserveTakeToken(s)
    PROVE  Moved(s)
<1> DEFINE r == sess[s]
           p == paid[s]
<1>1. Here(s)
  BY IsHere
<1>2. CASE Ok /\ ChangeTokenQuota(s, r.amount) /\ sess' = [sess EXCEPT ![s] = Reserved(@)]
  <2>1. sess'[s] = Reserved(r)
    BY <1>1, <1>2 DEF ReserveTakeToken, IInv, TypeOK
  <2>2. Paid(p, paid'[s], 0, IF r.playground THEN 0 ELSE r.amount, 0)
        /\ wallet' = wallet /\ SubBooked(s)
    <3>1. r.amount \in Int
      BY <1>1 DEF Here, Numbers
    <3> QED
      BY <1>1, <1>2, <3>1, TokenMoves DEF ReserveTakeToken, SubBooked, Paid, Here,
         PaidType, At, Request, RequestInv, FlagsInv
  <2>3. Only(s)
    BY <1>1, <1>2, TokenMoves DEF Only, ReserveTakeToken, Ok, Fault, IInv, TypeOK, Here,
       Numbers
  <2>4. /\ At(r, p, record[s], wallet, faults)
        /\ r.pc \in {"reserveCheck", "reserveTake"}
        /\ record'[s] = record[s]
        /\ wallet' = wallet
        /\ faults' = faults
    BY <1>1, <1>2, <2>2, <2>3 DEF ReserveTakeToken, Here, Only, Ok, Fault, IInv, TypeOK
  <2>5. Goes(r, p, record[s], wallet, faults, Reserved(r), paid'[s], record[s], wallet,
             faults)
    BY <2>2, <2>4, BooksReserve
  <2> QED
    BY <2>1, <2>2, <2>3, <2>4, <2>5 DEF Moved
<1>3. CASE Fault /\ UNCHANGED paid /\ sess' = [sess EXCEPT ![s].pc = "reserveUndo"]
  <2>1. sess'[s] = ToPc(r, "reserveUndo")
    BY <1>1, <1>3 DEF ReserveTakeToken, IInv, TypeOK, ToPc
  <2>2. Paid(p, paid'[s], 0, 0, 0) /\ wallet' = wallet /\ SubBooked(s)
    BY <1>1, <1>3, Quiet DEF ReserveTakeToken, SubBooked, Paid, Here, PaidType
  <2>3. Only(s)
    BY <1>1, <1>3, Quiet DEF Only, ReserveTakeToken, Ok, Fault, IInv, TypeOK, Here, Numbers
  <2>4. /\ At(r, p, record[s], wallet, faults)
        /\ "reserveUndo" \in {"reserveTake", "reserveUndo"}
        /\ r.pc \in {"reserveCheck", "reserveTake"}
        /\ record'[s] = record[s]
        /\ wallet' = wallet
        /\ faults' \in {faults, faults + 1}
    BY <1>1, <1>3, <2>2, <2>3 DEF ReserveTakeToken, Here, Only, Ok, Fault, IInv, TypeOK
  <2>5. Goes(r, p, record[s], wallet, faults, ToPc(r, "reserveUndo"), paid'[s], record[s],
             wallet, faults')
    BY <2>2, <2>4, ChecksReserve
  <2> QED
    BY <2>1, <2>2, <2>3, <2>4, <2>5 DEF Moved
<1> QED
  BY <1>1, <1>2, <1>3 DEF ReserveTakeToken, Here, Numbers

\* Or the funding source gets the difference back.
LEMMA RollbackFundingReserveMoved ==
    ASSUME IInv, ExactInv, NEW s \in Session, RollbackFundingReserve(s)
    PROVE  Moved(s)
<1> DEFINE r == sess[s]
           p == paid[s]
<1>1. Here(s)
  BY IsHere
<1>2. CASE Ok /\ FundingMove(s, -r.amount)
           /\ sess' = [sess EXCEPT ![s] = [Holding(@, -r.amount) EXCEPT !.pc = "active"]]
  <2>1. sess'[s] = Lowered(r)
    BY <1>1, <1>2 DEF RollbackFundingReserve, IInv, TypeOK, Lowered
  <2>2. Funded(r, p, wallet, paid'[s], wallet', -r.amount) /\ SubBooked(s)
    <3>1. -r.amount \in Int
      BY <1>1 DEF Here, Numbers
    <3> QED
      BY <1>1, <1>2, <3>1, FundingMoves DEF RollbackFundingReserve, SubBooked, Paid, Here,
         PaidType
  <2>3. Only(s)
    BY <1>1, <1>2, FundingMoves DEF Only, RollbackFundingReserve, Ok, Fault, IInv, TypeOK,
       Here, Numbers
  <2>4. /\ At(r, p, record[s], wallet, faults)
        /\ r.pc = "reserveUndo"
        /\ r.source # "none"
        /\ record'[s] = record[s]
        /\ faults' = faults
    BY <1>1, <1>2, <2>3 DEF RollbackFundingReserve, Here, Only, Ok, Fault, IInv, TypeOK,
       At, Request, RequestInv, FlagsInv
  <2>5. Goes(r, p, record[s], wallet, faults, Lowered(r), paid'[s], record[s], wallet',
             faults)
    BY <2>2, <2>4, UndoesReserve
  <2> QED
    BY <2>1, <2>2, <2>3, <2>4, <2>5 DEF Moved
<1>3. CASE Fault /\ UNCHANGED <<wallet, subUsed, paid>>
           /\ sess' = [sess EXCEPT ![s].pc = "active"]
  <2>1. sess'[s] = ToPc(r, "active")
    BY <1>1, <1>3 DEF RollbackFundingReserve, IInv, TypeOK, ToPc
  <2>2. Paid(p, paid'[s], 0, 0, 0) /\ wallet' = wallet /\ SubBooked(s)
    BY <1>1, <1>3, Quiet DEF RollbackFundingReserve, SubBooked, Paid, Here, PaidType
  <2>3. Only(s)
    BY <1>1, <1>3, Quiet DEF Only, RollbackFundingReserve, Ok, Fault, IInv, TypeOK, Here,
       Numbers
  <2>4. /\ At(r, p, record[s], wallet, faults)
        /\ r.pc = "reserveUndo"
        /\ record'[s] = record[s]
        /\ wallet' = wallet
        /\ faults' = faults + 1
    BY <1>1, <1>3, <2>2, <2>3 DEF RollbackFundingReserve, Here, Only, Ok, Fault, IInv,
       TypeOK
  <2>5. Goes(r, p, record[s], wallet, faults, ToPc(r, "active"), paid'[s], record[s],
             wallet, faults + 1)
    BY <2>2, <2>4, KeepsReserve
  <2> QED
    BY <2>1, <2>2, <2>3, <2>4, <2>5 DEF Moved
<1> QED
  BY <1>1, <1>2, <1>3 DEF RollbackFundingReserve, Here, Numbers

\* The funding source gives the difference to the price.
LEMMA SettleMoved ==
    ASSUME IInv, ExactInv, NEW s \in Session, NEW actual \in ActualQuotas, Settle(s, actual)
    PROVE  Moved(s)
<1> DEFINE r == sess[s]
           p == paid[s]
<1>1. Here(s)
  BY IsHere
<1>2. actual \in Nat
  BY ConstantsAssumption, Zenon
<1>3. CASE Ok /\ actual = r.pre /\ UNCHANGED <<wallet, subUsed, paid>>
           /\ sess' = [sess EXCEPT ![s] =
                [@ EXCEPT !.actual = actual, !.settled = TRUE, !.pc = "settled"]]
  <2>1. sess'[s] = SettledAtOnce(r)
    BY <1>1, <1>2, <1>3 DEF Settle, IInv, TypeOK, SettledAtOnce
  <2>2. Paid(p, paid'[s], 0, 0, 0) /\ wallet' = wallet /\ SubBooked(s)
    BY <1>1, <1>2, <1>3, Quiet DEF Settle, SubBooked, Paid, Here, PaidType
  <2>3. Only(s)
    BY <1>1, <1>2, <1>3, Quiet DEF Only, Settle, Ok, Fault, IInv, TypeOK, Here, Numbers
  <2>4. /\ At(r, p, record[s], wallet, faults)
        /\ r.pc = "active"
        /\ record'[s] = record[s]
        /\ wallet' = wallet
        /\ faults' \in {faults, faults + 1}
    BY <1>1, <1>2, <1>3, <2>2, <2>3 DEF Settle, Here, Only, Ok, Fault, IInv, TypeOK
  <2>5. Goes(r, p, record[s], wallet, faults, SettledAtOnce(r), paid'[s], record[s],
             wallet, faults')
    BY <2>2, <2>4, SettlesAtOnce
  <2> QED
    BY <2>1, <2>2, <2>3, <2>4, <2>5 DEF Moved
<1>4. CASE Ok /\ FundingMove(s, actual - r.pre)
           /\ sess' = [sess EXCEPT ![s] =
                [@ EXCEPT !.actual = actual, !.fundingSettled = TRUE, !.pc = "settleToken"]]
  <2>1. sess'[s] = FundingSettled(r, actual)
    BY <1>1, <1>2, <1>4 DEF Settle, IInv, TypeOK, FundingSettled
  <2>2. Funded(r, p, wallet, paid'[s], wallet', actual - r.pre) /\ SubBooked(s)
    <3>1. actual - r.pre \in Int
      BY <1>1, <1>2 DEF Here, Numbers
    <3> QED
      BY <1>1, <1>2, <1>4, <3>1, FundingMoves DEF Settle, SubBooked, Paid, Here, PaidType
  <2>3. Only(s)
    BY <1>1, <1>2, <1>4, FundingMoves DEF Only, Settle, Ok, Fault, IInv, TypeOK, Here,
       Numbers
  <2>4. /\ At(r, p, record[s], wallet, faults)
        /\ actual \in Nat
        /\ r.pc = "active"
        /\ r.source # "none"
        /\ record'[s] = record[s]
        /\ faults' = faults
    BY <1>1, <1>2, <1>4, <2>3 DEF Settle, Here, Only, Ok, Fault, IInv, TypeOK, At, Request,
       RequestInv, FlagsInv
  <2>5. Goes(r, p, record[s], wallet, faults, FundingSettled(r, actual), paid'[s],
             record[s], wallet', faults)
    BY <2>2, <2>4, SettlesFunding
  <2> QED
    BY <2>1, <2>2, <2>3, <2>4, <2>5 DEF Moved
<1>5. CASE (Ok \/ Fault) /\ UNCHANGED <<wallet, subUsed, paid>>
           /\ sess' = [sess EXCEPT ![s] =
                [@ EXCEPT !.actual = actual, !.pc = "unsettled"]]
  <2>1. sess'[s] = NotSettled(r, actual)
    BY <1>1, <1>2, <1>5 DEF Settle, IInv, TypeOK, NotSettled
  <2>2. Paid(p, paid'[s], 0, 0, 0) /\ wallet' = wallet /\ SubBooked(s)
    BY <1>1, <1>2, <1>5, Quiet DEF Settle, SubBooked, Paid, Here, PaidType
  <2>3. Only(s)
    BY <1>1, <1>2, <1>5, Quiet DEF Only, Settle, Ok, Fault, IInv, TypeOK, Here, Numbers
  <2>4. /\ At(r, p, record[s], wallet, faults)
        /\ actual \in Nat
        /\ r.pc = "active"
        /\ record'[s] = record[s]
        /\ wallet' = wallet
        /\ faults' \in {faults, faults + 1}
    BY <1>1, <1>2, <1>5, <2>2, <2>3 DEF Settle, Here, Only, Ok, Fault, IInv, TypeOK
  <2>5. Goes(r, p, record[s], wallet, faults, NotSettled(r, actual), paid'[s], record[s],
             wallet, faults')
    BY <2>2, <2>4, CannotSettle
  <2> QED
    BY <2>1, <2>2, <2>3, <2>4, <2>5 DEF Moved
<1> QED
  BY <1>1, <1>2, <1>3, <1>4, <1>5 DEF Settle, Here, Numbers

\* The token follows, or an error is logged.
LEMMA SettleTokenMoved ==
    ASSUME IInv, ExactInv, NEW s \in Session, SettleToken(s)
    PROVE  Moved(s)
<1> DEFINE r == sess[s]
           p == paid[s]
<1>1. Here(s)
  BY IsHere
<1>2. sess'[s] = TokenSettled(r)
  BY <1>1 DEF SettleToken, IInv, TypeOK, TokenSettled
<1>3. /\ \/ faults' = faults
            /\ Paid(p, paid'[s], 0, IF r.playground THEN 0 ELSE r.actual - r.pre, 0) /\ wallet' = wallet
         \/ faults' = faults + 1 /\ Paid(p, paid'[s], 0, 0, 0) /\ wallet' = wallet
      /\ SubBooked(s)
  <2>1. r.actual - r.pre \in Int
    BY <1>1 DEF Here, Numbers
  <2>2. CASE Ok /\ ~r.playground /\ ChangeTokenQuota(s, r.actual - r.pre)
    BY <1>1, <2>1, <2>2, TokenMoves DEF SettleToken, Ok, SubBooked, Paid, Here, Numbers,
       PaidType
  <2>3. CASE Ok /\ ~(~r.playground) /\ UNCHANGED paid
    BY <1>1, <2>3, Quiet DEF SettleToken, Ok, SubBooked, Paid, Here, Numbers, PaidType
  <2>4. CASE Fault /\ UNCHANGED paid
    BY <1>1, <2>4, Quiet DEF SettleToken, Fault, SubBooked, Paid, Here, Numbers, PaidType
  <2> QED BY <2>2, <2>3, <2>4 DEF SettleToken
<1>4. Only(s)
  <2>1. paid' = [paid EXCEPT ![s] = paid'[s]]
    BY <1>1, TokenMoves, WalletMoves, SubscriptionMoves, Quiet DEF SettleToken, IInv,
       TypeOK, PaidType, ChangeTokenQuota, ChangeUserQuota, PostConsumeUserSubscriptionDelta
  <2> QED
    BY <1>1, <2>1 DEF Only, SettleToken, Ok, Fault, IInv, TypeOK, Here
<1>5. /\ At(r, p, record[s], wallet, faults)
      /\ r.pc = "settleToken"
      /\ record'[s] = record[s]
      /\ wallet' = wallet
      /\ faults' \in {faults, faults + 1}
  BY <1>1, <1>3, <1>4 DEF SettleToken, Here, Only, Ok, Fault, IInv, TypeOK
<1>6. Goes(r, p, record[s], wallet, faults, TokenSettled(r), paid'[s], record[s], wallet,
           faults')
  BY <1>3, <1>5, SettlesToken
<1> QED
  BY <1>2, <1>3, <1>4, <1>5, <1>6 DEF Moved

\* A request that has reserved something is to be refunded.
LEMMA RefundMoved ==
    ASSUME IInv, ExactInv, NEW s \in Session, NEW fee \in FeeQuotas, Refund(s, fee)
    PROVE  Moved(s)
<1> DEFINE r == sess[s]
           p == paid[s]
<1>1. Here(s)
  BY IsHere
<1>2. fee \in Nat
  BY ConstantsAssumption, Zenon
<1>3. sess'[s] = Failing(r, fee)
  BY <1>1, <1>2 DEF Refund, IInv, TypeOK, Failing
<1>4. Paid(p, paid'[s], 0, 0, 0) /\ wallet' = wallet /\ SubBooked(s)
  BY <1>1, <1>2, Quiet DEF Refund, SubBooked, Paid, Here, PaidType
<1>5. Only(s)
  BY <1>1, <1>2, Quiet DEF Only, Refund, Ok, Fault, IInv, TypeOK, Here, Numbers
<1>6. /\ At(r, p, record[s], wallet, faults)
      /\ fee \in Nat
      /\ r.pc \in {"active", "settled", "unsettled"}
      /\ r.source # "none"
      /\ record'[s] = record[s]
      /\ wallet' = wallet
      /\ faults' = faults
  BY <1>1, <1>2, <1>4, <1>5 DEF Refund, Here, Only, Ok, Fault, IInv, TypeOK, At, Request,
     RequestInv, FlagsInv
<1>7. Goes(r, p, record[s], wallet, faults, Failing(r, fee), paid'[s], record[s], wallet,
           faults)
  BY <1>4, <1>6, StartsRefund
<1> QED
  BY <1>3, <1>4, <1>5, <1>6, <1>7 DEF Moved

\* The wallet gets back what the session took.
LEMMA WalletRefundMoved ==
    ASSUME IInv, ExactInv, NEW s \in Session, WalletRefund(s)
    PROVE  Moved(s)
<1> DEFINE r == sess[s]
           p == paid[s]
<1>1. Here(s)
  BY IsHere
<1>2. sess'[s] = ToRpc(r, "token")
  BY <1>1 DEF WalletRefund, IInv, TypeOK, ToRpc
<1>3. /\ \/ faults' = faults /\ Paid(p, paid'[s], -r.consumed, 0, 0)
            /\ wallet' = wallet + r.consumed
         \/ faults' = faults + 1 /\ Paid(p, paid'[s], 0, 0, 0) /\ wallet' = wallet
      /\ SubBooked(s)
  <2>1. -r.consumed \in Int
    BY <1>1 DEF Here, Numbers
  <2>2. CASE Ok /\ r.consumed > 0 /\ ChangeUserQuota(s, -r.consumed)
    BY <1>1, <2>1, <2>2, WalletMoves DEF WalletRefund, Ok, SubBooked, Paid, Here, Numbers,
       PaidType
  <2>3. CASE Ok /\ ~(r.consumed > 0) /\ UNCHANGED <<wallet, subUsed, paid>>
    BY <1>1, <2>3, Quiet DEF WalletRefund, Ok, SubBooked, Paid, Here, Numbers, PaidType
  <2>4. CASE Fault /\ UNCHANGED <<wallet, subUsed, paid>>
    BY <1>1, <2>4, Quiet DEF WalletRefund, Fault, SubBooked, Paid, Here, Numbers, PaidType
  <2> QED BY <2>2, <2>3, <2>4 DEF WalletRefund
<1>4. Only(s)
  <2>1. paid' = [paid EXCEPT ![s] = paid'[s]]
    BY <1>1, TokenMoves, WalletMoves, SubscriptionMoves, Quiet DEF WalletRefund, IInv,
       TypeOK, PaidType, ChangeTokenQuota, ChangeUserQuota, PostConsumeUserSubscriptionDelta
  <2> QED
    BY <1>1, <2>1 DEF Only, WalletRefund, Ok, Fault, IInv, TypeOK, Here
<1>5. /\ At(r, p, record[s], wallet, faults)
      /\ r.rpc = "funding"
      /\ r.source = "wallet"
      /\ record'[s] = record[s]
      /\ faults' \in {faults, faults + 1}
  BY <1>1, <1>4 DEF WalletRefund, Here, Only, Ok, Fault, IInv, TypeOK, At, Request,
     RequestInv, FlagsInv
<1>6. Goes(r, p, record[s], wallet, faults, ToRpc(r, "token"), paid'[s], record[s],
           wallet', faults')
  BY <1>3, <1>5, RefundsWallet
<1> QED
  BY <1>2, <1>3, <1>4, <1>5, <1>6 DEF Moved

\* The subscription gets back what the record says.
LEMMA SubscriptionRefundMoved ==
    ASSUME IInv, ExactInv, NEW s \in Session, SubscriptionRefund(s)
    PROVE  Moved(s)
<1> DEFINE r == sess[s]
           p == paid[s]
<1>1. Here(s)
  BY IsHere
<1>2. CASE Ok /\ record[s] = "refunded" /\ UNCHANGED <<wallet, subUsed, paid>>
           /\ sess' = [sess EXCEPT ![s].rpc = "extra"]
  <2>1. sess'[s] = ToRpc(r, "extra")
    BY <1>1, <1>2 DEF SubscriptionRefund, IInv, TypeOK, ToRpc
  <2>2. Paid(p, paid'[s], 0, 0, 0) /\ wallet' = wallet /\ SubBooked(s)
    BY <1>1, <1>2, Quiet DEF SubscriptionRefund, SubBooked, Paid, Here, PaidType
  <2>3. Only(s)
    BY <1>1, <1>2, Quiet DEF Only, SubscriptionRefund, Ok, Fault, IInv, TypeOK, Here,
       Numbers
  <2>4. /\ At(r, p, record[s], wallet, faults)
        /\ r.rpc = "funding"
        /\ r.source = "subscription"
        /\ record[s] = "refunded"
        /\ record'[s] = record[s]
        /\ wallet' = wallet
        /\ faults' = faults
    BY <1>1, <1>2, <2>2, <2>3 DEF SubscriptionRefund, Here, Only, Ok, Fault, IInv, TypeOK,
       At, Request, RequestInv, FlagsInv
  <2>5. Goes(r, p, record[s], wallet, faults, ToRpc(r, "extra"), paid'[s], record[s],
             wallet, faults)
    BY <2>2, <2>4, SkipsRefund
  <2> QED
    BY <2>1, <2>2, <2>3, <2>4, <2>5 DEF Moved
<1>3. CASE Ok /\ PostConsumeUserSubscriptionDelta(s, -r.subPre)
           /\ sess' = [sess EXCEPT ![s].rpc = "record"]
  <2>1. sess'[s] = ToRpc(r, "record")
    BY <1>1, <1>3 DEF SubscriptionRefund, IInv, TypeOK, ToRpc
  <2>2. Paid(p, paid'[s], 0, 0, (-r.subPre)) /\ wallet' = wallet /\ SubBooked(s)
    <3>1. -r.subPre \in Int
      BY <1>1 DEF Here, Numbers
    <3> QED
      BY <1>1, <1>3, <3>1, SubscriptionMoves DEF SubscriptionRefund, SubBooked, Paid, Here,
         PaidType
  <2>3. Only(s)
    BY <1>1, <1>3, SubscriptionMoves DEF Only, SubscriptionRefund, Ok, Fault, IInv, TypeOK,
       Here, Numbers
  <2>4. /\ At(r, p, record[s], wallet, faults)
        /\ r.rpc = "funding"
        /\ r.source = "subscription"
        /\ record'[s] = record[s]
        /\ wallet' = wallet
        /\ faults' = faults
    BY <1>1, <1>3, <2>2, <2>3 DEF SubscriptionRefund, Here, Only, Ok, Fault, IInv, TypeOK,
       At, Request, RequestInv, FlagsInv
  <2>5. Goes(r, p, record[s], wallet, faults, ToRpc(r, "record"), paid'[s], record[s],
             wallet, faults)
    BY <2>2, <2>4, RefundsSubscription
  <2> QED
    BY <2>1, <2>2, <2>3, <2>4, <2>5 DEF Moved
<1>4. CASE Fault /\ RefundAttemptFailed(s) /\ UNCHANGED <<wallet, subUsed, paid>>
  <2>1. sess'[s] = Retried(r)
    BY <1>1, <1>4 DEF SubscriptionRefund, RefundAttemptFailed, IInv, TypeOK, Retried
  <2>2. Paid(p, paid'[s], 0, 0, 0) /\ wallet' = wallet /\ SubBooked(s)
    BY <1>1, <1>4, Quiet DEF SubscriptionRefund, RefundAttemptFailed, SubBooked, Paid,
       Here, PaidType
  <2>3. Only(s)
    BY <1>1, <1>4, Quiet DEF Only, SubscriptionRefund, RefundAttemptFailed, Ok, Fault,
       IInv, TypeOK, Here, Numbers
  <2>4. /\ At(r, p, record[s], wallet, faults)
        /\ r.rpc \in {"funding", "record"}
        /\ r.source = "subscription"
        /\ record'[s] = record[s]
        /\ wallet' = wallet
        /\ faults' = faults + 1
    BY <1>1, <1>4, <2>2, <2>3 DEF SubscriptionRefund, Here, Only, Ok, Fault,
       RefundAttemptFailed, IInv, TypeOK, At, Request, RequestInv, FlagsInv
  <2>5. Goes(r, p, record[s], wallet, faults, Retried(r), paid'[s], record[s], wallet,
             faults + 1)
    BY <2>2, <2>4, RetriesRefund
  <2> QED
    BY <2>1, <2>2, <2>3, <2>4, <2>5 DEF Moved
<1> QED
  BY <1>1, <1>2, <1>3, <1>4 DEF SubscriptionRefund, Here, Numbers

\* The record says so afterwards.
LEMMA SubscriptionRefundRecordMoved ==
    ASSUME IInv, ExactInv, NEW s \in Session, SubscriptionRefundRecord(s)
    PROVE  Moved(s)
<1> DEFINE r == sess[s]
           p == paid[s]
<1>1. Here(s)
  BY IsHere
<1>2. CASE Ok /\ record' = [record EXCEPT ![s] = "refunded"]
           /\ sess' = [sess EXCEPT ![s].rpc = "extra"]
  <2>1. sess'[s] = ToRpc(r, "extra")
    BY <1>1, <1>2 DEF SubscriptionRefundRecord, IInv, TypeOK, ToRpc
  <2>2. Paid(p, paid'[s], 0, 0, 0) /\ wallet' = wallet /\ SubBooked(s)
    BY <1>1, <1>2, Quiet DEF SubscriptionRefundRecord, SubBooked, Paid, Here, PaidType
  <2>3. Only(s)
    BY <1>1, <1>2, Quiet DEF Only, SubscriptionRefundRecord, Ok, Fault, IInv, TypeOK, Here,
       Numbers
  <2>4. /\ At(r, p, record[s], wallet, faults)
        /\ r.rpc = "record"
        /\ record'[s] = "refunded"
        /\ wallet' = wallet
        /\ faults' = faults
    BY <1>1, <1>2, <2>2, <2>3 DEF SubscriptionRefundRecord, Here, Only, Ok, Fault, IInv,
       TypeOK, At, Request, RequestInv, FlagsInv
  <2>5. Goes(r, p, record[s], wallet, faults, ToRpc(r, "extra"), paid'[s], "refunded",
             wallet, faults)
    BY <2>2, <2>4, MarksRecord
  <2> QED
    BY <2>1, <2>2, <2>3, <2>4, <2>5 DEF Moved
<1>3. CASE Fault /\ RefundAttemptFailed(s) /\ UNCHANGED record
  <2>1. sess'[s] = Retried(r)
    BY <1>1, <1>3 DEF SubscriptionRefundRecord, RefundAttemptFailed, IInv, TypeOK, Retried
  <2>2. Paid(p, paid'[s], 0, 0, 0) /\ wallet' = wallet /\ SubBooked(s)
    BY <1>1, <1>3, Quiet DEF SubscriptionRefundRecord, RefundAttemptFailed, SubBooked,
       Paid, Here, PaidType
  <2>3. Only(s)
    BY <1>1, <1>3, Quiet DEF Only, SubscriptionRefundRecord, RefundAttemptFailed, Ok,
       Fault, IInv, TypeOK, Here, Numbers
  <2>4. /\ At(r, p, record[s], wallet, faults)
        /\ r.rpc \in {"funding", "record"}
        /\ r.source = "subscription"
        /\ record'[s] = record[s]
        /\ wallet' = wallet
        /\ faults' = faults + 1
    BY <1>1, <1>3, <2>2, <2>3 DEF SubscriptionRefundRecord, Here, Only, Ok, Fault,
       RefundAttemptFailed, IInv, TypeOK, At, Request, RequestInv, FlagsInv
  <2>5. Goes(r, p, record[s], wallet, faults, Retried(r), paid'[s], record[s], wallet,
             faults + 1)
    BY <2>2, <2>4, RetriesRefund
  <2> QED
    BY <2>1, <2>2, <2>3, <2>4, <2>5 DEF Moved
<1> QED
  BY <1>1, <1>2, <1>3 DEF SubscriptionRefundRecord, Here, Numbers

\* The subscription gets back what Reserve added.
LEMMA SubscriptionRefundExtraMoved ==
    ASSUME IInv, ExactInv, NEW s \in Session, SubscriptionRefundExtra(s)
    PROVE  Moved(s)
<1> DEFINE r == sess[s]
           p == paid[s]
<1>1. Here(s)
  BY IsHere
<1>2. sess'[s] = ToRpc(r, "token")
  BY <1>1 DEF SubscriptionRefundExtra, IInv, TypeOK, ToRpc
<1>3. /\ \/ faults' = faults /\ Paid(p, paid'[s], 0, 0, -r.extra) /\ wallet' = wallet
         \/ faults' = faults + 1 /\ Paid(p, paid'[s], 0, 0, 0) /\ wallet' = wallet
      /\ SubBooked(s)
  <2>1. -r.extra \in Int
    BY <1>1 DEF Here, Numbers
  <2>2. CASE Ok /\ r.extra > 0 /\ PostConsumeUserSubscriptionDelta(s, -r.extra)
    BY <1>1, <2>1, <2>2, SubscriptionMoves DEF SubscriptionRefundExtra, Ok, SubBooked,
       Paid, Here, Numbers, PaidType
  <2>3. CASE Ok /\ ~(r.extra > 0) /\ UNCHANGED <<wallet, subUsed, paid>>
    BY <1>1, <2>3, Quiet DEF SubscriptionRefundExtra, Ok, SubBooked, Paid, Here, Numbers,
       PaidType
  <2>4. CASE Fault /\ UNCHANGED <<wallet, subUsed, paid>>
    BY <1>1, <2>4, Quiet DEF SubscriptionRefundExtra, Fault, SubBooked, Paid, Here,
       Numbers, PaidType
  <2> QED BY <2>2, <2>3, <2>4 DEF SubscriptionRefundExtra
<1>4. Only(s)
  <2>1. paid' = [paid EXCEPT ![s] = paid'[s]]
    BY <1>1, TokenMoves, WalletMoves, SubscriptionMoves, Quiet DEF SubscriptionRefundExtra,
       IInv, TypeOK, PaidType, ChangeTokenQuota, ChangeUserQuota,
       PostConsumeUserSubscriptionDelta
  <2> QED
    BY <1>1, <2>1 DEF Only, SubscriptionRefundExtra, Ok, Fault, IInv, TypeOK, Here
<1>5. /\ At(r, p, record[s], wallet, faults)
      /\ r.rpc = "extra"
      /\ record'[s] = record[s]
      /\ wallet' = wallet
      /\ faults' \in {faults, faults + 1}
  BY <1>1, <1>3, <1>4 DEF SubscriptionRefundExtra, Here, Only, Ok, Fault, IInv, TypeOK
<1>6. Goes(r, p, record[s], wallet, faults, ToRpc(r, "token"), paid'[s], record[s], wallet,
           faults')
  BY <1>3, <1>5, RefundsExtra
<1> QED
  BY <1>2, <1>3, <1>4, <1>5, <1>6 DEF Moved

\* The token gets back what the session took.
LEMMA RefundTokenMoved ==
    ASSUME IInv, ExactInv, NEW s \in Session, RefundToken(s)
    PROVE  Moved(s)
<1> DEFINE r == sess[s]
           p == paid[s]
<1>1. Here(s)
  BY IsHere
<1>2. sess'[s] = ToRpc(r, "end")
  BY <1>1 DEF RefundToken, IInv, TypeOK, ToRpc
<1>3. /\ \/ faults' = faults
            /\ Paid(p, paid'[s], 0, IF r.playground THEN 0 ELSE -r.tokenConsumed, 0) /\ wallet' = wallet
         \/ faults' = faults + 1 /\ Paid(p, paid'[s], 0, 0, 0) /\ wallet' = wallet
      /\ SubBooked(s)
  <2>1. -r.tokenConsumed \in Int
    BY <1>1 DEF Here, Numbers
  <2>2. CASE Ok /\ r.tokenConsumed > 0 /\ ~r.playground
        /\ ChangeTokenQuota(s, -r.tokenConsumed)
    BY <1>1, <2>1, <2>2, TokenMoves DEF RefundToken, Ok, SubBooked, Paid, Here, Numbers,
       PaidType
  <2>3. CASE Ok /\ ~(r.tokenConsumed > 0 /\ ~r.playground) /\ UNCHANGED paid
    BY <1>1, <2>3, Quiet DEF RefundToken, Ok, SubBooked, Paid, Here, Numbers, PaidType
  <2>4. CASE Fault /\ UNCHANGED paid
    BY <1>1, <2>4, Quiet DEF RefundToken, Fault, SubBooked, Paid, Here, Numbers, PaidType
  <2> QED BY <2>2, <2>3, <2>4 DEF RefundToken
<1>4. Only(s)
  <2>1. paid' = [paid EXCEPT ![s] = paid'[s]]
    BY <1>1, TokenMoves, WalletMoves, SubscriptionMoves, Quiet DEF RefundToken, IInv,
       TypeOK, PaidType, ChangeTokenQuota, ChangeUserQuota, PostConsumeUserSubscriptionDelta
  <2> QED
    BY <1>1, <2>1 DEF Only, RefundToken, Ok, Fault, IInv, TypeOK, Here
<1>5. /\ At(r, p, record[s], wallet, faults)
      /\ r.rpc = "token"
      /\ record'[s] = record[s]
      /\ wallet' = wallet
      /\ faults' \in {faults, faults + 1}
  BY <1>1, <1>3, <1>4 DEF RefundToken, Here, Only, Ok, Fault, IInv, TypeOK
<1>6. Goes(r, p, record[s], wallet, faults, ToRpc(r, "end"), paid'[s], record[s], wallet,
           faults')
  BY <1>3, <1>5, RefundsToken
<1> QED
  BY <1>2, <1>3, <1>4, <1>5, <1>6 DEF Moved

\* The funding source pays the fee, or nobody does.
LEMMA ChargeViolationFeeMoved ==
    ASSUME IInv, ExactInv, NEW s \in Session, ChargeViolationFee(s)
    PROVE  Moved(s)
<1> DEFINE r == sess[s]
           p == paid[s]
<1>1. Here(s)
  BY IsHere
<1>2. CASE Ok /\ FundingMove(s, r.amount)
           /\ sess' = [sess EXCEPT ![s] =
                [@ EXCEPT !.fee = r.amount,
                          !.pc = IF r.playground THEN "failed" ELSE "feeToken"]]
  <2>1. sess'[s] = FeePaid(r)
    BY <1>1, <1>2 DEF ChargeViolationFee, IInv, TypeOK, FeePaid
  <2>2. Funded(r, p, wallet, paid'[s], wallet', r.amount) /\ SubBooked(s)
    <3>1. r.amount \in Int
      BY <1>1 DEF Here, Numbers
    <3> QED
      BY <1>1, <1>2, <3>1, FundingMoves DEF ChargeViolationFee, SubBooked, Paid, Here,
         PaidType
  <2>3. Only(s)
    BY <1>1, <1>2, FundingMoves DEF Only, ChargeViolationFee, Ok, Fault, IInv, TypeOK,
       Here, Numbers
  <2>4. /\ At(r, p, record[s], wallet, faults)
        /\ r.pc = "fee"
        /\ r.source # "none"
        /\ record'[s] = record[s]
        /\ faults' = faults
    BY <1>1, <1>2, <2>3 DEF ChargeViolationFee, Here, Only, Ok, Fault, IInv, TypeOK, At,
       Request, RequestInv, FlagsInv
  <2>5. Goes(r, p, record[s], wallet, faults, FeePaid(r), paid'[s], record[s], wallet',
             faults)
    BY <2>2, <2>4, PaysFee
  <2> QED
    BY <2>1, <2>2, <2>3, <2>4, <2>5 DEF Moved
<1>3. CASE (Ok \/ Fault) /\ UNCHANGED <<wallet, subUsed, paid>>
           /\ sess' = [sess EXCEPT ![s].pc = "failed"]
  <2>1. sess'[s] = ToPc(r, "failed")
    BY <1>1, <1>3 DEF ChargeViolationFee, IInv, TypeOK, ToPc
  <2>2. Paid(p, paid'[s], 0, 0, 0) /\ wallet' = wallet /\ SubBooked(s)
    BY <1>1, <1>3, Quiet DEF ChargeViolationFee, SubBooked, Paid, Here, PaidType
  <2>3. Only(s)
    BY <1>1, <1>3, Quiet DEF Only, ChargeViolationFee, Ok, Fault, IInv, TypeOK, Here,
       Numbers
  <2>4. /\ At(r, p, record[s], wallet, faults)
        /\ r.pc = "fee"
        /\ record'[s] = record[s]
        /\ wallet' = wallet
        /\ faults' \in {faults, faults + 1}
    BY <1>1, <1>3, <2>2, <2>3 DEF ChargeViolationFee, Here, Only, Ok, Fault, IInv, TypeOK
  <2>5. Goes(r, p, record[s], wallet, faults, ToPc(r, "failed"), paid'[s], record[s],
             wallet, faults')
    BY <2>2, <2>4, PaysNoFee
  <2> QED
    BY <2>1, <2>2, <2>3, <2>4, <2>5 DEF Moved
<1> QED
  BY <1>1, <1>2, <1>3 DEF ChargeViolationFee, Here, Numbers

\* The token pays it as well.
LEMMA ChargeViolationFeeTokenMoved ==
    ASSUME IInv, ExactInv, NEW s \in Session, ChargeViolationFeeToken(s)
    PROVE  Moved(s)
<1> DEFINE r == sess[s]
           p == paid[s]
<1>1. Here(s)
  BY IsHere
<1>2. sess'[s] = ToPc(r, "failed")
  BY <1>1 DEF ChargeViolationFeeToken, IInv, TypeOK, ToPc
<1>3. /\ \/ faults' = faults /\ Paid(p, paid'[s], 0, r.fee, 0) /\ wallet' = wallet
         \/ faults' = faults + 1 /\ Paid(p, paid'[s], 0, 0, 0) /\ wallet' = wallet
      /\ SubBooked(s)
  <2>1. r.fee \in Int
    BY <1>1 DEF Here, Numbers
  <2>2. CASE Ok /\ ChangeTokenQuota(s, r.fee)
    BY <1>1, <2>1, <2>2, TokenMoves DEF ChargeViolationFeeToken, Ok, SubBooked, Paid, Here,
       Numbers, PaidType
  <2>4. CASE Fault /\ UNCHANGED paid
    BY <1>1, <2>4, Quiet DEF ChargeViolationFeeToken, Fault, SubBooked, Paid, Here,
       Numbers, PaidType
  <2> QED BY <2>2, <2>4 DEF ChargeViolationFeeToken
<1>4. Only(s)
  <2>1. paid' = [paid EXCEPT ![s] = paid'[s]]
    BY <1>1, TokenMoves, WalletMoves, SubscriptionMoves, Quiet DEF ChargeViolationFeeToken,
       IInv, TypeOK, PaidType, ChangeTokenQuota, ChangeUserQuota,
       PostConsumeUserSubscriptionDelta
  <2> QED
    BY <1>1, <2>1 DEF Only, ChargeViolationFeeToken, Ok, Fault, IInv, TypeOK, Here
<1>5. /\ At(r, p, record[s], wallet, faults)
      /\ r.pc = "feeToken"
      /\ record'[s] = record[s]
      /\ wallet' = wallet
      /\ faults' \in {faults, faults + 1}
  BY <1>1, <1>3, <1>4 DEF ChargeViolationFeeToken, Here, Only, Ok, Fault, IInv, TypeOK
<1>6. Goes(r, p, record[s], wallet, faults, ToPc(r, "failed"), paid'[s], record[s], wallet,
           faults')
  BY <1>3, <1>5, PaysFeeByToken
<1> QED
  BY <1>2, <1>3, <1>4, <1>5, <1>6 DEF Moved


\* A request that arrives starts a session of its own, with empty books.
LEMMA NewBillingSessionMoved ==
    ASSUME IInv, ExactInv, NEW s \in Session, NEW o \in Preferences, NEW q \in PreQuotas,
           NEW g \in Playground, NEW f \in ForcePreConsume,
           NewBillingSession(s, o, q, g, f)
    PROVE  Moved(s)
<1> DEFINE r == sess[s]
           p == paid[s]
           n == IF g THEN 0 ELSE remain
           a == [Fresh EXCEPT !.pref = o, !.ask = q, !.playground = g,
                              !.force = f, !.tokenQuota = n]
<1>1. Here(s)
  BY IsHere
<1>2. Request(r, p) /\ r.pc = "idle"
  BY <1>1 DEF Here, At, NewBillingSession
<1>3. p.wallet = 0 /\ p.token = 0 /\ p.sub = 0
  BY <1>2, IdlePaidNothing
<1>4. Request(a, p)
  <2>1. /\ Preferences \subseteq AllPreferences /\ PreQuotas \subseteq Nat
        /\ Playground \subseteq BOOLEAN /\ ForcePreConsume \subseteq BOOLEAN
    BY ConstantsAssumption, Zenon
  <2>2. o \in AllPreferences /\ q \in Nat /\ g \in BOOLEAN /\ f \in BOOLEAN
    BY <2>1, Zenon
  <2>3. n \in Int
    BY DEF IInv, TypeOK
  <2>4. p \in PaidType
    BY <1>1 DEF Here
  <2> HIDE DEF n
  <2> QED BY <1>3, <2>2, <2>3, <2>4, ArrivedOk
<1>5. /\ a.pc = "idle" /\ a.rpc = "none" /\ a.source = "none" /\ a.fee = 0 /\ a.extra = 0
      /\ a.tokenConsumed = 0 /\ ~a.settled /\ ~a.fundingSettled /\ ~a.refunded
  BY DEF Fresh
<1>6. \/ sess'[s] = SubscriptionSession(a)
      \/ \E next \in {"checkSub", "tryWallet"} : sess'[s] = ToPc(a, next)
  BY DEF NewBillingSession, ToPc, IInv, TypeOK
<1>7. Only(s) /\ Paid(p, paid'[s], 0, 0, 0) /\ SubBooked(s)
      /\ wallet' = wallet /\ record'[s] = record[s] /\ faults' \in {faults, faults + 1}
  BY <1>1, Quiet
     DEF Only, NewBillingSession, Ok, IInv, TypeOK, Here, Paid, PaidType, SubBooked
<1>8. WalletFee(r) = 0 /\ WalletPhase(r, p) = "open"
  BY <1>2 DEF Request, RequestInv, FlagsInv, EarlyPC, WalletFee, WalletPhase, SessionType
<1> HIDE DEF a
<1>9. WalletFee(a) = 0 /\ WalletPhase(a, p) = "open"
  BY <1>5 DEF WalletFee, WalletPhase
<1>10. At(a, p, record[s], wallet, faults)
  <2>1. Exact(a, p, record[s], faults)
    BY <1>3, <1>5 DEF Exact, FundingExact, RefundExact, TokenExact, SubscriptionExact,
       EarlyPC, ReservePC, Clean, Live, Pending
  <2> QED BY <1>1, <1>4, <2>1 DEF At, Here
<1>11. Goes(a, p, record[s], wallet, faults,
            sess'[s], paid'[s], record[s], wallet, faults')
  BY <1>5, <1>6, <1>7, <1>10, TriesSubscription, Turns
<1>12. Goes(r, p, record[s], wallet, faults,
            sess'[s], paid'[s], record[s], wallet, faults')
  BY <1>8, <1>9, <1>11 DEF Goes, Booked
<1> QED BY <1>7, <1>12 DEF Moved

-----------------------------------------------------------------------------
(* The exact books as an invariant.                                         *)

\* Errors only weaken what the books promise.
LEMMA ExactAfterError ==
    ASSUME NEW r, NEW p, NEW c, NEW f \in Nat, Exact(r, p, c, f)
    PROVE  Exact(r, p, c, f + 1)
BY DEF Exact, FundingExact, RefundExact, TokenExact, SubscriptionExact, Clean

\* A step of one request leaves the books of the others as they are.
LEMMA MovedExact ==
    ASSUME IInv, ExactInv, NEW s \in Session, Moved(s)
    PROVE  ExactInv'
<1>1. ASSUME NEW t \in Session PROVE Exact(sess'[t], paid'[t], record'[t], faults')
  <2>1. CASE t = s
    BY <2>1 DEF Moved, Goes
  <2>2. CASE t # s
    <3>1. sess'[t] = sess[t] /\ paid'[t] = paid[t] /\ record'[t] = record[t]
          /\ faults' \in {faults, faults + 1}
      <4>1. /\ sess' = [sess EXCEPT ![s] = sess'[s]] /\ paid' = [paid EXCEPT ![s] = paid'[s]]
            /\ record' = [record EXCEPT ![s] = record'[s]]
            /\ faults' \in {faults, faults + 1}
        BY DEF Moved, Only
      <4>2. DOMAIN sess = Session /\ DOMAIN paid = Session /\ DOMAIN record = Session
        BY DEF IInv, TypeOK
      <4> QED BY <2>2, <4>1, <4>2
    <3>2. Exact(sess[t], paid[t], record[t], faults) /\ faults \in Nat
      BY IsHere DEF ExactInv, Here
    <3> QED BY <3>1, <3>2, ExactAfterError
  <2> QED BY <2>1, <2>2
<1> QED BY <1>1 DEF ExactInv

\* A crash ends the requests under way, takes nothing and gives nothing back.
LEMMA CrashGoes ==
    ASSUME IInv, ExactInv, Crash, NEW s \in Session
    PROVE  Goes(sess[s], paid[s], record[s], wallet, faults,
                sess'[s], paid'[s], record'[s], wallet', faults')
<1>1. Here(s)
  BY IsHere
<1>2. /\ paid'[s] = paid[s] /\ record'[s] = record[s]
      /\ wallet' = wallet /\ faults' = faults
  BY DEF Crash
<1>3. Paid(paid[s], paid'[s], 0, 0, 0) /\ At(sess[s], paid[s], record[s], wallet, faults)
  BY <1>1, <1>2 DEF Here, Paid, PaidType
<1>4. CASE sess'[s] = sess[s]
  BY <1>2, <1>3, <1>4 DEF Goes, At, Booked
<1>5. CASE sess[s].pc # "idle" /\ sess'[s] = Crashed(sess[s])
  <2>1. Goes(sess[s], paid[s], record[s], wallet, faults,
             Crashed(sess[s]), paid'[s], record[s], wallet, faults)
    BY <1>3, <1>5, Crashes
  <2> QED BY <1>2, <1>5, <2>1
<1>6. sess'[s] = sess[s] \/ (sess[s].pc # "idle" /\ sess'[s] = Crashed(sess[s]))
  BY DEF Crash, Crashed
<1> QED BY <1>4, <1>5, <1>6

\* Every step is a step of one request, a crash, or leaves the books alone.
LEMMA StepKinds ==
    ASSUME IInv, ExactInv, [Next]_vars
    PROVE  \/ \E s \in Session : Moved(s)
           \/ Crash
           \/ UNCHANGED <<wallet, subUsed, record, sess, paid, faults>>
<1>1. CASE UNCHANGED vars
  BY <1>1 DEF vars
<1>2. ASSUME NEW s \in Session, Arrive(s) PROVE Moved(s)
  <2>1. CASE ValidateUserToken(s)
    BY <2>1, ValidateUserTokenMoved
  <2>2. CASE \E o \in Preferences, q \in PreQuotas, g \in Playground, f \in ForcePreConsume :
               NewBillingSession(s, o, q, g, f)
    <3>1. PICK o \in Preferences, q \in PreQuotas, g \in Playground, f \in ForcePreConsume :
                 NewBillingSession(s, o, q, g, f)
      BY <2>2, Zenon
    <3> QED BY <3>1, NewBillingSessionMoved, Zenon
  <2> QED BY <1>2, <2>1, <2>2, Zenon DEF Arrive
<1>3. ASSUME NEW s \in Session, Advance(s) PROVE Moved(s)
  BY <1>3, HasActiveUserSubscriptionMoved, TryWalletMoved, CheckTokenMoved, TakeTokenMoved,
     WalletPreConsumeMoved, SubscriptionPreConsumeMoved, RollbackTokenMoved,
     ReserveCheckTokenMoved, ReserveTakeTokenMoved, RollbackFundingReserveMoved,
     SettleTokenMoved, ChargeViolationFeeMoved, ChargeViolationFeeTokenMoved
     DEF Advance
<1>4. ASSUME NEW s \in Session, AdvanceRefund(s) PROVE Moved(s)
  BY <1>4, WalletRefundMoved, SubscriptionRefundMoved, SubscriptionRefundRecordMoved,
     SubscriptionRefundExtraMoved, RefundTokenMoved DEF AdvanceRefund
<1>5. ASSUME NEW s \in Session, Answer(s) PROVE Moved(s)
  BY <1>5, SettleMoved, RefundMoved DEF Answer
<1>6. ASSUME NEW s \in Session, NEW t \in ReserveTargets, Reserve(s, t) PROVE Moved(s)
  BY <1>6, ReserveMoved
<1>7. CASE EndSubscription
  BY <1>7 DEF EndSubscription, Ok
<1>8. CASE Done
  BY <1>1, <1>8 DEF Done
<1> QED BY <1>1, <1>2, <1>3, <1>4, <1>5, <1>6, <1>7, <1>8 DEF Next

\* Before the first request the books are exact.
LEMMA InitExact == Init => ExactInv
<1> SUFFICES ASSUME Init, NEW s \in Session
             PROVE  Exact(sess[s], paid[s], record[s], faults)
  BY DEF ExactInv
<1>1. sess[s] = Fresh /\ paid[s] = [wallet |-> 0, token |-> 0, sub |-> 0]
  BY DEF Init
<1>2. /\ Fresh.pc = "idle" /\ Fresh.rpc = "none" /\ Fresh.source = "none"
      /\ Fresh.extra = 0 /\ Fresh.tokenConsumed = 0 /\ Fresh.settled = FALSE
      /\ paid[s].token = 0 /\ paid[s].sub = 0
  BY <1>1 DEF Fresh
<1> QED BY <1>1, <1>2 DEF Exact, FundingExact, RefundExact, TokenExact, SubscriptionExact,
           EarlyPC, ReservePC

\* Every step keeps them exact.
LEMMA NextExact == IInv /\ ExactInv /\ [Next]_vars => ExactInv'
<1> SUFFICES ASSUME IInv, ExactInv, [Next]_vars PROVE ExactInv'
  OBVIOUS
<1>1. CASE \E s \in Session : Moved(s)
  BY <1>1, MovedExact
<1>2. CASE Crash
  BY <1>2, CrashGoes DEF Goes, ExactInv
<1>3. CASE UNCHANGED <<wallet, subUsed, record, sess, paid, faults>>
  BY <1>3 DEF ExactInv
<1> QED BY <1>1, <1>2, <1>3, StepKinds

\* In every reachable state the session's fields tell, to the unit, what its
\* request has taken from the funding source and from the token.
THEOREM BooksAreExact == Spec => []ExactInv
BY Invariance, InitExact, NextExact, PTL DEF Spec

-----------------------------------------------------------------------------
(* What a request has paid in the end.                                      *)

\* A settled request has paid its real price and its fee, from one funding
\* source and, as long as no database error was logged, from the token.
THEOREM SettledRequestsPayTheirPrice == Spec => []SettledPaysActual
<1>1. IInv /\ ExactInv => SettledPaysActual
  <2> SUFFICES ASSUME IInv, ExactInv, NEW s \in Session, sess[s].settled,
                      ReserveTargets = {} \/ faults = 0
               PROVE  /\ FundingPaid(s) = sess[s].actual + sess[s].fee
                      /\ faults = 0 /\ sess[s].pc \notin {"feeToken", "crashed"} =>
                           paid[s].token = IF sess[s].playground THEN 0
                                           ELSE sess[s].actual + sess[s].fee
    BY DEF SettledPaysActual
  <2> DEFINE r == sess[s]
             p == paid[s]
  <2>1. Request(r, p) /\ Numbers(r, p) /\ Exact(r, p, record[s], faults) /\ Clean(faults)
    BY Now DEF ExactInv, Clean
  <2>2. ~r.refunded /\ r.rpc = "none" /\ r.pc \notin EarlyPC \cup ReservePC
        /\ r.pc \in {"settled", "fee", "feeToken", "failed", "crashed"}
    BY <2>1 DEF Request, RequestInv, FlagsInv, EarlyPC, ReservePC, SessionType, PC
  <2>3. Live(r) /\ Pending(r) = 0 /\ r.source \in {"wallet", "subscription"}
    BY <2>1, <2>2 DEF Live, Pending, Exact, FundingExact, Request, SessionType
  <2>4. FundingPaid(s) = r.actual + r.fee
    <3>1. CASE r.source = "wallet"
      BY <2>1, <2>2, <2>3, <3>1 DEF FundingPaid, Exact, FundingExact, Request,
         RequestInv, WalletInv, SubscriptionInv, Numbers
    <3>2. CASE r.source = "subscription"
      BY <2>1, <2>2, <2>3, <3>2 DEF FundingPaid, Exact, FundingExact, Request,
         RequestInv, WalletInv, Numbers
    <3> QED BY <2>3, <3>1, <3>2
  <2>5. ASSUME faults = 0, r.pc \notin {"feeToken", "crashed"}
        PROVE  p.token = IF r.playground THEN 0 ELSE r.actual + r.fee
    <3>1. CASE r.playground
      BY <2>1, <3>1 DEF Request, RequestInv, TokenInv
    <3>2. CASE ~r.playground
      <4>1. TokenOwed(r) = r.actual
        BY DEF TokenOwed
      <4>2. r.pc \in {"settled", "fee"} => r.fee = 0
        BY <2>1 DEF Request, RequestInv, FlagsInv
      <4>3. /\ r.pc \in {"settled", "fee", "feeToken"} => p.token = TokenOwed(r)
            /\ r.pc = "failed" => p.token = TokenOwed(r) + r.fee
        BY <2>1, <2>5, <3>2 DEF Exact, TokenExact
      <4> QED BY <2>1, <2>2, <2>5, <3>2, <4>1, <4>2, <4>3 DEF Numbers
    <3> QED BY <3>1, <3>2
  <2> QED BY <2>4, <2>5
<1> QED BY Invariance, BooksAreExact, <1>1, PTL

\* A refused request has paid nothing, and a failed one whose refund has ended
\* without an error has paid its fee and nothing else.
THEOREM FailedRequestsAreRefunded == Spec => []RefundReturnsAll
<1>1. IInv /\ ExactInv => RefundReturnsAll
  <2> SUFFICES ASSUME IInv, ExactInv, NEW s \in Session
               PROVE  LET r == sess[s]
                          charged == IF r.pc = "rejected" THEN 0 ELSE r.fee
                      IN  \/ r.pc = "rejected"
                          \/ r.pc = "failed" /\ r.rpc = "end" /\ faults = 0
                          => /\ FundingPaid(s) = charged
                             /\ faults = 0 =>
                                  paid[s].token = IF r.playground THEN 0 ELSE charged
    BY DEF RefundReturnsAll
  <2> DEFINE r == sess[s]
             p == paid[s]
  <2>1. Request(r, p) /\ Numbers(r, p) /\ Exact(r, p, record[s], faults)
    BY Now DEF ExactInv
  <2>2. r.playground => p.token = 0
    BY <2>1 DEF Request, RequestInv, TokenInv
  <2>3. ASSUME r.pc = "rejected"
        PROVE  FundingPaid(s) = 0 /\ (faults = 0 /\ ~r.playground => p.token = 0)
    <3>1. p.sub = 0 /\ p.wallet = 0
      BY <2>1, <2>3 DEF Request, RequestInv, FlagsInv, WalletInv, SubscriptionInv,
         EarlyPC, Numbers
    <3>2. faults = 0 /\ ~r.playground => p.token = 0
      BY <2>1, <2>3 DEF Exact, TokenExact
    <3> QED BY <3>1, <3>2 DEF FundingPaid
  <2>4. ASSUME r.pc = "failed", r.rpc = "end", faults = 0
        PROVE  FundingPaid(s) = r.fee /\ (~r.playground => p.token = r.fee)
    <3>1. r.source \in {"wallet", "subscription"} /\ ~r.settled
      BY <2>1, <2>4 DEF Request, RequestInv, FlagsInv, SessionType
    <3>2. FundingPaid(s) = r.fee
      <4>1. CASE r.source = "wallet"
        BY <2>1, <2>4, <4>1 DEF FundingPaid, Exact, RefundExact, Request, RequestInv,
           SubscriptionInv, Numbers
      <4>2. CASE r.source = "subscription"
        BY <2>1, <2>4, <4>2 DEF FundingPaid, Exact, RefundExact, Request, RequestInv,
           WalletInv, Numbers
      <4> QED BY <3>1, <4>1, <4>2
    <3>3. ~r.playground => p.token = r.fee
      BY <2>1, <2>4, <3>1 DEF Exact, TokenExact, TokenOwed, Numbers
    <3> QED BY <3>2, <3>3
  <2> QED BY <2>2, <2>3, <2>4
<1> QED BY Invariance, BooksAreExact, <1>1, PTL

-----------------------------------------------------------------------------
(* The refinement of WalletLedger.                                          *)

\* The first state is one of the ledger.
LEMMA LedgerInit == Init => Ledger!Init
<1> SUFFICES ASSUME Init PROVE Ledger!Init
  OBVIOUS
<1>1. \A s \in Session : /\ paid[s].wallet - WalletFee(sess[s]) = 0
                         /\ WalletFee(sess[s]) = 0
                         /\ WalletPhase(sess[s], paid[s]) = "open"
  <2> SUFFICES ASSUME NEW s \in Session
               PROVE  /\ paid[s].wallet - WalletFee(sess[s]) = 0
                      /\ WalletFee(sess[s]) = 0
                      /\ WalletPhase(sess[s], paid[s]) = "open"
    OBVIOUS
  <2>1. /\ paid[s].wallet = 0 /\ sess[s].source = "none" /\ ~sess[s].settled
        /\ ~sess[s].fundingSettled /\ ~sess[s].refunded
    BY DEF Init, Fresh
  <2> QED BY <2>1 DEF WalletFee, WalletPhase
<1> QED BY <1>1 DEF Init, Ledger!Init

\* A step of one request is a step of the ledger, or none.
LEMMA MovedLedger ==
    ASSUME IInv, IInv', NEW s \in Session, Moved(s)
    PROVE  [Ledger!Next]_(Ledger!lvars)
<1> DEFINE held == [t \in Session |-> paid[t].wallet - WalletFee(sess[t])]
           fees == [t \in Session |-> WalletFee(sess[t])]
           phase == [t \in Session |-> WalletPhase(sess[t], paid[t])]
           h == paid'[s].wallet - WalletFee(sess'[s])
           e == WalletFee(sess'[s])
           z == WalletPhase(sess'[s], paid'[s])
<1>1. /\ held' = [held EXCEPT ![s] = h]
      /\ fees' = [fees EXCEPT ![s] = e]
      /\ phase' = [phase EXCEPT ![s] = z]
  <2>1. \A t \in Session : t # s => sess'[t] = sess[t] /\ paid'[t] = paid[t]
    <3>1. DOMAIN sess = Session /\ DOMAIN paid = Session
      BY DEF IInv, TypeOK
    <3>2. sess' = [sess EXCEPT ![s] = sess'[s]] /\ paid' = [paid EXCEPT ![s] = paid'[s]]
      BY DEF Moved, Only
    <3> QED BY <3>1, <3>2
  <2> QED BY <2>1
<1>2. held[s] \in Int /\ fees[s] \in Int /\ wallet \in Nat /\ h \in Int /\ e \in Int
  <2>1. Numbers(sess[s], paid[s]) /\ wallet \in Nat
    BY Now DEF GlobalOK
  <2>2. sess'[s].fee \in Nat /\ paid'[s].wallet \in Int
    BY DEF IInv, TypeOK, SessionType, PaidType
  <2> QED BY <2>1, <2>2 DEF Numbers, WalletFee
<1>3. \/ h = held[s] /\ e = fees[s] /\ z = phase[s] /\ wallet' = wallet
      \/ /\ phase[s] = "open" /\ z \in {"open", "charged"}
         /\ h >= 0 /\ wallet' = wallet - (h - held[s]) /\ wallet' >= 0 /\ e = fees[s]
      \/ /\ phase[s] = "open" /\ z = "released"
         /\ h = 0 /\ wallet' = wallet + held[s] /\ e = fees[s]
      \/ /\ h = held[s] /\ z = phase[s] /\ fees[s] = 0
         /\ e >= 1 /\ wallet' = wallet - e /\ wallet' >= 0
  BY DEF Moved, Goes, Booked
<1>4. DOMAIN held = Session /\ DOMAIN fees = Session /\ DOMAIN phase = Session
      /\ held = [t \in Session |-> held[t]] /\ fees = [t \in Session |-> fees[t]]
      /\ phase = [t \in Session |-> phase[t]]
  OBVIOUS
<1> DEFINE Unmoved == UNCHANGED <<wallet, held, fees, phase>>
           HoldStep ==
             \E n \in 0..(held[s] + wallet) :
               /\ phase[s] = "open"
               /\ held' = [held EXCEPT ![s] = n]
               /\ wallet' = wallet - (n - held[s])
               /\ UNCHANGED <<fees, phase>>
           ChargeStep ==
             \E n \in 0..(held[s] + wallet) :
               /\ phase[s] = "open"
               /\ held' = [held EXCEPT ![s] = n]
               /\ wallet' = wallet - (n - held[s])
               /\ phase' = [phase EXCEPT ![s] = "charged"]
               /\ UNCHANGED fees
           ReleaseStep ==
             /\ phase[s] = "open"
             /\ held' = [held EXCEPT ![s] = 0]
             /\ wallet' = wallet + held[s]
             /\ phase' = [phase EXCEPT ![s] = "released"]
             /\ UNCHANGED fees
           FeeStep ==
             \E n \in 1..wallet :
               /\ fees[s] = 0
               /\ fees' = [fees EXCEPT ![s] = n]
               /\ wallet' = wallet - n
               /\ UNCHANGED <<held, phase>>
<1>5. Unmoved \/ HoldStep \/ ChargeStep \/ ReleaseStep \/ FeeStep
  <2> HIDE DEF held, fees, phase, h, e, z
  <2>1. CASE h = held[s] /\ e = fees[s] /\ z = phase[s] /\ wallet' = wallet
    BY <1>1, <1>4, <2>1
  <2>2. CASE /\ phase[s] = "open" /\ z \in {"open", "charged"}
             /\ h >= 0 /\ wallet' = wallet - (h - held[s]) /\ wallet' >= 0 /\ e = fees[s]
    <3>1. h \in 0..(held[s] + wallet)
      BY <1>2, <2>2
    <3>2. fees' = fees
      BY <1>1, <1>4, <2>2
    <3>3. CASE z = "open"
      BY <1>1, <1>4, <2>2, <3>1, <3>2, <3>3
    <3>4. CASE z = "charged"
      BY <1>1, <2>2, <3>1, <3>2, <3>4
    <3> QED BY <2>2, <3>3, <3>4
  <2>3. CASE /\ phase[s] = "open" /\ z = "released"
             /\ h = 0 /\ wallet' = wallet + held[s] /\ e = fees[s]
    BY <1>1, <1>4, <2>3
  <2>4. CASE /\ h = held[s] /\ z = phase[s] /\ fees[s] = 0
             /\ e >= 1 /\ wallet' = wallet - e /\ wallet' >= 0
    <3>1. e \in 1..wallet
      BY <1>2, <2>4
    <3>2. held' = held /\ phase' = phase
      BY <1>1, <1>4, <2>4
    <3> QED BY <1>1, <2>4, <3>1, <3>2
  <2> QED BY <1>3, <2>1, <2>2, <2>3, <2>4
<1>6. Unmoved => UNCHANGED Ledger!lvars
  BY DEF Ledger!lvars
<1>7. HoldStep => Ledger!Hold(s)
  BY DEF Ledger!Hold
<1>8. ChargeStep => Ledger!Charge(s)
  BY DEF Ledger!Charge
<1>9. ReleaseStep => Ledger!Release(s)
  BY DEF Ledger!Release
<1>10. FeeStep => Ledger!Fee(s)
  BY DEF Ledger!Fee
<1> HIDE DEF Unmoved, HoldStep, ChargeStep, ReleaseStep, FeeStep
<1> QED BY <1>5, <1>6, <1>7, <1>8, <1>9, <1>10 DEF Ledger!Next

\* A crash is no step of the ledger: what the request held it keeps holding.
LEMMA CrashLedger ==
    ASSUME IInv, Crash
    PROVE  UNCHANGED Ledger!lvars
<1>1. \A s \in Session :
         /\ paid'[s].wallet - WalletFee(sess'[s]) = paid[s].wallet - WalletFee(sess[s])
         /\ WalletFee(sess'[s]) = WalletFee(sess[s])
         /\ WalletPhase(sess'[s], paid'[s]) = WalletPhase(sess[s], paid[s])
  <2> SUFFICES ASSUME NEW s \in Session
               PROVE  /\ WalletFee(sess'[s]) = WalletFee(sess[s])
                      /\ WalletPhase(sess'[s], paid'[s]) = WalletPhase(sess[s], paid[s])
    BY DEF Crash
  <2>1. /\ paid'[s] = paid[s] /\ sess'[s].fee = sess[s].fee
        /\ sess'[s].source = sess[s].source /\ sess'[s].settled = sess[s].settled
        /\ sess'[s].fundingSettled = sess[s].fundingSettled
        /\ sess'[s].refunded = sess[s].refunded
    <3>1. sess'[s] = sess[s] \/ sess'[s] = Crashed(sess[s])
      BY DEF Crash, Crashed
    <3>2. sess[s] \in SessionType /\ paid'[s] = paid[s]
      BY DEF Crash, IInv, TypeOK
    <3> QED BY <3>1, <3>2 DEF Crashed, SessionType
  <2> QED BY <2>1 DEF WalletFee, WalletPhase
<1>2. wallet' = wallet
  BY DEF Crash
<1> QED BY <1>1, <1>2 DEF Ledger!lvars

LEMMA LedgerNext == IInv /\ IInv' /\ ExactInv /\ [Next]_vars => [Ledger!Next]_(Ledger!lvars)
<1> SUFFICES ASSUME IInv, IInv', ExactInv, [Next]_vars PROVE [Ledger!Next]_(Ledger!lvars)
  OBVIOUS
<1>1. CASE \E s \in Session : Moved(s)
  BY <1>1, MovedLedger
<1>2. CASE Crash
  BY <1>2, CrashLedger
<1>3. CASE UNCHANGED <<wallet, subUsed, record, sess, paid, faults>>
  BY <1>3 DEF Ledger!lvars
<1> QED BY <1>1, <1>2, <1>3, StepKinds

\* The billing session implements the wallet ledger: whatever interleaves, fails
\* or crashes, every change of users.quota is one request holding, being charged,
\* having released or paying a fee, and each is closed once.
THEOREM SessionsRefineLedger == Spec => ImplementsWalletLedger
<1>1. Init => Ledger!Init
  BY LedgerInit
<1>2. IInv /\ IInv' /\ ExactInv /\ [Next]_vars => [Ledger!Next]_(Ledger!lvars)
  BY LedgerNext
<1> QED BY <1>1, <1>2, Invariance, BooksAreExact, PTL
        DEF Spec, ImplementsWalletLedger, Ledger!Spec

-----------------------------------------------------------------------------
(* The books of the subscription.                                           *)

\* amount_used counts the units the requests hold, which are finitely many.
UnitsInv ==
    faults = 0 => IsFiniteSet(SubscriptionUnits) /\ subUsed = Cardinality(SubscriptionUnits)

\* One request's units, beside those of the others.
LEMMA UnitsOfOne ==
    ASSUME NEW A, IsFiniteSet(A), NEW s, NEW n \in Nat, \A u \in A : u[1] # s
    PROVE  /\ IsFiniteSet(A \cup ({s} \X (1..n)))
           /\ Cardinality(A \cup ({s} \X (1..n))) = Cardinality(A) + n
           /\ Cardinality(A) \in Nat
<1> DEFINE B == {s} \X (1..n)
<1>1. IsFiniteSet(1..n) /\ Cardinality(1..n) = n
  BY FS_Interval
<1>2. IsFiniteSet({s}) /\ Cardinality({s}) = 1
  BY FS_Singleton
<1>3. IsFiniteSet(B) /\ Cardinality(B) = n
  BY <1>1, <1>2, FS_Product
<1>4. A \cap B = {}
  OBVIOUS
<1>5. Cardinality(A) \in Nat /\ Cardinality({}) = 0
  BY FS_CardinalityType, FS_EmptySet
<1> HIDE DEF B
<1>6. IsFiniteSet(A \cup B) /\ Cardinality(A \cup B) = Cardinality(A) + n
  BY <1>3, <1>4, <1>5, FS_Union
<1> QED BY <1>5, <1>6 DEF B

\* A step of one request changes amount_used by what changes in its units.
LEMMA MovedUnits ==
    ASSUME IInv, IInv', ExactInv, ExactInv', UnitsInv, NEW s \in Session, Moved(s)
    PROVE  UnitsInv'
<1> SUFFICES ASSUME faults' = 0
             PROVE  (/\ IsFiniteSet(SubscriptionUnits)
                     /\ subUsed = Cardinality(SubscriptionUnits))'
  BY DEF UnitsInv
<1> DEFINE A == UNION {{t} \X (1..paid[t].sub) : t \in Session \ {s}}
           n == paid[s].sub
           m == paid'[s].sub
<1>1. faults = 0
  BY IsHere DEF Here, Moved, Only
<1>2. n \in Nat /\ m \in Nat
  <2>1. paid[s].sub \in Int /\ paid'[s].sub \in Int
    BY DEF IInv, TypeOK, PaidType
  <2>2. paid[s].sub >= 0
    BY <1>1 DEF ExactInv, Exact, SubscriptionExact
  <2>3. paid'[s].sub >= 0
    BY DEF Moved, Goes, Exact, SubscriptionExact
  <2> QED BY <2>1, <2>2, <2>3
<1>3. SubscriptionUnits = A \cup ({s} \X (1..n))
  BY DEF SubscriptionUnits
<1>4. SubscriptionUnits' = A \cup ({s} \X (1..m))
  <2>1. \A t \in Session \ {s} : paid'[t] = paid[t]
    <3>1. paid' = [paid EXCEPT ![s] = paid'[s]] /\ DOMAIN paid = Session
      BY DEF Moved, Only, IInv, TypeOK
    <3> QED BY <3>1
  <2> QED BY <2>1 DEF SubscriptionUnits
<1>5. IsFiniteSet(A) /\ \A u \in A : u[1] # s
  <2>1. IsFiniteSet(SubscriptionUnits) /\ A \in SUBSET SubscriptionUnits
    BY <1>1, <1>3 DEF UnitsInv
  <2>2. IsFiniteSet(A)
    BY <2>1, FS_Subset
  <2> QED BY <2>2
<1> HIDE DEF A, n, m
<1>6. /\ Cardinality(SubscriptionUnits) = Cardinality(A) + n /\ Cardinality(A) \in Nat
      /\ IsFiniteSet(SubscriptionUnits')
      /\ Cardinality(SubscriptionUnits') = Cardinality(A) + m
  BY <1>2, <1>3, <1>4, <1>5, UnitsOfOne
<1>7. subUsed = Cardinality(A) + n
  BY <1>1, <1>6 DEF UnitsInv
<1>8. (subUsed' = subUsed /\ m = n) \/ subUsed' = Clamp(subUsed + (m - n))
  BY DEF Moved, SubBooked, m, n
<1> QED BY <1>2, <1>6, <1>7, <1>8 DEF Clamp

\* Without database errors amount_used is what the requests hold of the
\* subscription, however they interleave, fail and crash.
THEOREM SubscriptionIsInBalance == Spec => []SubscriptionBooksBalance
<1>1. Init => UnitsInv
  <2> SUFFICES ASSUME Init
               PROVE  IsFiniteSet(SubscriptionUnits) /\ subUsed = Cardinality(SubscriptionUnits)
    BY DEF UnitsInv
  <2>1. SubscriptionUnits = {}
    BY DEF Init, SubscriptionUnits
  <2> QED BY <2>1, FS_EmptySet DEF Init
<1>2. IInv /\ IInv' /\ ExactInv /\ ExactInv' /\ UnitsInv /\ [Next]_vars => UnitsInv'
  <2> SUFFICES ASSUME IInv, IInv', ExactInv, ExactInv', UnitsInv, [Next]_vars PROVE UnitsInv'
    OBVIOUS
  <2>1. CASE \E s \in Session : Moved(s)
    BY <2>1, MovedUnits
  <2>2. CASE Crash
    BY <2>2 DEF Crash, UnitsInv, SubscriptionUnits
  <2>3. CASE UNCHANGED <<wallet, subUsed, record, sess, paid, faults>>
    BY <2>3 DEF UnitsInv, SubscriptionUnits
  <2> QED BY <2>1, <2>2, <2>3, StepKinds
<1>3. ExactInv /\ UnitsInv => SubscriptionBooksBalance
  BY DEF ExactInv, Exact, SubscriptionExact, UnitsInv, SubscriptionBooksBalance
<1> QED BY <1>1, <1>2, <1>3, Invariance, BooksAreExact, PTL DEF Spec
=============================================================================
