------------------------ MODULE BillingSessionProofs ------------------------
(***************************************************************************)
(* Safety theorems about BillingSession for any set of requests, any       *)
(* quotas and any number of database errors and crashes.                   *)
(*                                                                         *)
(* The inductive invariant IInv is local to a request: a step of a request *)
(* touches its own session and its own payments only, so each action is a  *)
(* fact about one request (the lemmas *Ok) lifted by the lemma Frame.      *)
(***************************************************************************)
EXTENDS BillingSession, TLAPS

\* A well-typed request whose books agree with what it has paid.
Request(r, p) == r \in SessionType /\ p \in PaidType /\ RequestInv(r, p)

-----------------------------------------------------------------------------
(* What every statement does to the request that issues it.                 *)

\* Refused before the funding source is charged.
LEMMA RejectedOk ==
    ASSUME NEW r, NEW p, Request(r, p),
           r.pc \in EarlyPC
    PROVE  Request([r EXCEPT !.pc = "rejected"],
                   p)
<1> DEFINE rr == [r EXCEPT !.pc = "rejected"]
           pp == p
<1>1. "rejected" \in PC
  BY DEF PC, RefundPC, Codes
<1>3. rr \in SessionType
  BY <1>1 DEF Request, SessionType
<1>4. RequestInv(rr, pp)
  BY DEF Request, RequestInv, FlagsInv, WalletInv, TokenInv, SubscriptionInv,
         PreferenceInv, EarlyPC, ReservePC, SessionType, PaidType
<1> QED BY <1>3, <1>4 DEF Request, SessionType, PaidType

\* trySubscription starts over the subscription.
LEMMA SubscriptionSessionOk ==
    ASSUME NEW r, NEW p, Request(r, p),
           r.pc \in {"idle", "checkSub", "tryWallet"},
           r.pref # "wallet_only"
    PROVE  Request(SubscriptionSession(r),
                   p)
<1> DEFINE rr == SubscriptionSession(r)
           pp == p
<1>1. "checkToken" \in PC /\ "none" \in Codes
  BY DEF PC, RefundPC, Codes
<1>2. r.ask \in Nat /\ (IF r.ask <= 0 THEN 1 ELSE r.ask) \in Nat
  BY DEF Request, SessionType
<1>3. rr \in SessionType
  BY <1>1, <1>2 DEF Request, SessionType, SubscriptionSession
<1>4. RequestInv(rr, pp)
  BY DEF Request, RequestInv, FlagsInv, WalletInv, TokenInv, SubscriptionInv,
         PreferenceInv, EarlyPC, ReservePC, SessionType, PaidType, SubscriptionSession
<1> QED BY <1>3, <1>4 DEF Request, SessionType, PaidType

\* subscription_first looks for an active subscription.
LEMMA ToSubscriptionOk ==
    ASSUME NEW r, NEW p, Request(r, p),
           r.pc = "idle", r.pref = "subscription_first"
    PROVE  Request([r EXCEPT !.pc = "checkSub"],
                   p)
<1> DEFINE rr == [r EXCEPT !.pc = "checkSub"]
           pp == p
<1>1. "checkSub" \in PC
  BY DEF PC, RefundPC, Codes
<1>3. rr \in SessionType
  BY <1>1 DEF Request, SessionType
<1>4. RequestInv(rr, pp)
  BY DEF Request, RequestInv, FlagsInv, WalletInv, TokenInv, SubscriptionInv,
         PreferenceInv, EarlyPC, ReservePC, SessionType, PaidType
<1> QED BY <1>3, <1>4 DEF Request, SessionType, PaidType

\* The wallet is to be tried.
LEMMA ToWalletOk ==
    ASSUME NEW r, NEW p, Request(r, p),
           r.pc \in {"idle", "checkSub"},
           r.pref # "subscription_only"
    PROVE  Request([r EXCEPT !.pc = "tryWallet"],
                   p)
<1> DEFINE rr == [r EXCEPT !.pc = "tryWallet"]
           pp == p
<1>1. "tryWallet" \in PC
  BY DEF PC, RefundPC, Codes
<1>3. rr \in SessionType
  BY <1>1 DEF Request, SessionType
<1>4. RequestInv(rr, pp)
  BY DEF Request, RequestInv, FlagsInv, WalletInv, TokenInv, SubscriptionInv,
         PreferenceInv, EarlyPC, ReservePC, SessionType, PaidType
<1> QED BY <1>3, <1>4 DEF Request, SessionType, PaidType

\* tryWallet starts over the wallet.
LEMMA WalletSessionOk ==
    ASSUME NEW r, NEW p, Request(r, p),
           r.pc = "tryWallet",
           NEW trusts \in BOOLEAN
    PROVE  Request(WalletSession(r, trusts),
                   p)
<1> DEFINE rr == WalletSession(r, trusts)
           pp == p
<1>1. "fund" \in PC /\ "checkToken" \in PC /\ "none" \in Codes
  BY DEF PC, RefundPC, Codes
<1>2. r.ask \in Nat /\ (IF trusts THEN 0 ELSE r.ask) \in Nat
  BY DEF Request, SessionType
<1>3. rr \in SessionType
  BY <1>1, <1>2 DEF Request, SessionType, WalletSession
<1>4. RequestInv(rr, pp)
  BY DEF Request, RequestInv, FlagsInv, WalletInv, TokenInv, SubscriptionInv,
         PreferenceInv, EarlyPC, ReservePC, SessionType, PaidType, WalletSession
<1> QED BY <1>3, <1>4 DEF Request, SessionType, PaidType

\* A playground request has no token to take.
LEMMA NoTokenNeededOk ==
    ASSUME NEW r, NEW p, Request(r, p),
           r.pc = "checkToken",
           r.playground
    PROVE  Request([r EXCEPT !.tokenConsumed = r.amount, !.pc = "fund"],
                   p)
<1> DEFINE rr == [r EXCEPT !.tokenConsumed = r.amount, !.pc = "fund"]
           pp == p
<1>1. "fund" \in PC
  BY DEF PC, RefundPC, Codes
<1>3. rr \in SessionType
  BY <1>1 DEF Request, SessionType
<1>4. RequestInv(rr, pp)
  BY DEF Request, RequestInv, FlagsInv, WalletInv, TokenInv, SubscriptionInv,
         PreferenceInv, EarlyPC, ReservePC, SessionType, PaidType
<1> QED BY <1>3, <1>4 DEF Request, SessionType, PaidType

\* The token has enough.
LEMMA TokenCheckedOk ==
    ASSUME NEW r, NEW p, Request(r, p),
           r.pc = "checkToken",
           ~r.playground
    PROVE  Request([r EXCEPT !.pc = "takeToken"],
                   p)
<1> DEFINE rr == [r EXCEPT !.pc = "takeToken"]
           pp == p
<1>1. "takeToken" \in PC
  BY DEF PC, RefundPC, Codes
<1>3. rr \in SessionType
  BY <1>1 DEF Request, SessionType
<1>4. RequestInv(rr, pp)
  BY DEF Request, RequestInv, FlagsInv, WalletInv, TokenInv, SubscriptionInv,
         PreferenceInv, EarlyPC, ReservePC, SessionType, PaidType
<1> QED BY <1>3, <1>4 DEF Request, SessionType, PaidType

\* The token is taken.
LEMMA TokenTakenOk ==
    ASSUME NEW r, NEW p, Request(r, p),
           r.pc = "takeToken"
    PROVE  Request([r EXCEPT !.tokenConsumed = r.amount, !.pc = "fund"],
                   [p EXCEPT !.token = @ + r.amount])
<1> DEFINE rr == [r EXCEPT !.tokenConsumed = r.amount, !.pc = "fund"]
           pp == [p EXCEPT !.token = @ + r.amount]
<1>1. "fund" \in PC
  BY DEF PC, RefundPC, Codes
<1>3. rr \in SessionType
  BY <1>1 DEF Request, SessionType
<1>4. RequestInv(rr, pp)
  BY DEF Request, RequestInv, FlagsInv, WalletInv, TokenInv, SubscriptionInv,
         PreferenceInv, EarlyPC, ReservePC, SessionType, PaidType
<1> QED BY <1>3, <1>4 DEF Request, SessionType, PaidType

\* The wallet is charged.
LEMMA WalletFundedOk ==
    ASSUME NEW r, NEW p, Request(r, p),
           r.pc = "fund",
           r.source = "wallet"
    PROVE  Request([PreConsumed(r) EXCEPT !.consumed = r.amount],
                   [p EXCEPT !.wallet = @ + r.amount])
<1> DEFINE rr == [PreConsumed(r) EXCEPT !.consumed = r.amount]
           pp == [p EXCEPT !.wallet = @ + r.amount]
<1>1. "active" \in PC
  BY DEF PC, RefundPC, Codes
<1>3. rr \in SessionType
  BY <1>1 DEF Request, SessionType, PreConsumed
<1>4. RequestInv(rr, pp)
  BY DEF Request, RequestInv, FlagsInv, WalletInv, TokenInv, SubscriptionInv,
         PreferenceInv, EarlyPC, ReservePC, SessionType, PaidType, PreConsumed
<1> QED BY <1>3, <1>4 DEF Request, SessionType, PaidType

\* A trusted or free reservation takes nothing.
LEMMA WalletUntouchedOk ==
    ASSUME NEW r, NEW p, Request(r, p),
           r.pc = "fund",
           r.source = "wallet",
           r.amount = 0
    PROVE  Request([PreConsumed(r) EXCEPT !.consumed = r.amount],
                   p)
<1> DEFINE rr == [PreConsumed(r) EXCEPT !.consumed = r.amount]
           pp == p
<1>1. "active" \in PC
  BY DEF PC, RefundPC, Codes
<1>3. rr \in SessionType
  BY <1>1 DEF Request, SessionType, PreConsumed
<1>4. RequestInv(rr, pp)
  BY DEF Request, RequestInv, FlagsInv, WalletInv, TokenInv, SubscriptionInv,
         PreferenceInv, EarlyPC, ReservePC, SessionType, PaidType, PreConsumed
<1> QED BY <1>3, <1>4 DEF Request, SessionType, PaidType

\* The subscription is charged.
LEMMA SubscriptionFundedOk ==
    ASSUME NEW r, NEW p, Request(r, p),
           r.pc = "fund",
           r.source = "subscription"
    PROVE  Request([PreConsumed(r) EXCEPT !.subPre = r.amount],
                   [p EXCEPT !.sub = @ + r.amount])
<1> DEFINE rr == [PreConsumed(r) EXCEPT !.subPre = r.amount]
           pp == [p EXCEPT !.sub = @ + r.amount]
<1>1. "active" \in PC
  BY DEF PC, RefundPC, Codes
<1>3. rr \in SessionType
  BY <1>1 DEF Request, SessionType, PreConsumed
<1>4. RequestInv(rr, pp)
  BY DEF Request, RequestInv, FlagsInv, WalletInv, TokenInv, SubscriptionInv,
         PreferenceInv, EarlyPC, ReservePC, SessionType, PaidType, PreConsumed
<1> QED BY <1>3, <1>4 DEF Request, SessionType, PaidType

\* The funding source refuses.
LEMMA FundingFailedOk ==
    ASSUME NEW r, NEW p, Request(r, p),
           r.pc = "fund",
           NEW c \in Codes
    PROVE  Request([r EXCEPT !.code = c, !.pc = "rollbackToken"],
                   p)
<1> DEFINE rr == [r EXCEPT !.code = c, !.pc = "rollbackToken"]
           pp == p
<1>1. "rollbackToken" \in PC
  BY DEF PC, RefundPC, Codes
<1>3. rr \in SessionType
  BY <1>1 DEF Request, SessionType
<1>4. RequestInv(rr, pp)
  BY DEF Request, RequestInv, FlagsInv, WalletInv, TokenInv, SubscriptionInv,
         PreferenceInv, EarlyPC, ReservePC, SessionType, PaidType
<1> QED BY <1>3, <1>4 DEF Request, SessionType, PaidType

\* The token is rolled back.
LEMMA TokenReturnedOk ==
    ASSUME NEW r, NEW p, Request(r, p),
           r.pc = "rollbackToken",
           ~r.playground,
           NEW next \in {"tryWallet", "rejected"},
           next = "tryWallet" => r.pref = "subscription_first"
    PROVE  Request([r EXCEPT !.tokenConsumed = 0, !.pc = next],
                   [p EXCEPT !.token = @ + (-r.tokenConsumed)])
<1> DEFINE rr == [r EXCEPT !.tokenConsumed = 0, !.pc = next]
           pp == [p EXCEPT !.token = @ + (-r.tokenConsumed)]
<1>1. next \in PC
  BY DEF PC, RefundPC, Codes
<1>3. rr \in SessionType
  BY <1>1 DEF Request, SessionType
<1>4. RequestInv(rr, pp)
  BY DEF Request, RequestInv, FlagsInv, WalletInv, TokenInv, SubscriptionInv,
         PreferenceInv, EarlyPC, ReservePC, SessionType, PaidType
<1> QED BY <1>3, <1>4 DEF Request, SessionType, PaidType

\* There is no token to roll back, or the rollback fails.
LEMMA TokenKeptOk ==
    ASSUME NEW r, NEW p, Request(r, p),
           r.pc = "rollbackToken",
           NEW next \in {"tryWallet", "rejected"},
           next = "tryWallet" => r.pref = "subscription_first"
    PROVE  Request([r EXCEPT !.tokenConsumed = 0, !.pc = next],
                   p)
<1> DEFINE rr == [r EXCEPT !.tokenConsumed = 0, !.pc = next]
           pp == p
<1>1. next \in PC
  BY DEF PC, RefundPC, Codes
<1>3. rr \in SessionType
  BY <1>1 DEF Request, SessionType
<1>4. RequestInv(rr, pp)
  BY DEF Request, RequestInv, FlagsInv, WalletInv, TokenInv, SubscriptionInv,
         PreferenceInv, EarlyPC, ReservePC, SessionType, PaidType
<1> QED BY <1>3, <1>4 DEF Request, SessionType, PaidType

\* Reserve charges the wallet.
LEMMA WalletReservedOk ==
    ASSUME NEW r, NEW p, Request(r, p),
           r.pc = "active",
           r.source = "wallet",
           NEW n \in Nat
    PROVE  Request([Holding(r, n) EXCEPT !.amount = n, !.pc = "reserveCheck"],
                   [p EXCEPT !.wallet = @ + n])
<1> DEFINE rr == [Holding(r, n) EXCEPT !.amount = n, !.pc = "reserveCheck"]
           pp == [p EXCEPT !.wallet = @ + n]
<1>1. "reserveCheck" \in PC
  BY DEF PC, RefundPC, Codes
<1>2. r.consumed + n \in Nat
  BY DEF Request, SessionType
<1>3. rr \in SessionType
  BY <1>1, <1>2 DEF Request, SessionType, Holding
<1>4. RequestInv(rr, pp)
  BY DEF Request, RequestInv, FlagsInv, WalletInv, TokenInv, SubscriptionInv,
         PreferenceInv, EarlyPC, ReservePC, SessionType, PaidType, Holding
<1> QED BY <1>3, <1>4 DEF Request, SessionType, PaidType

\* Reserve charges the subscription.
LEMMA SubscriptionReservedOk ==
    ASSUME NEW r, NEW p, Request(r, p),
           r.pc = "active",
           r.source = "subscription",
           NEW n \in Nat
    PROVE  Request([Holding(r, n) EXCEPT !.amount = n, !.pc = "reserveCheck"],
                   [p EXCEPT !.sub = @ + n])
<1> DEFINE rr == [Holding(r, n) EXCEPT !.amount = n, !.pc = "reserveCheck"]
           pp == [p EXCEPT !.sub = @ + n]
<1>1. "reserveCheck" \in PC
  BY DEF PC, RefundPC, Codes
<1>3. rr \in SessionType
  BY <1>1 DEF Request, SessionType, Holding
<1>4. RequestInv(rr, pp)
  BY DEF Request, RequestInv, FlagsInv, WalletInv, TokenInv, SubscriptionInv,
         PreferenceInv, EarlyPC, ReservePC, SessionType, PaidType, Holding
<1> QED BY <1>3, <1>4 DEF Request, SessionType, PaidType

\* Reserve needs no token.
LEMMA ReservedOk ==
    ASSUME NEW r, NEW p, Request(r, p),
           r.pc = "reserveCheck",
           r.playground
    PROVE  Request(Reserved(r),
                   p)
<1> DEFINE rr == Reserved(r)
           pp == p
<1>1. "active" \in PC
  BY DEF PC, RefundPC, Codes
<1>2. /\ r.pre + r.amount \in Nat /\ r.tokenConsumed + r.amount \in Nat
      /\ r.extra + r.amount \in Nat
  BY DEF Request, SessionType
<1>3. rr \in SessionType
  BY <1>1, <1>2 DEF Request, SessionType, Reserved
<1>4. RequestInv(rr, pp)
  BY DEF Request, RequestInv, FlagsInv, WalletInv, TokenInv, SubscriptionInv,
         PreferenceInv, EarlyPC, ReservePC, SessionType, PaidType, Reserved
<1> QED BY <1>3, <1>4 DEF Request, SessionType, PaidType

\* Reserve goes on to the token, or is to be undone.
LEMMA ReserveCheckedOk ==
    ASSUME NEW r, NEW p, Request(r, p),
           r.pc \in {"reserveCheck", "reserveTake"},
           ~r.playground,
           NEW next \in {"reserveTake", "reserveUndo"}
    PROVE  Request([r EXCEPT !.pc = next],
                   p)
<1> DEFINE rr == [r EXCEPT !.pc = next]
           pp == p
<1>1. next \in PC
  BY DEF PC, RefundPC, Codes
<1>3. rr \in SessionType
  BY <1>1 DEF Request, SessionType
<1>4. RequestInv(rr, pp)
  BY DEF Request, RequestInv, FlagsInv, WalletInv, TokenInv, SubscriptionInv,
         PreferenceInv, EarlyPC, ReservePC, SessionType, PaidType
<1> QED BY <1>3, <1>4 DEF Request, SessionType, PaidType

\* Reserve takes the token.
LEMMA ReserveTakenOk ==
    ASSUME NEW r, NEW p, Request(r, p),
           r.pc = "reserveTake"
    PROVE  Request(Reserved(r),
                   [p EXCEPT !.token = @ + r.amount])
<1> DEFINE rr == Reserved(r)
           pp == [p EXCEPT !.token = @ + r.amount]
<1>1. "active" \in PC
  BY DEF PC, RefundPC, Codes
<1>2. /\ r.pre + r.amount \in Nat /\ r.tokenConsumed + r.amount \in Nat
      /\ r.extra + r.amount \in Nat
  BY DEF Request, SessionType
<1>3. rr \in SessionType
  BY <1>1, <1>2 DEF Request, SessionType, Reserved
<1>4. RequestInv(rr, pp)
  BY DEF Request, RequestInv, FlagsInv, WalletInv, TokenInv, SubscriptionInv,
         PreferenceInv, EarlyPC, ReservePC, SessionType, PaidType, Reserved
<1> QED BY <1>3, <1>4 DEF Request, SessionType, PaidType

\* Reserve is undone in the wallet.
LEMMA WalletUnreservedOk ==
    ASSUME NEW r, NEW p, Request(r, p),
           r.pc = "reserveUndo",
           r.source = "wallet"
    PROVE  Request([Holding(r, -r.amount) EXCEPT !.pc = "active"],
                   [p EXCEPT !.wallet = @ + (-r.amount)])
<1> DEFINE rr == [Holding(r, -r.amount) EXCEPT !.pc = "active"]
           pp == [p EXCEPT !.wallet = @ + (-r.amount)]
<1>1. "active" \in PC
  BY DEF PC, RefundPC, Codes
<1>2. r.consumed + (-r.amount) \in Nat
  BY DEF Request, SessionType, RequestInv, WalletInv, ReservePC
<1>3. rr \in SessionType
  BY <1>1, <1>2 DEF Request, SessionType, Holding
<1>4. RequestInv(rr, pp)
  BY DEF Request, RequestInv, FlagsInv, WalletInv, TokenInv, SubscriptionInv,
         PreferenceInv, EarlyPC, ReservePC, SessionType, PaidType, Holding
<1> QED BY <1>3, <1>4 DEF Request, SessionType, PaidType

\* Reserve is undone in the subscription.
LEMMA SubscriptionUnreservedOk ==
    ASSUME NEW r, NEW p, Request(r, p),
           r.pc = "reserveUndo",
           r.source = "subscription"
    PROVE  Request([Holding(r, -r.amount) EXCEPT !.pc = "active"],
                   [p EXCEPT !.sub = @ + (-r.amount)])
<1> DEFINE rr == [Holding(r, -r.amount) EXCEPT !.pc = "active"]
           pp == [p EXCEPT !.sub = @ + (-r.amount)]
<1>1. "active" \in PC
  BY DEF PC, RefundPC, Codes
<1>3. rr \in SessionType
  BY <1>1 DEF Request, SessionType, Holding
<1>4. RequestInv(rr, pp)
  BY DEF Request, RequestInv, FlagsInv, WalletInv, TokenInv, SubscriptionInv,
         PreferenceInv, EarlyPC, ReservePC, SessionType, PaidType, Holding
<1> QED BY <1>3, <1>4 DEF Request, SessionType, PaidType

\* Undoing Reserve fails.
LEMMA ReserveKeptOk ==
    ASSUME NEW r, NEW p, Request(r, p),
           r.pc = "reserveUndo"
    PROVE  Request([r EXCEPT !.pc = "active"],
                   p)
<1> DEFINE rr == [r EXCEPT !.pc = "active"]
           pp == p
<1>1. "active" \in PC
  BY DEF PC, RefundPC, Codes
<1>3. rr \in SessionType
  BY <1>1 DEF Request, SessionType
<1>4. RequestInv(rr, pp)
  BY DEF Request, RequestInv, FlagsInv, WalletInv, TokenInv, SubscriptionInv,
         PreferenceInv, EarlyPC, ReservePC, SessionType, PaidType
<1> QED BY <1>3, <1>4 DEF Request, SessionType, PaidType

\* The price is what was reserved.
LEMMA SettledAtOnceOk ==
    ASSUME NEW r, NEW p, Request(r, p),
           r.pc = "active",
           NEW a \in Nat,
           a = r.pre
    PROVE  Request([r EXCEPT !.actual = a, !.settled = TRUE, !.pc = "settled"],
                   p)
<1> DEFINE rr == [r EXCEPT !.actual = a, !.settled = TRUE, !.pc = "settled"]
           pp == p
<1>1. "settled" \in PC
  BY DEF PC, RefundPC, Codes
<1>3. rr \in SessionType
  BY <1>1 DEF Request, SessionType
<1>4. RequestInv(rr, pp)
  BY DEF Request, RequestInv, FlagsInv, WalletInv, TokenInv, SubscriptionInv,
         PreferenceInv, EarlyPC, ReservePC, SessionType, PaidType
<1> QED BY <1>3, <1>4 DEF Request, SessionType, PaidType

\* The wallet is settled.
LEMMA WalletSettledOk ==
    ASSUME NEW r, NEW p, Request(r, p),
           r.pc = "active",
           r.source = "wallet",
           NEW a \in Nat
    PROVE  Request([r EXCEPT !.actual = a, !.fundingSettled = TRUE, !.pc = "settleToken"],
                   [p EXCEPT !.wallet = @ + (a - r.pre)])
<1> DEFINE rr == [r EXCEPT !.actual = a, !.fundingSettled = TRUE, !.pc = "settleToken"]
           pp == [p EXCEPT !.wallet = @ + (a - r.pre)]
<1>1. "settleToken" \in PC
  BY DEF PC, RefundPC, Codes
<1>3. rr \in SessionType
  BY <1>1 DEF Request, SessionType
<1>4. RequestInv(rr, pp)
  BY DEF Request, RequestInv, FlagsInv, WalletInv, TokenInv, SubscriptionInv,
         PreferenceInv, EarlyPC, ReservePC, SessionType, PaidType
<1> QED BY <1>3, <1>4 DEF Request, SessionType, PaidType

\* The subscription is settled.
LEMMA SubscriptionSettledOk ==
    ASSUME NEW r, NEW p, Request(r, p),
           r.pc = "active",
           r.source = "subscription",
           NEW a \in Nat
    PROVE  Request([r EXCEPT !.actual = a, !.fundingSettled = TRUE, !.pc = "settleToken"],
                   [p EXCEPT !.sub = @ + (a - r.pre)])
<1> DEFINE rr == [r EXCEPT !.actual = a, !.fundingSettled = TRUE, !.pc = "settleToken"]
           pp == [p EXCEPT !.sub = @ + (a - r.pre)]
<1>1. "settleToken" \in PC
  BY DEF PC, RefundPC, Codes
<1>3. rr \in SessionType
  BY <1>1 DEF Request, SessionType
<1>4. RequestInv(rr, pp)
  BY DEF Request, RequestInv, FlagsInv, WalletInv, TokenInv, SubscriptionInv,
         PreferenceInv, EarlyPC, ReservePC, SessionType, PaidType
<1> QED BY <1>3, <1>4 DEF Request, SessionType, PaidType

\* The funding source cannot be settled.
LEMMA UnsettledOk ==
    ASSUME NEW r, NEW p, Request(r, p),
           r.pc = "active",
           NEW a \in Nat
    PROVE  Request([r EXCEPT !.actual = a, !.pc = "unsettled"],
                   p)
<1> DEFINE rr == [r EXCEPT !.actual = a, !.pc = "unsettled"]
           pp == p
<1>1. "unsettled" \in PC
  BY DEF PC, RefundPC, Codes
<1>3. rr \in SessionType
  BY <1>1 DEF Request, SessionType
<1>4. RequestInv(rr, pp)
  BY DEF Request, RequestInv, FlagsInv, WalletInv, TokenInv, SubscriptionInv,
         PreferenceInv, EarlyPC, ReservePC, SessionType, PaidType
<1> QED BY <1>3, <1>4 DEF Request, SessionType, PaidType

\* The token is settled.
LEMMA TokenSettledOk ==
    ASSUME NEW r, NEW p, Request(r, p),
           r.pc = "settleToken",
           ~r.playground
    PROVE  Request([r EXCEPT !.settled = TRUE, !.pc = "settled"],
                   [p EXCEPT !.token = @ + (r.actual - r.pre)])
<1> DEFINE rr == [r EXCEPT !.settled = TRUE, !.pc = "settled"]
           pp == [p EXCEPT !.token = @ + (r.actual - r.pre)]
<1>1. "settled" \in PC
  BY DEF PC, RefundPC, Codes
<1>3. rr \in SessionType
  BY <1>1 DEF Request, SessionType
<1>4. RequestInv(rr, pp)
  BY DEF Request, RequestInv, FlagsInv, WalletInv, TokenInv, SubscriptionInv,
         PreferenceInv, EarlyPC, ReservePC, SessionType, PaidType
<1> QED BY <1>3, <1>4 DEF Request, SessionType, PaidType

\* The token is not settled.
LEMMA TokenNotSettledOk ==
    ASSUME NEW r, NEW p, Request(r, p),
           r.pc = "settleToken"
    PROVE  Request([r EXCEPT !.settled = TRUE, !.pc = "settled"],
                   p)
<1> DEFINE rr == [r EXCEPT !.settled = TRUE, !.pc = "settled"]
           pp == p
<1>1. "settled" \in PC
  BY DEF PC, RefundPC, Codes
<1>3. rr \in SessionType
  BY <1>1 DEF Request, SessionType
<1>4. RequestInv(rr, pp)
  BY DEF Request, RequestInv, FlagsInv, WalletInv, TokenInv, SubscriptionInv,
         PreferenceInv, EarlyPC, ReservePC, SessionType, PaidType
<1> QED BY <1>3, <1>4 DEF Request, SessionType, PaidType

\* Refund starts its goroutine, or has nothing to do.
LEMMA RefundOk ==
    ASSUME NEW r, NEW p, Request(r, p),
           r.pc \in {"active", "settled", "unsettled"},
           NEW n \in Nat
    PROVE  Request([StartRefund(r) EXCEPT !.amount = n,
                                           !.pc = IF n > 0 THEN "fee" ELSE "failed"],
                   p)
<1> DEFINE rr == [StartRefund(r) EXCEPT !.amount = n,
                                           !.pc = IF n > 0 THEN "fee" ELSE "failed"]
           pp == p
<1>1. "fee" \in PC /\ "failed" \in PC /\ "funding" \in RefundPC
  BY DEF PC, RefundPC, Codes
<1>3. rr \in SessionType
  BY <1>1 DEF Request, SessionType, StartRefund, NeedsRefund
<1>4. RequestInv(rr, pp)
  BY DEF Request, RequestInv, FlagsInv, WalletInv, TokenInv, SubscriptionInv,
         PreferenceInv, EarlyPC, ReservePC, SessionType, PaidType, StartRefund, NeedsRefund
<1> QED BY <1>3, <1>4 DEF Request, SessionType, PaidType

\* The wallet is refunded.
LEMMA WalletRefundedOk ==
    ASSUME NEW r, NEW p, Request(r, p),
           r.rpc = "funding",
           r.source = "wallet"
    PROVE  Request([r EXCEPT !.rpc = "token"],
                   [p EXCEPT !.wallet = @ + (-r.consumed)])
<1> DEFINE rr == [r EXCEPT !.rpc = "token"]
           pp == [p EXCEPT !.wallet = @ + (-r.consumed)]
<1>1. "token" \in RefundPC
  BY DEF PC, RefundPC, Codes
<1>3. rr \in SessionType
  BY <1>1 DEF Request, SessionType
<1>4. RequestInv(rr, pp)
  BY DEF Request, RequestInv, FlagsInv, WalletInv, TokenInv, SubscriptionInv,
         PreferenceInv, EarlyPC, ReservePC, SessionType, PaidType
<1> QED BY <1>3, <1>4 DEF Request, SessionType, PaidType

\* The goroutine moves on without touching wallet or token.
LEMMA RefundGoesOnOk ==
    ASSUME NEW r, NEW p, Request(r, p),
           r.rpc \in {"funding", "record", "extra"},
           NEW next \in {"extra", "token"},
           r.source = "wallet" => next = "token"
    PROVE  Request([r EXCEPT !.rpc = next],
                   p)
<1> DEFINE rr == [r EXCEPT !.rpc = next]
           pp == p
<1>1. next \in RefundPC
  BY DEF PC, RefundPC, Codes
<1>3. rr \in SessionType
  BY <1>1 DEF Request, SessionType
<1>4. RequestInv(rr, pp)
  BY DEF Request, RequestInv, FlagsInv, WalletInv, TokenInv, SubscriptionInv,
         PreferenceInv, EarlyPC, ReservePC, SessionType, PaidType
<1> QED BY <1>3, <1>4 DEF Request, SessionType, PaidType

\* An attempt to refund the subscription fails.
LEMMA RefundAttemptFailedOk ==
    ASSUME NEW r, NEW p, Request(r, p),
           r.rpc \in {"funding", "record"},
           r.source = "subscription"
    PROVE  Request([r EXCEPT !.attempts = @ + 1,
                             !.rpc = IF r.attempts + 1 < 3 THEN "funding" ELSE "extra"],
                   p)
<1> DEFINE rr == [r EXCEPT !.attempts = @ + 1,
                             !.rpc = IF r.attempts + 1 < 3 THEN "funding" ELSE "extra"]
           pp == p
<1>1. "funding" \in RefundPC /\ "extra" \in RefundPC
  BY DEF PC, RefundPC, Codes
<1>2. r.attempts + 1 \in 0..3
  BY DEF Request, RequestInv, FlagsInv, SessionType
<1>3. rr \in SessionType
  BY <1>1, <1>2 DEF Request, SessionType
<1>4. RequestInv(rr, pp)
  BY DEF Request, RequestInv, FlagsInv, WalletInv, TokenInv, SubscriptionInv,
         PreferenceInv, EarlyPC, ReservePC, SessionType, PaidType
<1> QED BY <1>3, <1>4 DEF Request, SessionType, PaidType

\* The subscription is refunded.
LEMMA SubscriptionRefundedOk ==
    ASSUME NEW r, NEW p, Request(r, p),
           r.rpc \in {"funding", "extra"},
           r.source = "subscription",
           NEW next \in {"record", "token"},
           next = "record" => r.rpc = "funding",
           NEW n \in Nat
    PROVE  Request([r EXCEPT !.rpc = next],
                   [p EXCEPT !.sub = @ + (-n)])
<1> DEFINE rr == [r EXCEPT !.rpc = next]
           pp == [p EXCEPT !.sub = @ + (-n)]
<1>1. next \in RefundPC
  BY DEF PC, RefundPC, Codes
<1>3. rr \in SessionType
  BY <1>1 DEF Request, SessionType
<1>4. RequestInv(rr, pp)
  BY DEF Request, RequestInv, FlagsInv, WalletInv, TokenInv, SubscriptionInv,
         PreferenceInv, EarlyPC, ReservePC, SessionType, PaidType
<1> QED BY <1>3, <1>4 DEF Request, SessionType, PaidType

\* The token is refunded.
LEMMA TokenRefundedOk ==
    ASSUME NEW r, NEW p, Request(r, p),
           r.rpc = "token",
           ~r.playground
    PROVE  Request([r EXCEPT !.rpc = "end"],
                   [p EXCEPT !.token = @ + (-r.tokenConsumed)])
<1> DEFINE rr == [r EXCEPT !.rpc = "end"]
           pp == [p EXCEPT !.token = @ + (-r.tokenConsumed)]
<1>1. "end" \in RefundPC
  BY DEF PC, RefundPC, Codes
<1>3. rr \in SessionType
  BY <1>1 DEF Request, SessionType
<1>4. RequestInv(rr, pp)
  BY DEF Request, RequestInv, FlagsInv, WalletInv, TokenInv, SubscriptionInv,
         PreferenceInv, EarlyPC, ReservePC, SessionType, PaidType
<1> QED BY <1>3, <1>4 DEF Request, SessionType, PaidType

\* The token is not refunded.
LEMMA TokenNotRefundedOk ==
    ASSUME NEW r, NEW p, Request(r, p),
           r.rpc = "token"
    PROVE  Request([r EXCEPT !.rpc = "end"],
                   p)
<1> DEFINE rr == [r EXCEPT !.rpc = "end"]
           pp == p
<1>1. "end" \in RefundPC
  BY DEF PC, RefundPC, Codes
<1>3. rr \in SessionType
  BY <1>1 DEF Request, SessionType
<1>4. RequestInv(rr, pp)
  BY DEF Request, RequestInv, FlagsInv, WalletInv, TokenInv, SubscriptionInv,
         PreferenceInv, EarlyPC, ReservePC, SessionType, PaidType
<1> QED BY <1>3, <1>4 DEF Request, SessionType, PaidType

\* The fee is charged to the wallet.
LEMMA WalletFeeOk ==
    ASSUME NEW r, NEW p, Request(r, p),
           r.pc = "fee",
           r.source = "wallet"
    PROVE  Request([r EXCEPT !.fee = r.amount,
                             !.pc = IF r.playground THEN "failed" ELSE "feeToken"],
                   [p EXCEPT !.wallet = @ + r.amount])
<1> DEFINE rr == [r EXCEPT !.fee = r.amount,
                             !.pc = IF r.playground THEN "failed" ELSE "feeToken"]
           pp == [p EXCEPT !.wallet = @ + r.amount]
<1>1. "failed" \in PC /\ "feeToken" \in PC
  BY DEF PC, RefundPC, Codes
<1>3. rr \in SessionType
  BY <1>1 DEF Request, SessionType
<1>4. RequestInv(rr, pp)
  BY DEF Request, RequestInv, FlagsInv, WalletInv, TokenInv, SubscriptionInv,
         PreferenceInv, EarlyPC, ReservePC, SessionType, PaidType
<1> QED BY <1>3, <1>4 DEF Request, SessionType, PaidType

\* The fee is charged to the subscription.
LEMMA SubscriptionFeeOk ==
    ASSUME NEW r, NEW p, Request(r, p),
           r.pc = "fee",
           r.source = "subscription"
    PROVE  Request([r EXCEPT !.fee = r.amount,
                             !.pc = IF r.playground THEN "failed" ELSE "feeToken"],
                   [p EXCEPT !.sub = @ + r.amount])
<1> DEFINE rr == [r EXCEPT !.fee = r.amount,
                             !.pc = IF r.playground THEN "failed" ELSE "feeToken"]
           pp == [p EXCEPT !.sub = @ + r.amount]
<1>1. "failed" \in PC /\ "feeToken" \in PC
  BY DEF PC, RefundPC, Codes
<1>3. rr \in SessionType
  BY <1>1 DEF Request, SessionType
<1>4. RequestInv(rr, pp)
  BY DEF Request, RequestInv, FlagsInv, WalletInv, TokenInv, SubscriptionInv,
         PreferenceInv, EarlyPC, ReservePC, SessionType, PaidType
<1> QED BY <1>3, <1>4 DEF Request, SessionType, PaidType

\* The fee ends without touching the token.
LEMMA FeeEndedOk ==
    ASSUME NEW r, NEW p, Request(r, p),
           r.pc \in {"fee", "feeToken"}
    PROVE  Request([r EXCEPT !.pc = "failed"],
                   p)
<1> DEFINE rr == [r EXCEPT !.pc = "failed"]
           pp == p
<1>1. "failed" \in PC
  BY DEF PC, RefundPC, Codes
<1>3. rr \in SessionType
  BY <1>1 DEF Request, SessionType
<1>4. RequestInv(rr, pp)
  BY DEF Request, RequestInv, FlagsInv, WalletInv, TokenInv, SubscriptionInv,
         PreferenceInv, EarlyPC, ReservePC, SessionType, PaidType
<1> QED BY <1>3, <1>4 DEF Request, SessionType, PaidType

\* The fee is charged to the token.
LEMMA TokenFeeOk ==
    ASSUME NEW r, NEW p, Request(r, p),
           r.pc = "feeToken"
    PROVE  Request([r EXCEPT !.pc = "failed"],
                   [p EXCEPT !.token = @ + r.fee])
<1> DEFINE rr == [r EXCEPT !.pc = "failed"]
           pp == [p EXCEPT !.token = @ + r.fee]
<1>1. "failed" \in PC
  BY DEF PC, RefundPC, Codes
<1>3. rr \in SessionType
  BY <1>1 DEF Request, SessionType
<1>4. RequestInv(rr, pp)
  BY DEF Request, RequestInv, FlagsInv, WalletInv, TokenInv, SubscriptionInv,
         PreferenceInv, EarlyPC, ReservePC, SessionType, PaidType
<1> QED BY <1>3, <1>4 DEF Request, SessionType, PaidType

\* The process crashes.
LEMMA CrashedOk ==
    ASSUME NEW r, NEW p, Request(r, p),
           r.pc # "idle"
    PROVE  Request([r EXCEPT !.pc = "crashed",
                             !.rpc = IF @ \in {"none", "end"} THEN @ ELSE "lost"],
                   p)
<1> DEFINE rr == [r EXCEPT !.pc = "crashed",
                             !.rpc = IF @ \in {"none", "end"} THEN @ ELSE "lost"]
           pp == p
<1>1. "crashed" \in PC /\ "lost" \in RefundPC
  BY DEF PC, RefundPC, Codes
<1>3. rr \in SessionType
  BY <1>1 DEF Request, SessionType
<1>4. RequestInv(rr, pp)
  BY DEF Request, RequestInv, FlagsInv, WalletInv, TokenInv, SubscriptionInv,
         PreferenceInv, EarlyPC, ReservePC, SessionType, PaidType
<1> QED BY <1>3, <1>4 DEF Request, SessionType, PaidType

-----------------------------------------------------------------------------
(* From one request to the whole state. *)

IInv == TypeOK /\ BooksAgree

\* What TypeOK and BooksAgree say of the state outside the requests.
GlobalOK ==
    /\ wallet \in Nat /\ remain \in Int /\ subUsed \in Int
    /\ tokenOn \in BOOLEAN /\ subOn \in BOOLEAN
    /\ record \in [Session -> {"none", "consumed", "refunded"}]
    /\ faults \in 0..MaxFaults /\ crashes \in 0..MaxCrashes

\* The amounts of a request.
Numbers(r, p) ==
    /\ r.ask \in Nat /\ r.amount \in Nat /\ r.pre \in Nat /\ r.consumed \in Nat
    /\ r.tokenConsumed \in Nat /\ r.extra \in Nat /\ r.subPre \in Nat
    /\ r.actual \in Nat /\ r.fee \in Nat /\ r.attempts \in 0..3
    /\ p.wallet \in Int /\ p.token \in Int /\ p.sub \in Int

\* A step that changes one request and keeps the rest of the state in its type.
Moves(s, rr, pp) ==
    /\ sess' = [sess EXCEPT ![s] = rr] /\ paid' = [paid EXCEPT ![s] = pp]
    /\ GlobalOK'

\* What the invariant says of one request.
LEMMA Now ==
    ASSUME IInv, NEW s \in Session
    PROVE  /\ Request(sess[s], paid[s])
           /\ Numbers(sess[s], paid[s])
           /\ GlobalOK
<1>1. Request(sess[s], paid[s])
  BY DEF IInv, TypeOK, BooksAgree, Request
<1>2. Numbers(sess[s], paid[s])
  BY <1>1 DEF Request, Numbers, SessionType, PaidType
<1>3. GlobalOK
  BY DEF IInv, TypeOK, BooksAgree, GlobalOK
<1> QED BY <1>1, <1>2, <1>3

\* The bounded counters stay within their bounds.
LEMMA CountersOk ==
    ASSUME GlobalOK, Ok \/ Fault
    PROVE  faults' \in 0..MaxFaults /\ crashes' \in 0..MaxCrashes
BY ConstantsAssumption DEF GlobalOK, Ok, Fault

\* The invariant is local: a step of one request preserves it if the request
\* itself stays consistent.
LEMMA Frame ==
    ASSUME IInv, NEW s \in Session, NEW rr, NEW pp, Request(rr, pp), Moves(s, rr, pp)
    PROVE  IInv'
<1>1. TypeOK'
  <2>1. sess' \in [Session -> SessionType] /\ paid' \in [Session -> PaidType]
    BY DEF IInv, TypeOK, Moves, Request
  <2>2. wallet' \in Int
    BY DEF GlobalOK, Moves
  <2> QED BY <2>1, <2>2, Zenon DEF TypeOK, GlobalOK, Moves
<1>2. ASSUME NEW t \in Session PROVE RequestInv(sess'[t], paid'[t])
  <2>1. sess'[t] = IF t = s THEN rr ELSE sess[t]
    BY DEF IInv, TypeOK, Moves
  <2>2. paid'[t] = IF t = s THEN pp ELSE paid[t]
    BY DEF IInv, TypeOK, Moves
  <2> QED BY <2>1, <2>2 DEF IInv, BooksAgree, Request
<1>3. wallet' >= 0
  BY DEF GlobalOK, Moves
<1> QED BY <1>1, <1>2, <1>3 DEF IInv, BooksAgree

\* A request with an exhausted token is refused.
LEMMA ValidateUserTokenInv ==
    ASSUME IInv, NEW s \in Session, ValidateUserToken(s)
    PROVE  IInv'
<1> DEFINE r == sess[s]
           p == paid[s]
<1>1. Request(r, p) /\ Numbers(r, p) /\ GlobalOK
  BY Now
<1> DEFINE rr == [r EXCEPT !.pc = "rejected"]
           pp == p
<1>3. Request(rr, pp)
  BY <1>1, RejectedOk DEF ValidateUserToken, EarlyPC
<1>4. Moves(s, rr, pp)
  BY <1>1, CountersOk DEF Moves, GlobalOK, Numbers, IInv, TypeOK,
    ValidateUserToken
<1> QED BY <1>3, <1>4, Frame

\* subscription_first looks for a subscription.
LEMMA HasActiveUserSubscriptionInv ==
    ASSUME IInv, NEW s \in Session, HasActiveUserSubscription(s)
    PROVE  IInv'
<1> DEFINE r == sess[s]
           p == paid[s]
<1>1. Request(r, p) /\ Numbers(r, p) /\ GlobalOK
  BY Now
<1>3. CASE Ok /\ subOn /\ sess' = [sess EXCEPT ![s] = SubscriptionSession(@)]
  <2> DEFINE rr == SubscriptionSession(r)
             pp == p
  <2>1. Request(rr, pp)
    BY <1>1, <1>3, SubscriptionSessionOk DEF HasActiveUserSubscription, Request, RequestInv, PreferenceInv
  <2>2. Moves(s, rr, pp)
    BY <1>1, <1>3, CountersOk DEF Moves, GlobalOK, Numbers, IInv, TypeOK,
      HasActiveUserSubscription, Reject
  <2> QED BY <2>1, <2>2, Frame
<1>4. CASE Ok /\ ~subOn /\ sess' = [sess EXCEPT ![s] = [@ EXCEPT !.pc = "tryWallet"]]
  <2> DEFINE rr == [r EXCEPT !.pc = "tryWallet"]
             pp == p
  <2>1. Request(rr, pp)
    BY <1>1, <1>4, ToWalletOk DEF HasActiveUserSubscription, Request, RequestInv, PreferenceInv
  <2>2. Moves(s, rr, pp)
    BY <1>1, <1>4, CountersOk DEF Moves, GlobalOK, Numbers, IInv, TypeOK,
      HasActiveUserSubscription, Reject
  <2> QED BY <2>1, <2>2, Frame
<1>5. CASE Fault /\ Reject(s)
  <2> DEFINE rr == [r EXCEPT !.pc = "rejected"]
             pp == p
  <2>1. Request(rr, pp)
    BY <1>1, <1>5, RejectedOk DEF HasActiveUserSubscription, EarlyPC
  <2>2. Moves(s, rr, pp)
    BY <1>1, <1>5, CountersOk DEF Moves, GlobalOK, Numbers, IInv, TypeOK,
      HasActiveUserSubscription, Reject
  <2> QED BY <2>1, <2>2, Frame
<1> QED BY <1>1, <1>3, <1>4, <1>5 DEF HasActiveUserSubscription

\* The wallet is tried.
LEMMA TryWalletInv ==
    ASSUME IInv, NEW s \in Session, TryWallet(s)
    PROVE  IInv'
<1> DEFINE r == sess[s]
           p == paid[s]
<1>1. Request(r, p) /\ Numbers(r, p) /\ GlobalOK
  BY Now
<1>2. ShouldTrust(r) \in BOOLEAN
  BY Zenon DEF ShouldTrust
<1>3. CASE Ok /\ sess' = [sess EXCEPT ![s] = WalletSession(@, ShouldTrust(r))]
  <2> DEFINE rr == WalletSession(r, ShouldTrust(r))
             pp == p
  <2>1. Request(rr, pp)
    BY <1>1, <1>2, <1>3, WalletSessionOk DEF TryWallet
  <2>2. Moves(s, rr, pp)
    BY <1>1, <1>2, <1>3, CountersOk DEF Moves, GlobalOK, Numbers, IInv, TypeOK,
      TryWallet, Reject
  <2> QED BY <2>1, <2>2, Frame
<1>4. CASE Ok /\ r.pref = "wallet_first"
           /\ sess' = [sess EXCEPT ![s] = SubscriptionSession(@)]
  <2> DEFINE rr == SubscriptionSession(r)
             pp == p
  <2>1. Request(rr, pp)
    BY <1>1, <1>2, <1>4, SubscriptionSessionOk DEF TryWallet
  <2>2. Moves(s, rr, pp)
    BY <1>1, <1>2, <1>4, CountersOk DEF Moves, GlobalOK, Numbers, IInv, TypeOK,
      TryWallet, Reject
  <2> QED BY <2>1, <2>2, Frame
<1>5. CASE (Ok \/ Fault) /\ Reject(s)
  <2> DEFINE rr == [r EXCEPT !.pc = "rejected"]
             pp == p
  <2>1. Request(rr, pp)
    BY <1>1, <1>2, <1>5, RejectedOk DEF TryWallet, EarlyPC
  <2>2. Moves(s, rr, pp)
    BY <1>1, <1>2, <1>5, CountersOk DEF Moves, GlobalOK, Numbers, IInv, TypeOK,
      TryWallet, Reject
  <2> QED BY <2>1, <2>2, Frame
<1> QED BY <1>1, <1>2, <1>3, <1>4, <1>5 DEF TryWallet

\* The token is compared.
LEMMA CheckTokenInv ==
    ASSUME IInv, NEW s \in Session, CheckToken(s)
    PROVE  IInv'
<1> DEFINE r == sess[s]
           p == paid[s]
<1>1. Request(r, p) /\ Numbers(r, p) /\ GlobalOK
  BY Now
<1>3. CASE Ok /\ r.playground
  <2> DEFINE rr == [r EXCEPT !.tokenConsumed = r.amount, !.pc = "fund"]
             pp == p
  <2>1. Request(rr, pp)
    BY <1>1, <1>3, NoTokenNeededOk DEF CheckToken
  <2>2. Moves(s, rr, pp)
    BY <1>1, <1>3, CountersOk DEF Moves, GlobalOK, Numbers, IInv, TypeOK,
      CheckToken, Reject
  <2> QED BY <2>1, <2>2, Frame
<1>4. CASE Ok /\ ~r.playground /\ sess' = [sess EXCEPT ![s].pc = "takeToken"]
  <2> DEFINE rr == [r EXCEPT !.pc = "takeToken"]
             pp == p
  <2>1. Request(rr, pp)
    BY <1>1, <1>4, TokenCheckedOk DEF CheckToken
  <2>2. Moves(s, rr, pp)
    BY <1>1, <1>4, CountersOk DEF Moves, GlobalOK, Numbers, IInv, TypeOK,
      CheckToken, Reject
  <2> QED BY <2>1, <2>2, Frame
<1>5. CASE (Ok \/ Fault) /\ ~r.playground /\ Reject(s)
  <2> DEFINE rr == [r EXCEPT !.pc = "rejected"]
             pp == p
  <2>1. Request(rr, pp)
    BY <1>1, <1>5, RejectedOk DEF CheckToken, EarlyPC
  <2>2. Moves(s, rr, pp)
    BY <1>1, <1>5, CountersOk DEF Moves, GlobalOK, Numbers, IInv, TypeOK,
      CheckToken, Reject
  <2> QED BY <2>1, <2>2, Frame
<1> QED BY <1>1, <1>3, <1>4, <1>5 DEF CheckToken

\* The token is taken.
LEMMA TakeTokenInv ==
    ASSUME IInv, NEW s \in Session, TakeToken(s)
    PROVE  IInv'
<1> DEFINE r == sess[s]
           p == paid[s]
<1>1. Request(r, p) /\ Numbers(r, p) /\ GlobalOK
  BY Now
<1>3. CASE Ok /\ ChangeTokenQuota(s, r.amount)
           /\ sess' = [sess EXCEPT ![s] =
                [@ EXCEPT !.tokenConsumed = r.amount, !.pc = "fund"]]
  <2> DEFINE rr == [r EXCEPT !.tokenConsumed = r.amount, !.pc = "fund"]
             pp == [p EXCEPT !.token = @ + r.amount]
  <2>1. Request(rr, pp)
    BY <1>1, <1>3, TokenTakenOk DEF TakeToken
  <2>2. Moves(s, rr, pp)
    BY <1>1, <1>3, CountersOk DEF Moves, GlobalOK, Numbers, IInv, TypeOK,
      TakeToken, Reject, ChangeTokenQuota, NoToken
  <2> QED BY <2>1, <2>2, Frame
<1>4. CASE Fault /\ Reject(s) /\ NoToken /\ UNCHANGED paid
  <2> DEFINE rr == [r EXCEPT !.pc = "rejected"]
             pp == p
  <2>1. Request(rr, pp)
    BY <1>1, <1>4, RejectedOk DEF TakeToken, EarlyPC
  <2>2. Moves(s, rr, pp)
    BY <1>1, <1>4, CountersOk DEF Moves, GlobalOK, Numbers, IInv, TypeOK,
      TakeToken, Reject, ChangeTokenQuota, NoToken
  <2> QED BY <2>1, <2>2, Frame
<1> QED BY <1>1, <1>3, <1>4 DEF TakeToken

\* The wallet is charged the reservation.
LEMMA WalletPreConsumeInv ==
    ASSUME IInv, NEW s \in Session, WalletPreConsume(s)
    PROVE  IInv'
<1> DEFINE r == sess[s]
           p == paid[s]
<1>1. Request(r, p) /\ Numbers(r, p) /\ GlobalOK
  BY Now
<1>3. CASE Ok /\ r.amount > 0 /\ ChangeUserQuota(s, r.amount)
           /\ sess' = [sess EXCEPT ![s] =
                [PreConsumed(@) EXCEPT !.consumed = r.amount]]
           /\ UNCHANGED record
  <2> DEFINE rr == [PreConsumed(r) EXCEPT !.consumed = r.amount]
             pp == [p EXCEPT !.wallet = @ + r.amount]
  <2>1. Request(rr, pp)
    BY <1>1, <1>3, WalletFundedOk DEF WalletPreConsume
  <2>2. Moves(s, rr, pp)
    BY <1>1, <1>3, CountersOk DEF Moves, GlobalOK, Numbers, IInv, TypeOK,
      WalletPreConsume, ChangeUserQuota, FundingFailed
  <2> QED BY <2>1, <2>2, Frame
<1>4. CASE Ok /\ r.amount = 0 /\ UNCHANGED <<wallet, subUsed, paid>>
           /\ sess' = [sess EXCEPT ![s] =
                [PreConsumed(@) EXCEPT !.consumed = r.amount]]
           /\ UNCHANGED record
  <2> DEFINE rr == [PreConsumed(r) EXCEPT !.consumed = r.amount]
             pp == p
  <2>1. Request(rr, pp)
    BY <1>1, <1>4, WalletUntouchedOk DEF WalletPreConsume
  <2>2. Moves(s, rr, pp)
    BY <1>1, <1>4, CountersOk DEF Moves, GlobalOK, Numbers, IInv, TypeOK,
      WalletPreConsume, ChangeUserQuota, FundingFailed
  <2> QED BY <2>1, <2>2, Frame
<1>5. CASE (Ok \/ Fault) /\ FundingFailed(s, "update")
  <2> DEFINE rr == [r EXCEPT !.code = "update", !.pc = "rollbackToken"]
             pp == p
  <2>1. Request(rr, pp)
    BY <1>1, <1>5, FundingFailedOk DEF WalletPreConsume, Codes
  <2>2. Moves(s, rr, pp)
    BY <1>1, <1>5, CountersOk DEF Moves, GlobalOK, Numbers, IInv, TypeOK,
      WalletPreConsume, ChangeUserQuota, FundingFailed
  <2> QED BY <2>1, <2>2, Frame
<1> QED BY <1>1, <1>3, <1>4, <1>5 DEF WalletPreConsume, Numbers

\* The subscription is charged the reservation.
LEMMA SubscriptionPreConsumeInv ==
    ASSUME IInv, NEW s \in Session, SubscriptionPreConsume(s)
    PROVE  IInv'
<1> DEFINE r == sess[s]
           p == paid[s]
<1>1. Request(r, p) /\ Numbers(r, p) /\ GlobalOK
  BY Now
<1>3. CASE Ok /\ PostConsumeUserSubscriptionDelta(s, r.amount)
           /\ record' = [record EXCEPT ![s] = "consumed"]
           /\ sess' = [sess EXCEPT ![s] =
                [PreConsumed(@) EXCEPT !.subPre = r.amount]]
  <2> DEFINE rr == [PreConsumed(r) EXCEPT !.subPre = r.amount]
             pp == [p EXCEPT !.sub = @ + r.amount]
  <2>1. Request(rr, pp)
    BY <1>1, <1>3, SubscriptionFundedOk DEF SubscriptionPreConsume
  <2>2. Moves(s, rr, pp)
    BY <1>1, <1>3, CountersOk DEF Moves, GlobalOK, Numbers, IInv, TypeOK,
      SubscriptionPreConsume, PostConsumeUserSubscriptionDelta, Clamp, FundingFailed
  <2> QED BY <2>1, <2>2, Frame
<1>4. CASE (Ok \/ Fault) /\ FundingFailed(s, "insufficient")
  <2> DEFINE rr == [r EXCEPT !.code = "insufficient", !.pc = "rollbackToken"]
             pp == p
  <2>1. Request(rr, pp)
    BY <1>1, <1>4, FundingFailedOk DEF SubscriptionPreConsume, Codes
  <2>2. Moves(s, rr, pp)
    BY <1>1, <1>4, CountersOk DEF Moves, GlobalOK, Numbers, IInv, TypeOK,
      SubscriptionPreConsume, PostConsumeUserSubscriptionDelta, Clamp, FundingFailed
  <2> QED BY <2>1, <2>2, Frame
<1>5. CASE (Ok \/ Fault) /\ FundingFailed(s, "update")
  <2> DEFINE rr == [r EXCEPT !.code = "update", !.pc = "rollbackToken"]
             pp == p
  <2>1. Request(rr, pp)
    BY <1>1, <1>5, FundingFailedOk DEF SubscriptionPreConsume, Codes
  <2>2. Moves(s, rr, pp)
    BY <1>1, <1>5, CountersOk DEF Moves, GlobalOK, Numbers, IInv, TypeOK,
      SubscriptionPreConsume, PostConsumeUserSubscriptionDelta, Clamp, FundingFailed
  <2> QED BY <2>1, <2>2, Frame
<1> QED BY <1>1, <1>3, <1>4, <1>5 DEF SubscriptionPreConsume

\* The token is rolled back.
LEMMA RollbackTokenInv ==
    ASSUME IInv, NEW s \in Session, RollbackToken(s)
    PROVE  IInv'
<1> DEFINE r == sess[s]
           p == paid[s]
<1>1. Request(r, p) /\ Numbers(r, p) /\ GlobalOK
  BY Now
<1>3. CASE Ok /\ ~r.playground /\ ChangeTokenQuota(s, -r.tokenConsumed)
  <2> DEFINE rr == [r EXCEPT !.tokenConsumed = 0,
                       !.pc = IF /\ r.pref = "subscription_first"
                                 /\ r.source = "subscription"
                                 /\ r.code = "insufficient"
                              THEN "tryWallet" ELSE "rejected"]
             pp == [p EXCEPT !.token = @ + (-r.tokenConsumed)]
  <2>1. Request(rr, pp)
    BY <1>1, <1>3, TokenReturnedOk DEF RollbackToken
  <2>2. Moves(s, rr, pp)
    BY <1>1, <1>3, CountersOk DEF Moves, GlobalOK, Numbers, IInv, TypeOK,
      RollbackToken, ChangeTokenQuota, NoToken
  <2> QED BY <2>1, <2>2, Frame
<1>4. CASE (Ok \/ Fault) /\ NoToken /\ UNCHANGED paid
  <2> DEFINE rr == [r EXCEPT !.tokenConsumed = 0,
                       !.pc = IF /\ r.pref = "subscription_first"
                                 /\ r.source = "subscription"
                                 /\ r.code = "insufficient"
                              THEN "tryWallet" ELSE "rejected"]
             pp == p
  <2>1. Request(rr, pp)
    BY <1>1, <1>4, TokenKeptOk DEF RollbackToken
  <2>2. Moves(s, rr, pp)
    BY <1>1, <1>4, CountersOk DEF Moves, GlobalOK, Numbers, IInv, TypeOK,
      RollbackToken, ChangeTokenQuota, NoToken
  <2> QED BY <2>1, <2>2, Frame
<1> QED BY <1>1, <1>3, <1>4 DEF RollbackToken

\* Reserve charges the funding source.
LEMMA ReserveInv ==
    ASSUME IInv, NEW s \in Session, NEW target \in ReserveTargets, Reserve(s, target)
    PROVE  IInv'
<1> DEFINE r == sess[s]
           p == paid[s]
<1>1. Request(r, p) /\ Numbers(r, p) /\ GlobalOK
  BY Now
<1>2. target - r.pre \in Nat /\ r.source \in {"wallet", "subscription"}
  BY <1>1, ConstantsAssumption DEF Reserve, Numbers, Request, RequestInv,
     FlagsInv, SessionType
<1>3. CASE r.source = "subscription"
  <2> DEFINE rr == [Holding(r, target - r.pre) EXCEPT !.amount = target - r.pre,
                                                !.pc = "reserveCheck"]
             pp == [p EXCEPT !.sub = @ + (target - r.pre)]
  <2>1. Request(rr, pp)
    BY <1>1, <1>2, <1>3, SubscriptionReservedOk DEF Reserve
  <2>2. Moves(s, rr, pp)
    BY <1>1, <1>2, <1>3, CountersOk DEF Moves, GlobalOK, Numbers, IInv, TypeOK,
      Reserve, FundingMove, ChangeUserQuota, PostConsumeUserSubscriptionDelta, Clamp
  <2> QED BY <2>1, <2>2, Frame
<1>4. CASE r.source = "wallet"
  <2> DEFINE rr == [Holding(r, target - r.pre) EXCEPT !.amount = target - r.pre,
                                                !.pc = "reserveCheck"]
             pp == [p EXCEPT !.wallet = @ + (target - r.pre)]
  <2>1. Request(rr, pp)
    BY <1>1, <1>2, <1>4, WalletReservedOk DEF Reserve
  <2>2. Moves(s, rr, pp)
    BY <1>1, <1>2, <1>4, CountersOk DEF Moves, GlobalOK, Numbers, IInv, TypeOK,
      Reserve, FundingMove, ChangeUserQuota, PostConsumeUserSubscriptionDelta, Clamp
  <2> QED BY <2>1, <2>2, Frame
<1> QED BY <1>1, <1>2, <1>3, <1>4 DEF Reserve

\* Reserve compares the token.
LEMMA ReserveCheckTokenInv ==
    ASSUME IInv, NEW s \in Session, ReserveCheckToken(s)
    PROVE  IInv'
<1> DEFINE r == sess[s]
           p == paid[s]
<1>1. Request(r, p) /\ Numbers(r, p) /\ GlobalOK
  BY Now
<1>3. CASE Ok /\ r.playground
  <2> DEFINE rr == Reserved(r)
             pp == p
  <2>1. Request(rr, pp)
    BY <1>1, <1>3, ReservedOk DEF ReserveCheckToken
  <2>2. Moves(s, rr, pp)
    BY <1>1, <1>3, CountersOk DEF Moves, GlobalOK, Numbers, IInv, TypeOK,
      ReserveCheckToken
  <2> QED BY <2>1, <2>2, Frame
<1>4. CASE (Ok \/ Fault) /\ ~r.playground
           /\ sess' = [sess EXCEPT ![s] = [@ EXCEPT !.pc = "reserveUndo"]]
  <2> DEFINE rr == [r EXCEPT !.pc = "reserveUndo"]
             pp == p
  <2>1. Request(rr, pp)
    BY <1>1, <1>4, ReserveCheckedOk DEF ReserveCheckToken
  <2>2. Moves(s, rr, pp)
    BY <1>1, <1>4, CountersOk DEF Moves, GlobalOK, Numbers, IInv, TypeOK,
      ReserveCheckToken
  <2> QED BY <2>1, <2>2, Frame
<1>5. CASE Ok /\ ~r.playground
           /\ sess' = [sess EXCEPT ![s] = [@ EXCEPT !.pc = "reserveTake"]]
  <2> DEFINE rr == [r EXCEPT !.pc = "reserveTake"]
             pp == p
  <2>1. Request(rr, pp)
    BY <1>1, <1>5, ReserveCheckedOk DEF ReserveCheckToken
  <2>2. Moves(s, rr, pp)
    BY <1>1, <1>5, CountersOk DEF Moves, GlobalOK, Numbers, IInv, TypeOK,
      ReserveCheckToken
  <2> QED BY <2>1, <2>2, Frame
<1> QED BY <1>1, <1>3, <1>4, <1>5 DEF ReserveCheckToken

\* Reserve takes the token.
LEMMA ReserveTakeTokenInv ==
    ASSUME IInv, NEW s \in Session, ReserveTakeToken(s)
    PROVE  IInv'
<1> DEFINE r == sess[s]
           p == paid[s]
<1>1. Request(r, p) /\ Numbers(r, p) /\ GlobalOK
  BY Now
<1>3. CASE Ok /\ ChangeTokenQuota(s, r.amount)
           /\ sess' = [sess EXCEPT ![s] = Reserved(@)]
  <2> DEFINE rr == Reserved(r)
             pp == [p EXCEPT !.token = @ + r.amount]
  <2>1. Request(rr, pp)
    BY <1>1, <1>3, ReserveTakenOk DEF ReserveTakeToken
  <2>2. Moves(s, rr, pp)
    BY <1>1, <1>3, CountersOk DEF Moves, GlobalOK, Numbers, IInv, TypeOK,
      ReserveTakeToken, ChangeTokenQuota, NoToken
  <2> QED BY <2>1, <2>2, Frame
<1>4. CASE Fault /\ NoToken /\ UNCHANGED paid
           /\ sess' = [sess EXCEPT ![s].pc = "reserveUndo"]
  <2> DEFINE rr == [r EXCEPT !.pc = "reserveUndo"]
             pp == p
  <2>1. Request(rr, pp)
    BY <1>1, <1>4, ReserveCheckedOk DEF ReserveTakeToken, Request, RequestInv, FlagsInv, SessionType
  <2>2. Moves(s, rr, pp)
    BY <1>1, <1>4, CountersOk DEF Moves, GlobalOK, Numbers, IInv, TypeOK,
      ReserveTakeToken, ChangeTokenQuota, NoToken
  <2> QED BY <2>1, <2>2, Frame
<1> QED BY <1>1, <1>3, <1>4 DEF ReserveTakeToken

\* Reserve is undone.
LEMMA RollbackFundingReserveInv ==
    ASSUME IInv, NEW s \in Session, RollbackFundingReserve(s)
    PROVE  IInv'
<1> DEFINE r == sess[s]
           p == paid[s]
<1>1. Request(r, p) /\ Numbers(r, p) /\ GlobalOK
  BY Now
<1>2. r.source \in {"wallet", "subscription"}
  BY <1>1 DEF RollbackFundingReserve, Request, RequestInv, FlagsInv, SessionType
<1>3. CASE Ok /\ r.source = "subscription" /\ FundingMove(s, -r.amount)
           /\ sess' = [sess EXCEPT ![s] =
                [Holding(@, -r.amount) EXCEPT !.pc = "active"]]
  <2> DEFINE rr == [Holding(r, -r.amount) EXCEPT !.pc = "active"]
             pp == [p EXCEPT !.sub = @ + (-r.amount)]
  <2>1. Request(rr, pp)
    BY <1>1, <1>2, <1>3, SubscriptionUnreservedOk DEF RollbackFundingReserve
  <2>2. Moves(s, rr, pp)
    BY <1>1, <1>2, <1>3, CountersOk DEF Moves, GlobalOK, Numbers, IInv, TypeOK,
      RollbackFundingReserve, FundingMove, ChangeUserQuota, PostConsumeUserSubscriptionDelta, Clamp
  <2> QED BY <2>1, <2>2, Frame
<1>4. CASE Ok /\ r.source = "wallet" /\ FundingMove(s, -r.amount)
           /\ sess' = [sess EXCEPT ![s] =
                [Holding(@, -r.amount) EXCEPT !.pc = "active"]]
  <2> DEFINE rr == [Holding(r, -r.amount) EXCEPT !.pc = "active"]
             pp == [p EXCEPT !.wallet = @ + (-r.amount)]
  <2>1. Request(rr, pp)
    BY <1>1, <1>2, <1>4, WalletUnreservedOk DEF RollbackFundingReserve
  <2>2. Moves(s, rr, pp)
    BY <1>1, <1>2, <1>4, CountersOk DEF Moves, GlobalOK, Numbers, IInv, TypeOK,
      RollbackFundingReserve, FundingMove, ChangeUserQuota, PostConsumeUserSubscriptionDelta, Clamp
  <2> QED BY <2>1, <2>2, Frame
<1>5. CASE Fault /\ UNCHANGED <<wallet, subUsed, paid>>
           /\ sess' = [sess EXCEPT ![s].pc = "active"]
  <2> DEFINE rr == [r EXCEPT !.pc = "active"]
             pp == p
  <2>1. Request(rr, pp)
    BY <1>1, <1>2, <1>5, ReserveKeptOk DEF RollbackFundingReserve
  <2>2. Moves(s, rr, pp)
    BY <1>1, <1>2, <1>5, CountersOk DEF Moves, GlobalOK, Numbers, IInv, TypeOK,
      RollbackFundingReserve, FundingMove, ChangeUserQuota, PostConsumeUserSubscriptionDelta, Clamp
  <2> QED BY <2>1, <2>2, Frame
<1> QED BY <1>1, <1>2, <1>3, <1>4, <1>5 DEF RollbackFundingReserve

\* The funding source is settled.
LEMMA SettleInv ==
    ASSUME IInv, NEW s \in Session, NEW actual \in ActualQuotas, Settle(s, actual)
    PROVE  IInv'
<1> DEFINE r == sess[s]
           p == paid[s]
<1>1. Request(r, p) /\ Numbers(r, p) /\ GlobalOK
  BY Now
<1>2. actual \in Nat /\ r.source \in {"wallet", "subscription"}
  BY <1>1, ConstantsAssumption DEF Settle, Request, RequestInv, FlagsInv,
     SessionType
<1>3. CASE Ok /\ actual = r.pre /\ UNCHANGED <<wallet, subUsed, paid>>
  <2> DEFINE rr == [r EXCEPT !.actual = actual, !.settled = TRUE, !.pc = "settled"]
             pp == p
  <2>1. Request(rr, pp)
    BY <1>1, <1>2, <1>3, SettledAtOnceOk DEF Settle
  <2>2. Moves(s, rr, pp)
    BY <1>1, <1>2, <1>3, CountersOk DEF Moves, GlobalOK, Numbers, IInv, TypeOK,
      Settle, FundingMove, ChangeUserQuota, PostConsumeUserSubscriptionDelta, Clamp
  <2> QED BY <2>1, <2>2, Frame
<1>4. CASE Ok /\ actual # r.pre /\ r.source = "subscription"
           /\ FundingMove(s, actual - r.pre)
           /\ sess' = [sess EXCEPT ![s] =
                [@ EXCEPT !.actual = actual, !.fundingSettled = TRUE,
                          !.pc = "settleToken"]]
  <2> DEFINE rr == [r EXCEPT !.actual = actual, !.fundingSettled = TRUE,
                       !.pc = "settleToken"]
             pp == [p EXCEPT !.sub = @ + (actual - r.pre)]
  <2>1. Request(rr, pp)
    BY <1>1, <1>2, <1>4, SubscriptionSettledOk DEF Settle
  <2>2. Moves(s, rr, pp)
    BY <1>1, <1>2, <1>4, CountersOk DEF Moves, GlobalOK, Numbers, IInv, TypeOK,
      Settle, FundingMove, ChangeUserQuota, PostConsumeUserSubscriptionDelta, Clamp
  <2> QED BY <2>1, <2>2, Frame
<1>5. CASE Ok /\ actual # r.pre /\ r.source = "wallet"
           /\ FundingMove(s, actual - r.pre)
           /\ sess' = [sess EXCEPT ![s] =
                [@ EXCEPT !.actual = actual, !.fundingSettled = TRUE,
                          !.pc = "settleToken"]]
  <2> DEFINE rr == [r EXCEPT !.actual = actual, !.fundingSettled = TRUE,
                       !.pc = "settleToken"]
             pp == [p EXCEPT !.wallet = @ + (actual - r.pre)]
  <2>1. Request(rr, pp)
    BY <1>1, <1>2, <1>5, WalletSettledOk DEF Settle
  <2>2. Moves(s, rr, pp)
    BY <1>1, <1>2, <1>5, CountersOk DEF Moves, GlobalOK, Numbers, IInv, TypeOK,
      Settle, FundingMove, ChangeUserQuota, PostConsumeUserSubscriptionDelta, Clamp
  <2> QED BY <2>1, <2>2, Frame
<1>6. CASE (Ok \/ Fault) /\ actual # r.pre /\ UNCHANGED <<wallet, subUsed, paid>>
           /\ sess' = [sess EXCEPT ![s] =
                [@ EXCEPT !.actual = actual, !.pc = "unsettled"]]
  <2> DEFINE rr == [r EXCEPT !.actual = actual, !.pc = "unsettled"]
             pp == p
  <2>1. Request(rr, pp)
    BY <1>1, <1>2, <1>6, UnsettledOk DEF Settle
  <2>2. Moves(s, rr, pp)
    BY <1>1, <1>2, <1>6, CountersOk DEF Moves, GlobalOK, Numbers, IInv, TypeOK,
      Settle, FundingMove, ChangeUserQuota, PostConsumeUserSubscriptionDelta, Clamp
  <2> QED BY <2>1, <2>2, Frame
<1> QED BY <1>1, <1>2, <1>3, <1>4, <1>5, <1>6 DEF Settle, Numbers

\* The token is settled.
LEMMA SettleTokenInv ==
    ASSUME IInv, NEW s \in Session, SettleToken(s)
    PROVE  IInv'
<1> DEFINE r == sess[s]
           p == paid[s]
<1>1. Request(r, p) /\ Numbers(r, p) /\ GlobalOK
  BY Now
<1>3. CASE (Ok \/ Fault) /\ NoToken /\ UNCHANGED paid
  <2> DEFINE rr == [r EXCEPT !.settled = TRUE, !.pc = "settled"]
             pp == p
  <2>1. Request(rr, pp)
    BY <1>1, <1>3, TokenNotSettledOk DEF SettleToken
  <2>2. Moves(s, rr, pp)
    BY <1>1, <1>3, CountersOk DEF Moves, GlobalOK, Numbers, IInv, TypeOK,
      SettleToken, NoToken, ChangeTokenQuota
  <2> QED BY <2>1, <2>2, Frame
<1>4. CASE Ok /\ ~r.playground /\ ChangeTokenQuota(s, r.actual - r.pre)
  <2> DEFINE rr == [r EXCEPT !.settled = TRUE, !.pc = "settled"]
             pp == [p EXCEPT !.token = @ + (r.actual - r.pre)]
  <2>1. Request(rr, pp)
    BY <1>1, <1>4, TokenSettledOk DEF SettleToken
  <2>2. Moves(s, rr, pp)
    BY <1>1, <1>4, CountersOk DEF Moves, GlobalOK, Numbers, IInv, TypeOK,
      SettleToken, NoToken, ChangeTokenQuota
  <2> QED BY <2>1, <2>2, Frame
<1> QED BY <1>1, <1>3, <1>4 DEF SettleToken

\* Refund starts its goroutine if there is something to refund.
LEMMA RefundInv ==
    ASSUME IInv, NEW s \in Session, NEW fee \in FeeQuotas, Refund(s, fee)
    PROVE  IInv'
<1> DEFINE r == sess[s]
           p == paid[s]
<1>1. Request(r, p) /\ Numbers(r, p) /\ GlobalOK
  BY Now
<1>2. fee \in Nat
  BY ConstantsAssumption
<1> DEFINE rr == [StartRefund(r) EXCEPT !.amount = fee,
                                    !.pc = IF fee > 0 THEN "fee" ELSE "failed"]
           pp == p
<1>3. Request(rr, pp)
  BY <1>1, <1>2, RefundOk DEF Refund
<1>4. Moves(s, rr, pp)
  BY <1>1, <1>2, CountersOk DEF Moves, GlobalOK, Numbers, IInv, TypeOK,
    Refund
<1> QED BY <1>3, <1>4, Frame

\* The wallet is refunded.
LEMMA WalletRefundInv ==
    ASSUME IInv, NEW s \in Session, WalletRefund(s)
    PROVE  IInv'
<1> DEFINE r == sess[s]
           p == paid[s]
<1>1. Request(r, p) /\ Numbers(r, p) /\ GlobalOK
  BY Now
<1>3. CASE Ok /\ ChangeUserQuota(s, -r.consumed)
  <2> DEFINE rr == [r EXCEPT !.rpc = "token"]
             pp == [p EXCEPT !.wallet = @ + (-r.consumed)]
  <2>1. Request(rr, pp)
    BY <1>1, <1>3, WalletRefundedOk DEF WalletRefund
  <2>2. Moves(s, rr, pp)
    BY <1>1, <1>3, CountersOk DEF Moves, GlobalOK, Numbers, IInv, TypeOK,
      WalletRefund, ChangeUserQuota
  <2> QED BY <2>1, <2>2, Frame
<1>4. CASE (Ok \/ Fault) /\ UNCHANGED <<wallet, subUsed, paid>>
  <2> DEFINE rr == [r EXCEPT !.rpc = "token"]
             pp == p
  <2>1. Request(rr, pp)
    BY <1>1, <1>4, RefundGoesOnOk DEF WalletRefund
  <2>2. Moves(s, rr, pp)
    BY <1>1, <1>4, CountersOk DEF Moves, GlobalOK, Numbers, IInv, TypeOK,
      WalletRefund, ChangeUserQuota
  <2> QED BY <2>1, <2>2, Frame
<1> QED BY <1>1, <1>3, <1>4 DEF WalletRefund

\* The subscription is refunded.
LEMMA SubscriptionRefundInv ==
    ASSUME IInv, NEW s \in Session, SubscriptionRefund(s)
    PROVE  IInv'
<1> DEFINE r == sess[s]
           p == paid[s]
<1>1. Request(r, p) /\ Numbers(r, p) /\ GlobalOK
  BY Now
<1>3. CASE Ok /\ UNCHANGED <<wallet, subUsed, paid>>
           /\ sess' = [sess EXCEPT ![s].rpc = "extra"]
  <2> DEFINE rr == [r EXCEPT !.rpc = "extra"]
             pp == p
  <2>1. Request(rr, pp)
    BY <1>1, <1>3, RefundGoesOnOk DEF SubscriptionRefund
  <2>2. Moves(s, rr, pp)
    BY <1>1, <1>3, CountersOk DEF Moves, GlobalOK, Numbers, IInv, TypeOK,
      SubscriptionRefund, PostConsumeUserSubscriptionDelta, Clamp, RefundAttemptFailed
  <2> QED BY <2>1, <2>2, Frame
<1>4. CASE Ok /\ PostConsumeUserSubscriptionDelta(s, -r.subPre)
           /\ sess' = [sess EXCEPT ![s].rpc = "record"]
  <2> DEFINE rr == [r EXCEPT !.rpc = "record"]
             pp == [p EXCEPT !.sub = @ + (-r.subPre)]
  <2>1. Request(rr, pp)
    BY <1>1, <1>4, SubscriptionRefundedOk DEF SubscriptionRefund, Numbers
  <2>2. Moves(s, rr, pp)
    BY <1>1, <1>4, CountersOk DEF Moves, GlobalOK, Numbers, IInv, TypeOK,
      SubscriptionRefund, PostConsumeUserSubscriptionDelta, Clamp, RefundAttemptFailed
  <2> QED BY <2>1, <2>2, Frame
<1>5. CASE Fault /\ RefundAttemptFailed(s) /\ UNCHANGED <<wallet, subUsed, paid>>
  <2> DEFINE rr == [r EXCEPT !.attempts = @ + 1,
                       !.rpc = IF r.attempts + 1 < 3 THEN "funding" ELSE "extra"]
             pp == p
  <2>1. Request(rr, pp)
    BY <1>1, <1>5, RefundAttemptFailedOk DEF SubscriptionRefund
  <2>2. Moves(s, rr, pp)
    BY <1>1, <1>5, CountersOk DEF Moves, GlobalOK, Numbers, IInv, TypeOK,
      SubscriptionRefund, PostConsumeUserSubscriptionDelta, Clamp, RefundAttemptFailed
  <2> QED BY <2>1, <2>2, Frame
<1> QED BY <1>1, <1>3, <1>4, <1>5 DEF SubscriptionRefund

\* The record of the refund is written.
LEMMA SubscriptionRefundRecordInv ==
    ASSUME IInv, NEW s \in Session, SubscriptionRefundRecord(s)
    PROVE  IInv'
<1> DEFINE r == sess[s]
           p == paid[s]
<1>1. Request(r, p) /\ Numbers(r, p) /\ GlobalOK
  BY Now
<1>2. r.source = "subscription"
  BY <1>1 DEF SubscriptionRefundRecord, Request, RequestInv, FlagsInv
<1>3. CASE Ok /\ record' = [record EXCEPT ![s] = "refunded"]
           /\ sess' = [sess EXCEPT ![s].rpc = "extra"]
  <2> DEFINE rr == [r EXCEPT !.rpc = "extra"]
             pp == p
  <2>1. Request(rr, pp)
    BY <1>1, <1>2, <1>3, RefundGoesOnOk DEF SubscriptionRefundRecord
  <2>2. Moves(s, rr, pp)
    BY <1>1, <1>2, <1>3, CountersOk DEF Moves, GlobalOK, Numbers, IInv, TypeOK,
      SubscriptionRefundRecord, RefundAttemptFailed
  <2> QED BY <2>1, <2>2, Frame
<1>4. CASE Fault /\ RefundAttemptFailed(s) /\ UNCHANGED record
  <2> DEFINE rr == [r EXCEPT !.attempts = @ + 1,
                       !.rpc = IF r.attempts + 1 < 3 THEN "funding" ELSE "extra"]
             pp == p
  <2>1. Request(rr, pp)
    BY <1>1, <1>2, <1>4, RefundAttemptFailedOk DEF SubscriptionRefundRecord
  <2>2. Moves(s, rr, pp)
    BY <1>1, <1>2, <1>4, CountersOk DEF Moves, GlobalOK, Numbers, IInv, TypeOK,
      SubscriptionRefundRecord, RefundAttemptFailed
  <2> QED BY <2>1, <2>2, Frame
<1> QED BY <1>1, <1>2, <1>3, <1>4 DEF SubscriptionRefundRecord

\* What Reserve added is refunded.
LEMMA SubscriptionRefundExtraInv ==
    ASSUME IInv, NEW s \in Session, SubscriptionRefundExtra(s)
    PROVE  IInv'
<1> DEFINE r == sess[s]
           p == paid[s]
<1>1. Request(r, p) /\ Numbers(r, p) /\ GlobalOK
  BY Now
<1>2. r.source = "subscription"
  BY <1>1 DEF SubscriptionRefundExtra, Request, RequestInv, FlagsInv
<1>3. CASE Ok /\ PostConsumeUserSubscriptionDelta(s, -r.extra)
  <2> DEFINE rr == [r EXCEPT !.rpc = "token"]
             pp == [p EXCEPT !.sub = @ + (-r.extra)]
  <2>1. Request(rr, pp)
    BY <1>1, <1>2, <1>3, SubscriptionRefundedOk DEF SubscriptionRefundExtra, Numbers
  <2>2. Moves(s, rr, pp)
    BY <1>1, <1>2, <1>3, CountersOk DEF Moves, GlobalOK, Numbers, IInv, TypeOK,
      SubscriptionRefundExtra, PostConsumeUserSubscriptionDelta, Clamp
  <2> QED BY <2>1, <2>2, Frame
<1>4. CASE (Ok \/ Fault) /\ UNCHANGED <<wallet, subUsed, paid>>
  <2> DEFINE rr == [r EXCEPT !.rpc = "token"]
             pp == p
  <2>1. Request(rr, pp)
    BY <1>1, <1>2, <1>4, RefundGoesOnOk DEF SubscriptionRefundExtra
  <2>2. Moves(s, rr, pp)
    BY <1>1, <1>2, <1>4, CountersOk DEF Moves, GlobalOK, Numbers, IInv, TypeOK,
      SubscriptionRefundExtra, PostConsumeUserSubscriptionDelta, Clamp
  <2> QED BY <2>1, <2>2, Frame
<1> QED BY <1>1, <1>2, <1>3, <1>4 DEF SubscriptionRefundExtra

\* The token is refunded.
LEMMA RefundTokenInv ==
    ASSUME IInv, NEW s \in Session, RefundToken(s)
    PROVE  IInv'
<1> DEFINE r == sess[s]
           p == paid[s]
<1>1. Request(r, p) /\ Numbers(r, p) /\ GlobalOK
  BY Now
<1>3. CASE Ok /\ ~r.playground /\ ChangeTokenQuota(s, -r.tokenConsumed)
  <2> DEFINE rr == [r EXCEPT !.rpc = "end"]
             pp == [p EXCEPT !.token = @ + (-r.tokenConsumed)]
  <2>1. Request(rr, pp)
    BY <1>1, <1>3, TokenRefundedOk DEF RefundToken
  <2>2. Moves(s, rr, pp)
    BY <1>1, <1>3, CountersOk DEF Moves, GlobalOK, Numbers, IInv, TypeOK,
      RefundToken, ChangeTokenQuota, NoToken
  <2> QED BY <2>1, <2>2, Frame
<1>4. CASE (Ok \/ Fault) /\ NoToken /\ UNCHANGED paid
  <2> DEFINE rr == [r EXCEPT !.rpc = "end"]
             pp == p
  <2>1. Request(rr, pp)
    BY <1>1, <1>4, TokenNotRefundedOk DEF RefundToken
  <2>2. Moves(s, rr, pp)
    BY <1>1, <1>4, CountersOk DEF Moves, GlobalOK, Numbers, IInv, TypeOK,
      RefundToken, ChangeTokenQuota, NoToken
  <2> QED BY <2>1, <2>2, Frame
<1> QED BY <1>1, <1>3, <1>4 DEF RefundToken

\* The fee is charged.
LEMMA ChargeViolationFeeInv ==
    ASSUME IInv, NEW s \in Session, ChargeViolationFee(s)
    PROVE  IInv'
<1> DEFINE r == sess[s]
           p == paid[s]
<1>1. Request(r, p) /\ Numbers(r, p) /\ GlobalOK
  BY Now
<1>2. r.source \in {"wallet", "subscription"}
  BY <1>1 DEF ChargeViolationFee, Request, RequestInv, FlagsInv, SessionType
<1>3. CASE Ok /\ r.source = "subscription" /\ FundingMove(s, r.amount)
           /\ sess' = [sess EXCEPT ![s] =
                [@ EXCEPT !.fee = r.amount,
                          !.pc = IF r.playground THEN "failed" ELSE "feeToken"]]
  <2> DEFINE rr == [r EXCEPT !.fee = r.amount,
                       !.pc = IF r.playground THEN "failed" ELSE "feeToken"]
             pp == [p EXCEPT !.sub = @ + r.amount]
  <2>1. Request(rr, pp)
    BY <1>1, <1>2, <1>3, SubscriptionFeeOk DEF ChargeViolationFee
  <2>2. Moves(s, rr, pp)
    BY <1>1, <1>2, <1>3, CountersOk DEF Moves, GlobalOK, Numbers, IInv, TypeOK,
      ChargeViolationFee, FundingMove, ChangeUserQuota, PostConsumeUserSubscriptionDelta, Clamp
  <2> QED BY <2>1, <2>2, Frame
<1>4. CASE Ok /\ r.source = "wallet" /\ FundingMove(s, r.amount)
           /\ sess' = [sess EXCEPT ![s] =
                [@ EXCEPT !.fee = r.amount,
                          !.pc = IF r.playground THEN "failed" ELSE "feeToken"]]
  <2> DEFINE rr == [r EXCEPT !.fee = r.amount,
                       !.pc = IF r.playground THEN "failed" ELSE "feeToken"]
             pp == [p EXCEPT !.wallet = @ + r.amount]
  <2>1. Request(rr, pp)
    BY <1>1, <1>2, <1>4, WalletFeeOk DEF ChargeViolationFee
  <2>2. Moves(s, rr, pp)
    BY <1>1, <1>2, <1>4, CountersOk DEF Moves, GlobalOK, Numbers, IInv, TypeOK,
      ChargeViolationFee, FundingMove, ChangeUserQuota, PostConsumeUserSubscriptionDelta, Clamp
  <2> QED BY <2>1, <2>2, Frame
<1>5. CASE (Ok \/ Fault) /\ UNCHANGED <<wallet, subUsed, paid>>
           /\ sess' = [sess EXCEPT ![s].pc = "failed"]
  <2> DEFINE rr == [r EXCEPT !.pc = "failed"]
             pp == p
  <2>1. Request(rr, pp)
    BY <1>1, <1>2, <1>5, FeeEndedOk DEF ChargeViolationFee
  <2>2. Moves(s, rr, pp)
    BY <1>1, <1>2, <1>5, CountersOk DEF Moves, GlobalOK, Numbers, IInv, TypeOK,
      ChargeViolationFee, FundingMove, ChangeUserQuota, PostConsumeUserSubscriptionDelta, Clamp
  <2> QED BY <2>1, <2>2, Frame
<1> QED BY <1>1, <1>2, <1>3, <1>4, <1>5 DEF ChargeViolationFee

\* The token's share of the fee.
LEMMA ChargeViolationFeeTokenInv ==
    ASSUME IInv, NEW s \in Session, ChargeViolationFeeToken(s)
    PROVE  IInv'
<1> DEFINE r == sess[s]
           p == paid[s]
<1>1. Request(r, p) /\ Numbers(r, p) /\ GlobalOK
  BY Now
<1>3. CASE Ok /\ ChangeTokenQuota(s, r.fee)
  <2> DEFINE rr == [r EXCEPT !.pc = "failed"]
             pp == [p EXCEPT !.token = @ + r.fee]
  <2>1. Request(rr, pp)
    BY <1>1, <1>3, TokenFeeOk DEF ChargeViolationFeeToken
  <2>2. Moves(s, rr, pp)
    BY <1>1, <1>3, CountersOk DEF Moves, GlobalOK, Numbers, IInv, TypeOK,
      ChargeViolationFeeToken, ChangeTokenQuota, NoToken
  <2> QED BY <2>1, <2>2, Frame
<1>4. CASE Fault /\ NoToken /\ UNCHANGED paid
  <2> DEFINE rr == [r EXCEPT !.pc = "failed"]
             pp == p
  <2>1. Request(rr, pp)
    BY <1>1, <1>4, FeeEndedOk DEF ChargeViolationFeeToken
  <2>2. Moves(s, rr, pp)
    BY <1>1, <1>4, CountersOk DEF Moves, GlobalOK, Numbers, IInv, TypeOK,
      ChargeViolationFeeToken, ChangeTokenQuota, NoToken
  <2> QED BY <2>1, <2>2, Frame
<1> QED BY <1>1, <1>3, <1>4 DEF ChargeViolationFeeToken

-----------------------------------------------------------------------------
(* Arrival, the environment, and the theorems.                              *)

\* A request that has not arrived is well typed and owes nothing.
LEMMA FreshIsSession == Fresh \in SessionType
<1>1. /\ "idle" \in PC /\ "none" \in RefundPC /\ "none" \in Codes
      /\ "subscription_first" \in AllPreferences
  BY DEF PC, RefundPC, Codes, AllPreferences
<1> QED BY <1>1 DEF Fresh, SessionType

\* What a request is when NewBillingSession starts on it.
LEMMA ArrivedOk ==
    ASSUME NEW p \in AllPreferences, NEW q \in Nat, NEW g \in BOOLEAN,
           NEW f \in BOOLEAN, NEW n \in Int,
           NEW z \in PaidType, z.wallet = 0, z.token = 0, z.sub = 0
    PROVE  Request([Fresh EXCEPT !.pref = p, !.ask = q, !.playground = g,
                                 !.force = f, !.tokenQuota = n], z)
<1> DEFINE rr == [Fresh EXCEPT !.pref = p, !.ask = q, !.playground = g,
                               !.force = f, !.tokenQuota = n]
<1>1. rr \in SessionType
  BY FreshIsSession DEF SessionType
<1>2. RequestInv(rr, z)
  BY DEF Fresh, RequestInv, FlagsInv, WalletInv, TokenInv, SubscriptionInv,
         PreferenceInv, EarlyPC, ReservePC
<1> QED BY <1>1, <1>2 DEF Request

\* A request that has not arrived has paid nothing.
LEMMA IdlePaidNothing ==
    ASSUME NEW r, NEW p, Request(r, p), r.pc = "idle"
    PROVE  p.wallet = 0 /\ p.token = 0 /\ p.sub = 0
BY DEF Request, RequestInv, FlagsInv, WalletInv, TokenInv, SubscriptionInv,
       EarlyPC, SessionType, PaidType

\* A new session starts on one of its three paths.
LEMMA NewBillingSessionInv ==
    ASSUME IInv, NEW s \in Session, NEW p \in Preferences, NEW q \in PreQuotas,
           NEW g \in Playground, NEW f \in ForcePreConsume, NewBillingSession(s, p, q, g, f)
    PROVE  IInv'
<1> DEFINE n == IF g THEN 0 ELSE remain
           a == [Fresh EXCEPT !.pref = p, !.ask = q, !.playground = g,
                              !.force = f, !.tokenQuota = n]
           pp == paid[s]
<1>1. Request(sess[s], pp) /\ Numbers(sess[s], pp) /\ GlobalOK
  BY Now
<1>2. /\ p \in AllPreferences /\ q \in Nat /\ g \in BOOLEAN /\ f \in BOOLEAN
      /\ n \in Int /\ pp \in PaidType
  <2>1. p \in AllPreferences /\ q \in Nat /\ g \in BOOLEAN /\ f \in BOOLEAN
    <3>1. /\ Preferences \subseteq AllPreferences /\ PreQuotas \subseteq Nat
          /\ Playground \subseteq BOOLEAN /\ ForcePreConsume \subseteq BOOLEAN
      BY ConstantsAssumption, Zenon
    <3>2. p \in Preferences /\ q \in PreQuotas /\ g \in Playground /\ f \in ForcePreConsume
      OBVIOUS
    <3> QED BY <3>1, <3>2, Zenon
  <2>2. pp \in PaidType /\ remain \in Int
    BY <1>1, Zenon DEF GlobalOK, Request
  <2> QED BY <2>1, <2>2
<1>3. pp.wallet = 0 /\ pp.token = 0 /\ pp.sub = 0
  BY <1>1, IdlePaidNothing DEF NewBillingSession
<1>4. Request(a, pp)
  BY <1>2, <1>3, ArrivedOk
<1>5. a.pc = "idle" /\ a.pref = p
  BY DEF Fresh
<1>6. paid' = [paid EXCEPT ![s] = pp] /\ GlobalOK'
  BY <1>1, CountersOk DEF NewBillingSession, GlobalOK, IInv, TypeOK
<1>7. CASE p = "subscription_only"
  <2> DEFINE rr == SubscriptionSession(a)
  <2>1. sess' = [sess EXCEPT ![s] = rr]
    BY <1>7 DEF NewBillingSession
  <2>2. Request(rr, pp)
    BY <1>4, <1>5, <1>7, SubscriptionSessionOk
  <2> HIDE DEF rr
  <2> QED BY <1>6, <2>1, <2>2, Frame DEF Moves
<1>8. CASE p \in {"wallet_only", "wallet_first"}
  <2> DEFINE rr == [a EXCEPT !.pc = "tryWallet"]
  <2>1. sess' = [sess EXCEPT ![s] = rr]
    BY <1>8 DEF NewBillingSession
  <2>2. Request(rr, pp)
    BY <1>4, <1>5, <1>8, ToWalletOk
  <2> HIDE DEF rr
  <2> QED BY <1>6, <2>1, <2>2, Frame DEF Moves
<1>9. CASE p = "subscription_first"
  <2> DEFINE rr == [a EXCEPT !.pc = "checkSub"]
  <2>1. sess' = [sess EXCEPT ![s] = rr]
    BY <1>9 DEF NewBillingSession
  <2>2. Request(rr, pp)
    BY <1>4, <1>5, <1>9, ToSubscriptionOk
  <2> HIDE DEF rr
  <2> QED BY <1>6, <2>1, <2>2, Frame DEF Moves
<1> QED BY <1>2, <1>7, <1>8, <1>9 DEF AllPreferences

\* Only whether the subscription can be found changes.
LEMMA EndSubscriptionInv ==
    ASSUME IInv, EndSubscription
    PROVE  IInv'
<1>1. TypeOK'
  BY DEF IInv, TypeOK, EndSubscription, Ok
<1>2. BooksAgree'
  BY DEF IInv, BooksAgree, EndSubscription
<1> QED BY <1>1, <1>2 DEF IInv

\* Every request under way ends, and nothing is paid or given back.
LEMMA CrashInv ==
    ASSUME IInv, Crash
    PROVE  IInv'
<1>1. ASSUME NEW s \in Session PROVE Request(sess'[s], paid'[s])
  <2>1. Request(sess[s], paid[s]) /\ paid'[s] = paid[s]
    BY Now DEF Crash
  <2>2. CASE sess'[s] = sess[s]
    BY <2>1, <2>2
  <2>3. CASE sess[s].pc # "idle" /\ ~AtRest(s)
    <3>1. sess'[s] = [sess[s] EXCEPT !.pc = "crashed",
                        !.rpc = IF @ \in {"none", "end"} THEN @ ELSE "lost"]
      BY <2>3 DEF Crash
    <3> QED BY <2>1, <2>3, <3>1, CrashedOk
  <2> QED BY <2>2, <2>3 DEF Crash
<1>2. TypeOK'
  <2>1. sess' \in [Session -> SessionType]
    BY <1>1 DEF Crash, Request
  <2>2. crashes' \in 0..MaxCrashes
    <3>1. /\ crashes \in 0..MaxCrashes /\ MaxCrashes \in Nat
          /\ crashes < MaxCrashes /\ crashes' = crashes + 1
      BY ConstantsAssumption, Zenon DEF IInv, TypeOK, Crash
    <3> QED BY <3>1
  <2> QED BY <2>1, <2>2 DEF IInv, TypeOK, Crash
<1>3. BooksAgree'
  BY <1>1 DEF IInv, BooksAgree, Crash, Request
<1> QED BY <1>2, <1>3 DEF IInv

\* Before the first request the books are empty.
LEMMA InitInv == Init => IInv
<1> SUFFICES ASSUME Init PROVE IInv
  OBVIOUS
<1>1. TypeOK
  BY FreshIsSession, ConstantsAssumption DEF Init, TypeOK, PaidType
<1>2. BooksAgree
  BY ConstantsAssumption DEF Init, BooksAgree, Fresh, RequestInv, FlagsInv,
     WalletInv, TokenInv, SubscriptionInv, PreferenceInv, EarlyPC, ReservePC
<1> QED BY <1>1, <1>2 DEF IInv

\* The invariant is inductive: one step per action.
LEMMA NextInv == IInv /\ [Next]_vars => IInv'
<1> SUFFICES ASSUME IInv, [Next]_vars PROVE IInv'
  OBVIOUS
<1>1. CASE UNCHANGED vars
  BY <1>1 DEF vars, IInv, TypeOK, BooksAgree
<1>2. ASSUME NEW s \in Session, Arrive(s) PROVE IInv'
  <2>1. CASE ValidateUserToken(s)
    BY <2>1, ValidateUserTokenInv
  <2>2. ASSUME NEW p \in Preferences, NEW q \in PreQuotas, NEW g \in Playground,
               NEW f \in ForcePreConsume, NewBillingSession(s, p, q, g, f)
        PROVE  IInv'
    BY <2>2, NewBillingSessionInv, Zenon
  <2>4. CASE \E p \in Preferences, q \in PreQuotas, g \in Playground, f \in ForcePreConsume :
               NewBillingSession(s, p, q, g, f)
    <3>1. PICK p \in Preferences, q \in PreQuotas, g \in Playground, f \in ForcePreConsume :
                 NewBillingSession(s, p, q, g, f)
      BY <2>4, Zenon
    <3> QED BY <3>1, <2>2, Zenon
  <2> QED BY <1>2, <2>1, <2>4, Zenon DEF Arrive
<1>3. ASSUME NEW s \in Session, Advance(s) PROVE IInv'
  BY <1>3, HasActiveUserSubscriptionInv, TryWalletInv, CheckTokenInv, TakeTokenInv,
     WalletPreConsumeInv, SubscriptionPreConsumeInv, RollbackTokenInv,
     ReserveCheckTokenInv, ReserveTakeTokenInv, RollbackFundingReserveInv,
     SettleTokenInv, ChargeViolationFeeInv, ChargeViolationFeeTokenInv
     DEF Advance
<1>4. ASSUME NEW s \in Session, AdvanceRefund(s) PROVE IInv'
  BY <1>4, WalletRefundInv, SubscriptionRefundInv, SubscriptionRefundRecordInv,
     SubscriptionRefundExtraInv, RefundTokenInv DEF AdvanceRefund
<1>5. ASSUME NEW s \in Session, Answer(s) PROVE IInv'
  BY <1>5, SettleInv, RefundInv DEF Answer
<1>6. ASSUME NEW s \in Session, NEW t \in ReserveTargets, Reserve(s, t) PROVE IInv'
  BY <1>6, ReserveInv
<1>7. CASE EndSubscription
  BY <1>7, EndSubscriptionInv
<1>8. CASE Crash
  BY <1>8, CrashInv
<1>9. CASE Done
  BY <1>1, <1>9 DEF Done
<1> QED BY <1>1, <1>2, <1>3, <1>4, <1>5, <1>6, <1>7, <1>8, <1>9 DEF Next

\* The inductive invariant holds in every reachable state.
THEOREM Invariance == Spec => []IInv
BY InitInv, NextInv, PTL DEF Spec

\* Every variable keeps its type: no amount a session remembers turns negative
\* and the retry counter of refundWithRetry stays within its three attempts.
THEOREM TypeCorrect == Spec => []TypeOK
<1>1. IInv => TypeOK
  BY DEF IInv
<1> QED BY <1>1, Invariance, PTL

\* The sessions' fields account for what left the wallet and for what the token
\* gets back, for any number of concurrent requests, database errors and crashes.
THEOREM BooksAlwaysAgree == Spec => []BooksAgree
<1>1. IInv => BooksAgree
  BY DEF IInv
<1> QED BY <1>1, Invariance, PTL

\* The guarded update of decreaseUserQuota keeps the wallet out of debt.
THEOREM WalletStaysNonNegative == Spec => []WalletNeverNegative
<1>1. IInv => WalletNeverNegative
  BY DEF IInv, BooksAgree, WalletNeverNegative
<1> QED BY <1>1, Invariance, PTL

\* No order of settle, rollbacks, refund, errors and crashes gives back more of
\* the wallet or the token than the request took.
THEOREM NoOverRefund == Spec => []NeverOverRefunded
<1>1. IInv => NeverOverRefunded
  <2> SUFFICES ASSUME IInv, NEW s \in Session
               PROVE  paid[s].wallet >= 0 /\ paid[s].token >= 0
    BY DEF NeverOverRefunded
  <2>1. Request(sess[s], paid[s]) /\ Numbers(sess[s], paid[s])
    BY Now
  <2> QED BY <2>1 DEF Request, RequestInv, WalletInv, TokenInv, Numbers, SessionType
<1> QED BY <1>1, Invariance, PTL

\* A request is charged to one funding source, and to one its preference allows.
THEOREM FundingAsPreferred == Spec => []FundingFollowsPreference
<1>1. IInv => FundingFollowsPreference
  <2> SUFFICES ASSUME IInv, NEW s \in Session
               PROVE  /\ paid[s].wallet = 0 \/ paid[s].sub = 0
                      /\ sess[s].pref = "wallet_only" => paid[s].sub = 0
                      /\ sess[s].pref = "subscription_only" => paid[s].wallet = 0
    BY DEF FundingFollowsPreference
  <2>1. Request(sess[s], paid[s])
    BY Now
  <2> QED BY <2>1 DEF Request, RequestInv, WalletInv, SubscriptionInv, PreferenceInv
<1> QED BY <1>1, Invariance, PTL

=============================================================================
