# Verification of LoveApi

LoveApi is an API gateway in Go (gin, GORM) for about forty AI providers. Users
hold a wallet of quota, tokens with quotas of their own, and subscriptions; each
relayed request is charged to them in several steps, while webhooks, polling
loops, maintenance tasks and administrators work on the same rows from other
goroutines and other processes. Its web front end (React) is mostly forms and
tables, with two features that keep state of their own over many asynchronous
steps: the image canvas and the chat playground. This directory models the parts
in which money moves and these two. It was written from the source, and the line
of source behind every definition is in `PROJECT.json` (`map`).

## Inventory

| Component | State | Operations | Talks to | What is hard | What makes it correct |
|---|---|---|---|---|---|
| Billing session (`service/billing_session.go`, `funding_source.go`) | flags and amounts of one request, in memory | NewBillingSession, preConsume, Reserve, Settle, Refund | wallet, token, subscription rows; goroutine for refunds | requests interleave at each statement, fallback, half-failed settlement, crash | each request pays its price once, from one source, or nothing |
| Quota of users and tokens (`model/user.go`, `model/token.go`, `service/quota.go`) | `users.quota`, `tokens.remain_quota`, `tokens.status` | increase, decrease, validate, charge a fee | everything that bills | check-then-act, stored verdicts | the wallet is not overdrawn |
| Subscription orders and groups (`model/subscription.go`, payment controllers) | orders, subscriptions, `users.group` | complete, expire, bind, invalidate, delete, expire due | payment webhooks, maintenance task | duplicated and conflicting webhooks, several processes, locks that are not taken | one payment, one subscription; limit; the group is lent and given back |
| Subscription quota and reset (`model/subscription.go`, `service/subscription_reset_task.go`) | `amount_used`, reset times, status | pre-consume, settle, refund, reset, cancel | billing session, maintenance loop | whole rows saved from stale reads, loop over batches | nothing is consumed for free, what is due is reset |
| Asynchronous tasks (`service/task_polling.go`, `task_billing.go`, `relay/relay_task.go`, `controller/relay.go`) | `tasks` rows, lists held by pollers | submit, sweep, poll, fetch, refund, settle | upstream, wallet or subscription | several pollers on stale lists, unguarded writes, half-done ends | each task ends, once, and is billed once |
| Top-up orders, redemption codes (`controller/topup*.go`, `model/topup.go`, `redemption.go`) | orders, `users.quota`, the table of order locks | request, complete, expire, fail, redeem; LockOrder, UnlockOrder | webhooks, administrators | repeated and concurrent webhooks, a lock that is counted, removed and made anew, handlers that do not lock | one payment, one credit; every handler gets the lock |
| Canvas history (`web/classic/src/features/canvas`, `controller/canvas_history.go`, `relay/canvas_ws.go`) | the list of a tab, localStorage, IndexedDB, the server's table, a generation flag | generate, restore, refresh, clear, sign out and in | relay, WebSocket, other tabs | chains of awaits on captured lists, events that overtake answers, accounts that change | no account gets another's images, none is lost, the view is the server's |
| Playground chat (`web/default/src/features/playground`) | messages, what is rendered, the stored copy, the stream | send, stop, regenerate, edit, delete, reload; chunk, error, end | relay (server-sent events) | events of a stream that is gone, handlers on the last render, reload in the middle | an answer is its own and ends, a failure stays, Stop is there when needed |
| Quota caches, batch updater | Redis hashes, in-memory deltas | refill, increment, flush | database | refill races, loss at a crash | cache and database converge |
| Channel selection and retry | channel cache, status, keys | select, exclude, disable, enable | relay loop | stale cache, retry across groups | no excluded channel is tried again, the loop ends |
| Rate limiters, hybrid cache | windows, entries | admit, record; get, set, purge | middleware | check-then-record | limit is respected |
| Midjourney tasks | `midjourneys` rows | poll, refund | upstream | as asynchronous tasks | billed once |
| Stream scanner | goroutines, channels | read, ping, stop | upstream, client | shutdown order | every goroutine ends |
| Prices, adaptors, accounts, settings, statistics, the rest of the front ends | — | — | — | arithmetic, formats, presentation | not modelled |

## Modules

| Module | Models | Checked by |
|---|---|---|
| `BillingSession` | the sessions of one user and one token, with the rows they share | `MCBillingSession`, `billing_*.cfg`, `BillingSessionProofs`, `BillingLedgerProofs` |
| `WalletLedger` | the abstract promise to the owner of a wallet | refined by `BillingSession` (`billing_faults.cfg`, `BillingLedgerProofs`) |
| `SubscriptionOrders` | orders, purchase limit and group | `MCSubscriptionOrders`, `orders_*.cfg`, `SubscriptionOrdersProofs` |
| `SubscriptionQuota` | the rows' quota, the reset and the maintenance loop | `MCSubscriptionQuota`, `quota_maintenance.cfg`, `SubscriptionQuotaProofs` |
| `TaskLifecycle` | asynchronous tasks and what the user pays for them | `MCTaskLifecycle`, `tasks_*.cfg`, `TaskLifecycleProofs` |
| `TopUpOrders` | top-up orders, their handlers, and LockOrder | `MCTopUpOrders`, `topup_orders.cfg`, `TopUpOrdersProofs` |
| `CanvasHistory` | the history of the image canvas in tabs, browser and server | `MCCanvasHistory`, `canvas_history.cfg`, `CanvasHistoryProofs` |
| `Playground` | one tab's conversation and its streams | `MCPlayground`, `playground_chat.cfg`, `PlaygroundProofs` |

The modules meet in the subscription row. `BillingSession` treats every
transaction on it as one step and leaves resets out; `SubscriptionQuota` opens
those transactions up, in their read and their save, and adds the reset and the
cancellation. `SubscriptionOrders` is about the existence of the rows. A task's
submission is a billing session; `TaskLifecycle` starts from its outcome.
`SubscriptionOrders` takes LockOrder as the mutual exclusion it is for; that it
is one, for the handlers of a process, is what `TopUpOrders` opens up and proves
(`LockOrderExcludes`).

### BillingSession

`wallet`, `remain`, `tokenOn`, `subUsed`, `subOn` and `record` are columns;
`sess[s]` is the Go `BillingSession` with the handler's position `pc` and the
refund goroutine's position `rpc`; `paid[s]` is history: what the request has
taken from wallet, token and subscription, net. An action is one database
statement (or transaction) with the assignments up to the next, so requests
interleave at every statement. The mutex of a session makes one process of its
methods; the goroutine of `Refund` runs beside what the handler still does (the
violation fee). Every statement may fail (`faults`), and the process may stop
anywhere (`Crash`), which loses the sessions and goroutines. `Reserve` is
exported and modelled, though only tests call it today.

Redis and the batch updater are off, as without `REDIS_CONN_STRING` and
`BATCH_UPDATE_ENABLED`. Amounts are natural numbers: the code's `int` is 64 bits
wide and quotas do not come near its limit.

### SubscriptionOrders

A transaction is two steps: the action named after the Go function reads and
decides, and leaves the writes in `tx`; `Commit` performs them. Transactions
overlap, and `Isolation` says what may come between their two steps: another
commit, after which the transaction fails as "database is locked" (`serial`:
SQLite, where a transaction that has read cannot write once another one has;
`AfterCommit`), nothing on the same order (`rowLocks`: MySQL and PostgreSQL if
`FOR UPDATE` were effective), or anything. The last is what the code gets there: it asks for the lock with `tx.Set("gorm:query_option", "FOR UPDATE")`,
a GORM v1 setting that v1.25.2 of `gorm.io/gorm` (GORM v2) does not look at.
`LockOrder` is a mutex of one process, `NodeOf` the process of a worker. Webhook
verification and provider checks are outside.

### SubscriptionQuota

Rows have `used`, `last` and `next` (which may be nil or, distinct from it, a
pointer to the zero time), `end` and `status`. Requests pre-consume, settle or
refund; a refund is tried three times, and when the pre-consume record could not
be saved after the amount was given back, the next attempt gives it back again.
`Task` runs expiry, which selects a batch and then expires all that is due of the
users in it, and then batches of resets; an error of a query or an update ends
its run. `locked` says whether transactions interleave on the database; `Init`
chooses it from `LockModes`. `Period`, `Aligned` and `calcNextResetTime` stand for daily,
weekly, monthly and custom resets. `charged` is history: what
requests have charged to a subscription since its last reset. A strict MySQL refuses the zero time; the model is
that of SQLite and PostgreSQL, which store it.

### TaskLifecycle

`row` is the table, `poll[p]` the loop of a master process with its stale
copies, `fetch[f]` a user's fetch of a Gemini or Vertex task. `paid` and `billed`
are history. `UpdateWithStatus` is the compare-and-swap on the status; Suno's
`Save` and the bulk update are not guarded, as in the code. SUBMITTED and QUEUED
are IN_PROGRESS. `full` is a progress of 100%. Both queries skip such rows,
whatever their status; an answer may leave one that is open (`odd`): a Suno item
with a fail reason and an open status, which is refunded as if it had failed, or
a progress of 100% that comes with an open status. The items of an answer are
taken one at a time. The adjustment of the token is left out
(it follows that of the funding source and its errors are ignored), and so are
tasks from before the billing migration, which are not refunded on purpose.

### TopUpOrders

An order has a provider, a status and a count of credits; a handler has a job
(complete, Epay's two statements, expire, fail, or the user's request that
creates the order), a position, and what it has read. LockOrder and UnlockOrder
are taken apart into their steps: look up or allocate the mutex under
`createLock`, wait for it, later unlock it, count down under `createLock` and
remove it at zero. The step that reads is apart from the one that writes,
because `FOR UPDATE` is not in effect. A crash of a process loses its handlers,
table and mutexes. Stripe's job stands for Creem's and the administrator's,
Waffo's for Waffo Pancake's.

### CanvasHistory

Lists are sets of images, named by the generation that made them (the limits of
500 and 2000 are far). `restore[t]`, `refresh[t]` and `gen[g]` are the chains of
awaits of `index.tsx`, each with what it captured: the account of the tab and
the list of its render. Requests to the server act for `session`, the account of
the cookie at that moment. Signing out and in reloads the tab that does it;
other tabs keep their account and the handlers that run (`mixed` records that).
The relay publishes its event when the upstream has answered, before or after
the answer reaches the tab. Every request and every write of a store can fail. A
save is sent and takes effect later; when its page is left or unloaded in between
it goes on without it (`posts`, `LateSave`), or is broken off. The 100 ms timer of
a refresh waits for nothing. `Overlapping` says whether users act while a handler
that replaces the list runs; timers, saves and events do not care. `crossed` is
history: a Clear with a save of a page that is gone, or a refresh, under way, and
a save that takes effect after the next page has read. Setting the state of a
canvas that was left does nothing in React, which is why `live` stands for both
`cancelled` and the one `setHistory` (line 657) that does not look at it.

### Playground

`messages` is the React state, `rendered` what the last render showed and the
user's clicks work on, `stored` the copy in localStorage. Each request has a
stream; the ref holds the one that is current. The SSE library delivers all
events of one network read without a render in between, and goes on when a
listener has closed the stream (`batch`). Chunks are sets of the requests they
belong to. `Careful` says that users do not click a suggestion, or Save in an
edit form that is open, while an answer is generated: the code guards the other
buttons (`useMessageActionGuard`), not these. All safety properties of the
playground are about careful users; the table below has what happens to others.

## Runs

Passing runs:

| Run | Instance | Shows |
|---|---|---|
| `billing_requests` | 2 requests, 4 preferences, trust bypass, playground, `Reserve`, fees, a subscription that may end | `TypeOK`, `WalletNeverNegative`, `FundingFollowsPreference`, `SubscriptionBooksBalance`, `RefundReturnsAll` (requests that failed, refused or refunded, cost nothing) |
| `billing_faults` | 2 requests, 1 database error, 1 crash, late failures | `BooksAgree` (inductive), `NeverOverRefunded`, `SettledPaysActual`, refinement of `WalletLedger` |
| `billing_live` | 2 requests, fairness | `RequestsEnd`, `RefundDelivered` |
| `orders_serial` | 2 workers and the task, overlapping on SQLite; 2 orders of a plan that may be bought once, a second plan, 2 subscriptions, clock to 3 | `TypeOK`, `PurchaseLimit`, `ActiveKeepsUpgrade`, `GroupRestoredWithoutOverlap` |
| `orders_locked` | 2 workers in 1 process, 2 orders, no row locks | `OrderFulfilledOnce`, `SuccessMeansSubscription`, `OrderIsFinal`: `LockOrder` alone does it |
| `quota_maintenance` | 1 request, 2 subscriptions, batch 2, cancellation, 1 error, both kinds of database, fairness | `TypeOK`; `UsedCoversCharges` where transactions do not interleave; `ExpiresForGood`, `MaintenanceEnds`, `DueIsReset` on either |
| `tasks_video` | 1 video, 2 pollers, 1 error, 1 crash | `TypeOK`, `BilledOnce`, `FailedIsRefunded` |
| `tasks_live` | 1 video, 1 song, 1 poller, 1 fetch, vanishing channel, odd answers, 1 error, fairness | `TasksEnd` |
| `topup_orders` | 3 handlers of 1 process, 1 order of any provider, 2 mutexes, 1 fault, fairness | `TypeOK`, `CreditedOnce`, `StatusMatchesCredit`, `HandlersReturn` |
| `canvas_history` | 1 tab, 2 accounts (1 administrator), 2 generations, 1 old image, 1 change of account, 2 visits, 1 fault | `TypeOK`, `AccountsApart`, `NothingLost`, `ViewMatchesServer` |
| `playground_chat` | 2 requests, all clicks, events and reloads, `Careful`, fairness | `TypeOK`, `OwnAnswer`, `StopMatchesSpinner`, `FailedStaysFailed`, `AnswerEnds` |

One run finds a disagreement between the code and a comment (`findings` in
`PROJECT.json` quotes the line and tells the story): `billing_idempotent`
violates `SubscriptionRefundIdempotent`, because a retry of a refund whose first
half has been committed gives the subscription back twice.

The modules reproduce more of them, with other values of the constants. They are
not kept as runs; this is how to see them:

| Property | Instance | What the code does | The words it disagrees with |
|---|---|---|---|
| `WalletFirstFallsBack` | 2 `wallet_first` requests for 3 out of a wallet of 5, `TrustQuota = 0` | the request that loses the race for the wallet is refused, the subscription is not tried | `service/billing_session.go:341` |
| `FeeAfterRefund` | `wallet_only`, `FeeQuotas = {1}` | the fee is charged while the refund goroutine has yet to run | `service/violation_fee.go:102` |
| `ExhaustedMeansSpent` | 2 requests for 3, `InitRemain = 3` | a token whose quota is only reserved is marked exhausted, also after the refund | `i18n/locales/en.yaml:47` |
| `OrderFulfilledOnce` | 2 workers in 2 processes, `readCommitted` | both complete the order (with `repeatableRead` the unique index on `top_ups.trade_no` prevents it) | `model/subscription.go:509` |
| `PurchaseLimit` | 2 orders, limit 1, `rowLocks` | both count before either inserts | `model/subscription.go:165` |
| `ActiveKeepsUpgrade` | 2 workers, clock to 3, `rowLocks` | a renewal commits between the expiry task's look and its update | `model/subscription.go:860` |
| `GroupRestored` | clock to 3, `serial` | an early renewal remembers no previous group; the user keeps the upgraded one | `model/subscription.go:871` |
| `Covered` | 2 requests, `LockModes = {FALSE}`, `MaxTime = 0`, no faults | both read the same `amount_used` and save the row; one charge is lost | `service/billing_session.go:308` |
| `DueIsReset` without `Stuck` | no request, `BatchSize = 1`, `MaxTime = 4`, no faults, `FairSpec` | in its last period a row gets a pointer to the zero time and stays due; such rows fill every batch, for ever (300 of them in the code) | `model/subscription.go:1099` |
| `MaintenanceEnds` without `Stuck` | as `quota_maintenance` | the same rows, as many as a batch holds, count as reset: the loop asks for another batch and does not end, nor does the task expire anything any more (`ExpiresForGood` without `Stuck`) | `model/subscription.go:1099` |
| `EndedStaysEnded` | `LockModes = {FALSE}` | a row read before a cancellation or an expiry is saved whole after it, active again until the task expires it anew | `model/subscription.go:729` |
| `FailedIsRefunded` | 1 `Realtime` task, 1 poller, 1 fetch, no faults | a failure that a fetch takes over is never refunded | `service/task_billing.go:151` |
| `BilledOnce` | 1 `Realtime` task and a fetch | a fetch puts a timed-out, refunded task back to IN_PROGRESS | `service/task_billing_test.go:542` |
| `BilledOnce` | 1 `Suno` task, 1 error | the refund is done, saving the row fails, and the next round refunds again | `model/task.go:458` |
| `TasksEnd` without `Hidden` | 1 Suno task, no faults | an item with a fail reason and an open status is refunded and saved open at 100%; neither query lists it again | `model/task.go:311` |
| `FailedIsRefunded` | 2 pollers, `ChannelCanVanish = TRUE` | the bulk update fails tasks and refunds nobody | `service/task_billing.go:151` |
| `EndIsFinal` | 2 pollers, `ChannelCanVanish = TRUE` | a bulk update overwrites a task that has been completed and settled | `model/task.go:455` |
| `NeverOverRefunded` (tasks) | 1 error | the settlement after a submission fails and is logged, the refund returns what was never charged | `service/task_billing.go:151` |
| `CreditedOnce` | 2 handlers in 2 processes | both read a pending order and both credit it | `controller/topup.go:277` (a lock per order, of one process) |
| `StatusMatchesCredit` without its exceptions | 1 Waffo order | a failure notice, or the error path of the request, saves a row it read before and turns a credited order to failed | `controller/topup_waffo.go:380` |
| `StatusMatchesCredit` without its exceptions | 1 Epay order, 1 fault | marked as paid, and the credit fails: nobody tries again | `controller/topup.go:397` |
| `AccountsApart` with `Legacy` left out of `Own` | an administrator, 1 old image | the entry without an account is taken over at an administrator's first visit (line 642, on purpose), and not "intentionally ignored" | `web/classic/src/features/canvas/index.tsx:222` |
| `AccountsApart` without `~mixed` | 2 tabs | tab 2 changes the account; a generation of tab 1 stores the first account's list for the second | `web/classic/src/features/canvas/index.tsx:222` |
| `ViewMatchesServer` | `Overlapping = TRUE` | a restore replaces the list a generation has added to, or a generation writes back what was cleared | `web/classic/src/features/canvas/index.tsx:605` |
| `ViewMatchesServer` without `~crossed` | no faults, 2 visits | a reload in the middle of a save: the next page reads before the save takes effect, and shows less than the server has until it is entered again | `web/classic/src/features/canvas/index.tsx:605` |
| `ViewMatchesServer` without `~crossed` | no faults, 2 visits | a refresh that reads, or has read, when Clear is pressed adds the deleted images to the empty list | `web/classic/src/features/canvas/index.tsx:1402` |
| `ViewMatchesServer` without `~crossed` | no faults, 3 visits | the save of a page that is gone takes effect after a Clear and puts the list back | `web/classic/src/features/canvas/index.tsx:1402` |
| `NothingLost` | `Overlapping = TRUE`, 1 fault | of two generations that started from one list the second stores it without the first's image, which the server did not get | `web/classic/src/features/canvas/index.tsx:967` |
| `ViewMatchesServer` without `~mixed` | 2 changes of account, no faults | the session expires during a generation and another account signs in: its server gets the image, the first account's localStorage too, and shows it the next time | `web/classic/src/features/canvas/index.tsx:605` |
| `NothingLost` | 3 faults | an image reaches neither the server nor IndexedDB; the next visit cannot ask the server, starts from IndexedDB, and its first generation overwrites localStorage. Two faults are enough when the save went to another account's table (`MaxSwitches = 2`) | `web/classic/src/features/canvas/index.tsx:967` |
| `OwnAnswer` | `Careful = FALSE` | a suggestion clicked during an answer (`playground-input.tsx:110`) starts another: its stream takes the ref, the first is not closed, and both write to the last message | `web/default/src/features/playground/hooks/use-stream-request.ts:45` |
| `StopMatchesSpinner` | `Careful = FALSE` | a suggestion clicked during an answer starts another; the spinner of the first stays, with nothing to stop it | `web/default/src/features/playground/hooks/use-message-action-guard.ts:23` |
| `FailedStaysFailed` | `Careful = FALSE` | a suggestion clicked before the failure is rendered appends to the list from before it | `web/default/src/features/playground/index.tsx:96` |

Bounds. Two requests, workers, pollers or subscriptions are enough for every
race found here, because each is between two parties over one row; a third
party adds no new kind of conflict, and the proofs cover any number of them in
every module. LockOrder gets three handlers: one
that unlocks, one that waits and one that arrives. The amounts are chosen so that
one request is covered, two are not always, prices are below and above the
estimates, and a token or subscription can run out. The clock goes far enough for
a subscription to be bought, be reset in two periods, end and be renewed.
`MaxFaults` and `MaxCrashes` of one put an error or a crash at every place, one
at a time; `refundWithRetry` with three failing attempts is within the proof
only. `BatchSize` is 2 for the code's 300, so that with two subscriptions batches
are empty, full and in between, and the loop repeats. Two visits of the canvas
are one that is left with handlers and saves running and one that finds them; the
proofs have no bound on them. The playground's two requests are the one whose
events are late and the one that must not get them. Requests, workers, orders,
pollers and generations are symmetric; the runs with liveness do without symmetry.

Deadlock is checked in all runs. The systems do not stop: the billing module has an explicit `Done`, and in the others a loop, a
webhook, a click or an administrator's action is always possible.

Fairness. `billing_live`: weak fairness of the statements a handler or a refund
goroutine is committed to (goroutines are scheduled) and of the upstream's
answer (HTTP clients have timeouts). `quota_maintenance`: weak fairness of the
maintenance loop (a ticker of one minute) and of transactions that are open.
`tasks_live`: weak fairness of the polling loop (it never returns, upstream
errors included) and of the clock passing `TaskTimeoutMinutes`, which is 1440
by default; with the timeout off nothing ends a task whose upstream is silent.
`topup_orders`: weak fairness of a handler's statements and strong fairness of
getting the mutex (Go's mutexes hand over to a waiter that has starved for a
millisecond). `playground_chat`: weak fairness of the end of the stream (the
gateway times out), of the batch in progress and of React's render; nothing is
assumed of the user.

## Proofs

All theorems hold for any sets of requests, workers, orders, plans, tabs,
accounts and any amounts that satisfy the assumptions named in the modules that
declare the constants. Every invariant and every action property of the passing
runs is stated by a theorem, as is the refinement; each under the condition it
needs, which the run's constants meet.

`BillingSessionProofs`: none of the safety properties is inductive, because
whether a step gives back too much depends on what the session believes it took.
`BooksAgree` relates the two: for every request, `WalletInv` says `paid.wallet`
is what the session's fields say (reservation, adjustment after settlement, fee,
or nothing once refunded), `TokenInv` that the token was charged at least what
the session will give back, `SubscriptionInv` and `PreferenceInv` which source it
may have, and `FlagsInv` which combinations of `settled`, `fundingSettled`,
`refunded`, `pc` and `rpc` occur. `IInv` is `TypeOK /\ BooksAgree`. It is local
to a request, so lemma by lemma each action is shown to preserve it for the
request that moves, and a frame lemma carries it over for the others; the
wallet's part rests on the guard of the update.

- `TypeCorrect`, `BooksAlwaysAgree`, `WalletStaysNonNegative`, `NoOverRefund`,
  `FundingAsPreferred`: the invariants of the same names in the runs, under any
  number of requests, errors and crashes.

`BillingLedgerProofs`: `BooksAgree` bounds what a session may give back, which is
too weak for what a request has paid in the end. `ExactInv` (theorem
`BooksAreExact`) says it to the unit: `FundingExact` that the funding source was
charged the reservation, or the price once settled, `RefundExact` what is left at
each statement of the refund goroutine, `TokenExact` the same for the token, and
`SubscriptionExact` that no request gives the subscription more than it took; as
long as no error can have left a statement out. Like `BooksAgree` it is local to a request: every
statement is first a fact about the request that issues it, and `Moved` says
that the others stay as they are.

- `SettledRequestsPayTheirPrice` and `FailedRequestsAreRefunded`:
  `SettledPaysActual` and `RefundReturnsAll`.
- `SessionsRefineLedger`: `Spec` implements `WalletLedger`. The mapping reads the
  phase of a request off its fields; each step of `Next` is shown to hold,
  charge, release or take a fee for one request, or to change nothing the ledger
  sees.
- `SubscriptionIsInBalance`: the balance is a sum over requests. It is counted as
  the cardinality of the set of units the requests hold; that this set is
  finite is part of the invariant, and a step adds or removes the units of one
  request.

`SubscriptionOrdersProofs`: `Steps` reduces `Next` to inserting an order,
beginning a transaction, `Commit`, `Rollback` and `Tick`.

- `TypeCorrect`, at every isolation level.
- `PaidOnce`, `PaidMeansSubscribed` and `ClosedOrdersStay`, if two webhooks of
  one order are kept apart (`Protected`: `serial`, effective row locks, or all
  workers in one process, where `LockOrder` does it). The invariant
  `OrderInv` adds what an open transaction may still rely on: its order is pending
  and no other transaction is about to write it.
- `LimitHolds` and `UpgradeStays`, for `serial`: the purchase limit and the group
  of an active upgrade, though any number of transactions are open at once.
  `SerialInv` adds that what every open transaction has read is still so, because
  a commit ends the others (`AfterCommitTxs`).
- `GroupComesBack`, for `serial`: `GroupRestoredWithoutOverlap`. As
  long as upgrades have not overlapped, `LentInv` says that the group every
  upgrade remembers is the one the user started with, that at most one upgrade is
  live, and that the user is in its group, or back already once it is due; the
  expired ones ended before it began.

`SubscriptionQuotaProofs`:

- `QuotaTypeCorrect`, however transactions interleave: the amount used and what a
  request has reserved do not fall below zero. The next reset time is the least
  of a set of computed times, which exists because a non-empty set of naturals
  has a least member (well-foundedness).
- `NothingForFree`: `UsedCoversCharges`, which is about databases whose
  transactions do not interleave. `CoverInv` says that there an open transaction
  is the only one, and that the rows in it cover the charges it will record.

`TaskLifecycleProofs`:

- `TasksTypeCorrect`, for every kind of task. `WorkInv` adds that a loop that
  works on a task has one.
- `TasksBilledOnce` and `TasksFailedRefunded`, if every status is written by
  `UpdateWithStatus` (`VideoOnly`: no Suno task, no real-time fetch, no vanishing
  channel). `CopyInv` says that every copy in a list was unfinished, so that an
  update that wins takes the row from unfinished to ended, which happens once;
  `BillInv` that a loop about to bill is the only one for its task, which has
  ended and has not been billed; `PaidInv` that until then the user has paid what
  the row says. Four lemmas (`GoesOn`, `Wins`, `Bills`, `RelayTaskBilling`) carry
  them over the kinds of steps.

`TopUpOrdersProofs`:

- `TopUpTypeCorrect` and `LockOrderExcludes`, for any number of processes.
  `LockInv` relates table, counts and holders: a mutex in the table is counted by
  exactly the handlers of that process that stand between LockOrder and the end
  of UnlockOrder with its order, and a handler's mutex is the one in the table.
  This is why counting down after the unlock is harmless: the handler that does
  it is still counted.
- `TopUpCreditedOnce` and `TopUpStatusTells`, if there is one process. `JobInv`
  says that a handler works on an order of its provider, `CreditInv` that an order which
  may still be credited is pending and has not been.

`CanvasHistoryProofs`: `CanvasTypeCorrect`; and `CanvasAccountsApart`, with
overlapping handlers in any number of tabs. `ApartInv` adds that, as long as no
account was changed under open tabs or running handlers, each of them is of the
session's account and carries its images only.

Two more are about one tab whose user waits for the handlers that replace the
list (`OneTab`), with any accounts, generations, visits and changes of account.
`TurnInv` says what waiting comes to: of the restore, the generations and the
deletions at most one is under way, also after the canvas or the page was left,
and it sets the state of the canvas it was started from or of none.

- `CanvasNothingLost`, with at most one fault. `KeepInv` says that localStorage
  has every image that must be kept, that IndexedDB has it too until a fault, and
  that the list on the page, or the one a generation started from, holds them
  all: both stores are overwritten with that list. A restore that could not ask
  the server has spent the fault, so that IndexedDB, which it shows instead, is
  complete.
- `CanvasShowsServer`, until a fault, a mixing of accounts or a crossing:
  `ViewMatchesServer`. `PostsMirror` says that while the save of a page that
  is gone is under way no Clear has been pressed since, and that what IndexedDB
  has beyond the server comes with it. `MirrorInv` says that the stores have nothing the server
  lacks, up to images of the time before and up to an IndexedDB entry whose
  deletion a page load cut off, whose images the next restore sends to the
  server again; that the list of a restored canvas is the server's with the image
  that is being saved; and what each position of a restore, a generation and a
  deletion may rely on.

`PlaygroundProofs`, for any number of requests and careful users:
`PlaygroundTypeCorrect`, `AnswersStayApart` and `SpinnerCanBeStopped`. `ChatInv`
says that only the last message is ever unfinished, in the state, the render and
the storage, that it belongs to the one stream that can deliver (the ref), that a
stream closed by an error finds its own failed message when the rest of its batch
arrives, and that a page rendered as idle is up to date. `FailuresStay`, the
action property `FailedStaysFailed`, needs that a message is found again in the
next state: `KeyInv` says that keys are distinct and none is that of a request
not yet sent, and `Follows` that every message after a step is one of before,
still failed if it was, or of a request sent in the step.

The conditions are sharp: without `Protected`, `serial`, `locked`, `VideoOnly`,
one process, `~mixed`, `~crossed`, `~Overlapping`, the bound on faults or `Careful`
the instances of the table above violate the same properties.

Only model-checked: liveness (`RequestsEnd`, `RefundDelivered`,
`MaintenanceEnds`, `DueIsReset`, `ExpiresForGood`, `TasksEnd`, `HandlersReturn`,
`AnswerEnds`), which is beyond this prover.

## Not modelled

Signatures and amounts of payment webhooks; redemption codes (one transaction of
the shape of `Recharge`, without LockOrder: two users can redeem one code at
once); the whole-row saves of `inviteUser` and `TransferAffQuotaToQuota`; quota
caches and batch updater, which are off by default and whose copies are
eventually consistent without a promised bound; channel selection, rate limiters
and the stream scanner, whose promises are statistical or depend on real time;
prices and ratios (floating point); formats of requests and answers; logs and
statistics; the nested transaction of `RefundSubscriptionPreConsume` blocking
itself on a database with one connection; deletion of users or tokens in the
middle of a request; the batch limits of 100 and 1000 of the task queries.

Of the web front end (some 327 000 lines of TypeScript in `web/classic/src` and
`web/default/src`, many files in both) only the canvas and the playground are
modelled. The rest is forms, tables, dialogs, charts and translations over single
requests: its state does not outlive a request and there is no behaviour over
several steps to check. Of the playground, the mode without streaming, several
tabs, leaving the page without a reload and the parsing of `<think>` tags are left
out; of the canvas, image bytes and their cache, settings, prompts and the limits
of the lists. A canvas that is entered again after the completion event was
missed keeps its progress state until the next event or reload; no property is
about it.
