---------------------------- MODULE TopUpOrders -----------------------------
(***************************************************************************)
(* Top-up orders: the request that creates an order, the handlers that the *)
(* payment providers and the administrators call to complete, expire or    *)
(* fail it, any number of them at once and any number of times, and        *)
(* LockOrder, the reference counted mutex of each node that keeps those of *)
(* one order apart.                                                        *)
(*                                                                         *)
(* The `FOR UPDATE' of the transactions is an option that the version of   *)
(* gorm in go.mod ignores: what a transaction reads may have changed when  *)
(* it commits.  Creem's orders are handled like Stripe's, without expiry,  *)
(* and Waffo Pancake's like Waffo's, without a failure notice.  Stripe's   *)
(* and Creem's handlers look for a subscription order first: that is the   *)
(* other kind of order, with trade numbers of its own (SubscriptionOrders).*)
(***************************************************************************)
EXTENDS Naturals, FiniteSets

CONSTANTS
    Handler,   \* the goroutines that run handlers
    Node,      \* the processes of the service
    NodeOf,    \* the process of each handler
    Order,     \* orders
    Mutex,     \* the refCountedMutex objects that can be allocated
    None,      \* no order, no mutex
    MaxFaults  \* bound on failed statements and crashes that matter

ASSUME HandlerAssumption == IsFiniteSet(Handler) /\ NodeOf \in [Handler -> Node]

ASSUME NoneAssumption == None \notin Order /\ None \notin Mutex

ASSUME MaxFaultsAssumption == MaxFaults \in Nat

Provider == {"epay", "stripe", "waffo"}

(* "none" is an order that is not in the table yet.                        *)
Status == {"none", "pending", "success", "expired", "failed"}

(* What is called: Recharge and its kin or ManualCompleteTopUp, EpayNotify,*)
(* sessionExpired or sessionAsyncPaymentFailed, handleWaffoPayment for a   *)
(* payment that failed, and the request of the user who wants to pay.      *)
Job == {"recharge", "epay", "expire", "fail", "request"}

(* The two that do not call LockOrder.                                     *)
Unlocked == {"fail", "request"}

VARIABLES
    provider,  \* PaymentProvider of each order
    status,    \* Status of each order
    credits,   \* how often the user was given the quota of the order
    handler,   \* the handlers
    table,     \* orderLocks of each node
    count,     \* refCount of each mutex
    held,      \* the mutexes that are locked
    faults

vars == <<provider, status, credits, handler, table, count, held, faults>>

HandlerType ==
    [pc : {"idle", "lock", "wait", "read", "write", "credit",
           "unlock", "release", "drop", "called"},
     job : Job, order : Order \cup {None}, mutex : Mutex \cup {None}]

Idle == [pc |-> "idle", job |-> "recharge", order |-> None, mutex |-> None]

(* The row of orderLocks that h uses.                                      *)
Row(h) == <<NodeOf[h], handler[h].order>>

Locks(h) == handler[h].job \notin Unlocked

Init ==
    /\ provider \in [Order -> Provider]
    /\ status = [o \in Order |-> "none"]
    /\ credits = [o \in Order |-> 0]
    /\ handler = [h \in Handler |-> Idle]
    /\ table = [k \in Node \X Order |-> None]
    /\ count = [x \in Mutex |-> 0]
    /\ held = {}
    /\ faults = 0

Goto(h, pc) == handler' = [handler EXCEPT ![h].pc = pc]

(* The deferred UnlockOrder of the handlers that have locked.              *)
Return(h) ==
    IF Locks(h) THEN Goto(h, "unlock") ELSE handler' = [handler EXCEPT ![h] = Idle]

-----------------------------------------------------------------------------
(* A provider's notice or an administrator's request comes in.             *)
Suits(job, o) ==
    \/ job = "recharge"
    \/ job = "epay" /\ provider[o] = "epay"
    \/ job = "expire" /\ provider[o] = "stripe"
    \/ job = "fail" /\ provider[o] = "waffo"

Begin(h, pc, job, o) ==
    /\ handler[h].pc = "idle"
    /\ handler' = [handler EXCEPT ![h] =
            [pc |-> pc, job |-> job, order |-> o, mutex |-> None]]

(* handleWaffoPayment does not lock the order of a payment that failed.    *)
Start(h, job, o) ==
    /\ Suits(job, o)
    /\ Begin(h, IF job = "fail" THEN "read" ELSE "lock", job, o)
    /\ UNCHANGED <<provider, status, credits, table, count, held, faults>>

(* A user asks to pay and the order is inserted.  RequestWaffoPay and      *)
(* RequestWaffoPancakePay call the provider after that, ...                *)
RequestPay(h, o) ==
    /\ status[o] = "none"
    /\ status' = [status EXCEPT ![o] = "pending"]
    /\ \/ provider[o] # "waffo" /\ handler[h].pc = "idle" /\ UNCHANGED handler
       \/ provider[o] = "waffo" /\ Begin(h, "called", "request", o)
    /\ UNCHANGED <<provider, credits, table, count, held, faults>>

(* LockOrder under createLock: a new mutex is one that nothing refers to.  *)
Unused(x) ==
    /\ \A k \in DOMAIN table : table[k] # x
    /\ \A h \in Handler : handler[h].mutex # x

(* Mutant: a handler that finds a mutex does not count itself.             *)
LockUncounted(h) ==
    /\ handler[h].pc = "lock"
    /\ \/ /\ table[Row(h)] # None
          /\ handler' = [handler EXCEPT ![h].pc = "wait", ![h].mutex = table[Row(h)]]
          /\ UNCHANGED <<table, held, count>>
       \/ /\ table[Row(h)] = None
          /\ \E x \in Mutex :
               /\ Unused(x)
               /\ handler' = [handler EXCEPT ![h].pc = "wait", ![h].mutex = x]
               /\ table' = [table EXCEPT ![Row(h)] = x]
               /\ count' = [count EXCEPT ![x] = 1]
               /\ held' = held \ {x}
    /\ UNCHANGED <<provider, status, credits, faults>>

LockOrder(h) ==
    /\ handler[h].pc = "lock"
    /\ \/ /\ table[Row(h)] # None
          /\ handler' = [handler EXCEPT ![h].pc = "wait", ![h].mutex = table[Row(h)]]
          /\ count' = [count EXCEPT ![table[Row(h)]] = @ + 1]
          /\ UNCHANGED <<table, held>>
       \/ /\ table[Row(h)] = None
          /\ \E x \in Mutex :
               /\ Unused(x)
               /\ handler' = [handler EXCEPT ![h].pc = "wait", ![h].mutex = x]
               /\ table' = [table EXCEPT ![Row(h)] = x]
               /\ count' = [count EXCEPT ![x] = 1]
               /\ held' = held \ {x}
    /\ UNCHANGED <<provider, status, credits, faults>>

(* rcm.mu.Lock()                                                           *)
Acquire(h) ==
    /\ handler[h].pc = "wait"
    /\ handler[h].mutex \notin held
    /\ held' = held \cup {handler[h].mutex}
    /\ Goto(h, "read")
    /\ UNCHANGED <<provider, status, credits, table, count, faults>>

(* The order is read.  One that is not pending, like an error of the       *)
(* database, ends the handler.                                             *)
ReadOrder(h) ==
    /\ handler[h].pc = "read"
    /\ \/ status[handler[h].order] = "pending" /\ Goto(h, "write")
       \/ Return(h)
    /\ UNCHANGED <<provider, status, credits, table, count, held, faults>>

SetStatus(h, st) == status' = [status EXCEPT ![handler[h].order] = st]

(* ... and save the row they inserted as failed when that call fails,      *)
(* whatever has become of the order meanwhile.                             *)
RequestReturns(h) ==
    /\ handler[h].pc = "called"
    /\ SetStatus(h, "failed") \/ UNCHANGED status
    /\ Return(h)
    /\ UNCHANGED <<provider, credits, table, count, held, faults>>

(* Recharge, RechargeCreem, RechargeWaffo, RechargeWaffoPancake and        *)
(* ManualCompleteTopUp: status and quota in one transaction.               *)
Recharge(h) ==
    /\ handler[h].pc = "write"
    /\ handler[h].job = "recharge"
    /\ SetStatus(h, "success")
    /\ credits' = [credits EXCEPT ![handler[h].order] = @ + 1]
    /\ Return(h)
    /\ UNCHANGED <<provider, table, count, held, faults>>

(* Mutant: EpayNotify goes on when the status could not be saved.          *)
EpayIgnoresError(h) ==
    /\ handler[h].pc = "write"
    /\ handler[h].job = "epay"
    /\ SetStatus(h, "success") \/ UNCHANGED status
    /\ Goto(h, "credit")
    /\ UNCHANGED <<provider, credits, table, count, held, faults>>

(* EpayNotify saves the status, and adds the quota in a second statement.  *)
EpayNotify(h) ==
    /\ handler[h].pc = "write"
    /\ handler[h].job = "epay"
    /\ SetStatus(h, "success")
    /\ Goto(h, "credit")
    /\ UNCHANGED <<provider, credits, table, count, held, faults>>

IncreaseUserQuota(h) ==
    /\ handler[h].pc = "credit"
    /\ \/ /\ credits' = [credits EXCEPT ![handler[h].order] = @ + 1]
          /\ UNCHANGED faults
       \/ /\ faults < MaxFaults
          /\ faults' = faults + 1
          /\ UNCHANGED credits
    /\ Return(h)
    /\ UNCHANGED <<provider, status, table, count, held>>

(* UpdatePendingTopUpStatus, and sessionAsyncPaymentFailed.                *)
UpdatePendingTopUpStatus(h) ==
    /\ handler[h].pc = "write"
    /\ \/ handler[h].job = "expire" /\ \E st \in {"expired", "failed"} : SetStatus(h, st)
       \/ handler[h].job = "fail" /\ SetStatus(h, "failed")
    /\ Return(h)
    /\ UNCHANGED <<provider, credits, table, count, held, faults>>

(* Mutant: the error path tries again, as its message tells the caller to. *)
FailsRetrying(h) ==
    /\ handler[h].pc = "write"
    /\ Goto(h, "read")
    /\ UNCHANGED <<provider, status, credits, table, count, held, faults>>

(* The write fails, and the transaction is rolled back.                    *)
WriteFails(h) ==
    /\ handler[h].pc = "write"
    /\ Return(h)
    /\ UNCHANGED <<provider, status, credits, table, count, held, faults>>

(* UnlockOrder: the mutex is looked up again, without createLock ...       *)
UnlockOrder(h) ==
    /\ handler[h].pc = "unlock"
    /\ handler' = IF table[Row(h)] = None THEN [handler EXCEPT ![h] = Idle]
                  ELSE [handler EXCEPT ![h].pc = "release", ![h].mutex = table[Row(h)]]
    /\ UNCHANGED <<provider, status, credits, table, count, held, faults>>

(* ... rcm.mu.Unlock() ...                                                 *)
Release(h) ==
    /\ handler[h].pc = "release"
    /\ held' = held \ {handler[h].mutex}
    /\ Goto(h, "drop")
    /\ UNCHANGED <<provider, status, credits, table, count, faults>>

(* Mutant: the first user to unlock deletes the row.                       *)
DropAlways(h) ==
    /\ handler[h].pc = "drop"
    /\ count' = [count EXCEPT ![handler[h].mutex] = @ - 1]
    /\ table' = [table EXCEPT ![Row(h)] = None]
    /\ handler' = [handler EXCEPT ![h] = Idle]
    /\ UNCHANGED <<provider, status, credits, held, faults>>

(* ... and under createLock the last user deletes the row.                 *)
Drop(h) ==
    /\ handler[h].pc = "drop"
    /\ count' = [count EXCEPT ![handler[h].mutex] = @ - 1]
    /\ table' = IF count[handler[h].mutex] = 1 THEN [table EXCEPT ![Row(h)] = None]
                ELSE table
    /\ handler' = [handler EXCEPT ![h] = Idle]
    /\ UNCHANGED <<provider, status, credits, held, faults>>

(* A process stops and is started again: its handlers and its mutexes are  *)
(* gone, its open transactions rolled back.                                *)
Crash(n) ==
    /\ faults < MaxFaults
    /\ faults' = faults + 1
    /\ handler' = [h \in Handler |-> IF NodeOf[h] = n THEN Idle ELSE handler[h]]
    /\ table' = [k \in Node \X Order |-> IF k[1] = n THEN None ELSE table[k]]
    /\ LET gone == {table[<<n, o>>] : o \in Order} IN
         /\ count' = [x \in Mutex |-> IF x \in gone THEN 0 ELSE count[x]]
         /\ held' = held \ gone
    /\ UNCHANGED <<provider, status, credits>>

Step(h) ==
    \/ RequestReturns(h)
    \/ LockOrder(h)
    \/ ReadOrder(h)
    \/ Recharge(h)
    \/ EpayNotify(h)
    \/ IncreaseUserQuota(h)
    \/ UpdatePendingTopUpStatus(h)
    \/ WriteFails(h)
    \/ UnlockOrder(h)
    \/ Release(h)
    \/ Drop(h)

Next ==
    \/ \E h \in Handler :
        \/ \E job \in Job, o \in Order : Start(h, job, o)
        \/ \E o \in Order : RequestPay(h, o)
        \/ Acquire(h)
        \/ Step(h)
    \/ \E n \in Node : Crash(n)

Spec == Init /\ [][Next]_vars

(* A goroutine runs on, and a mutex of Go is not withheld for ever from    *)
(* one that waits for it (its starvation mode).                            *)
FairSpec ==
    /\ Spec
    /\ \A h \in Handler : WF_vars(Step(h)) /\ SF_vars(Acquire(h))

-----------------------------------------------------------------------------
(* The types of the orders, the handlers and the locks.                    *)
TypeOK ==
    /\ provider \in [Order -> Provider]
    /\ status \in [Order -> Status]
    /\ credits \in [Order -> Nat]
    /\ handler \in [Handler -> HandlerType]
    /\ table \in [Node \X Order -> Mutex \cup {None}]
    /\ count \in [Mutex -> Nat]
    /\ held \in SUBSET Mutex
    /\ faults \in Nat

(* An order is credited at most once, however often and by how many        *)
(* handlers at once it is completed, expired or failed, although the rows  *)
(* are not locked: LockOrder and the status see to it.                     *)
CreditedOnce == \A o \in Order : credits[o] <= 1

(* The status of an order tells whether it was credited.  The exceptions   *)
(* are EpayNotify between its two statements, or stopped between them, and *)
(* Waffo's failure notice and request to pay, which do not lock.           *)
StatusMatchesCredit ==
    \A o \in Order :
        /\ status[o] = "success" =>
             \/ credits[o] = 1
             \/ /\ provider[o] = "epay"
                /\ \/ \E h \in Handler : handler[h].pc = "credit" /\ handler[h].order = o
                   \/ faults > 0
        /\ credits[o] > 0 => status[o] = "success" \/ provider[o] = "waffo"

(* Every handler returns: nobody waits for ever in LockOrder.              *)
HandlersReturn ==
    \A h \in Handler : handler[h].pc # "idle" ~> handler[h].pc = "idle"

-----------------------------------------------------------------------------
(* The inductive invariant behind these.  A locked handler stands between  *)
(* LockOrder and the end of UnlockOrder; a critical one holds the mutex.   *)
Stands(h) ==
    /\ Locks(h)
    /\ handler[h].pc \in {"wait", "read", "write", "credit", "unlock", "release", "drop"}

Holds(h) ==
    /\ Locks(h)
    /\ handler[h].pc \in {"read", "write", "credit", "unlock", "release"}

Users(k) == {h \in Handler : Stands(h) /\ Row(h) = k}

(* Every handler that stands refers to the mutex in its row of orderLocks, *)
(* which no other row has and which counts exactly these handlers; at most *)
(* one of them holds it.                                                   *)
LockInv ==
    /\ \A h \in Handler : Stands(h) => /\ handler[h].mutex \in Mutex
                                       /\ table[Row(h)] = handler[h].mutex
    /\ \A h \in Handler : Holds(h) => handler[h].mutex \in held
    /\ \A g, h \in Handler :
         Holds(g) /\ Holds(h) /\ handler[g].mutex = handler[h].mutex => g = h
    /\ \A k, l \in Node \X Order : table[k] # None /\ table[k] = table[l] => k = l
    /\ \A k \in Node \X Order :
         table[k] # None => count[table[k]] = Cardinality(Users(k))

(* A handler works on an order of the provider it is for.                  *)
JobInv ==
    \A h \in Handler :
        /\ handler[h].pc # "idle" =>
             /\ handler[h].order \in Order
             /\ \/ Suits(handler[h].job, handler[h].order)
                \/ handler[h].job = "request" /\ provider[handler[h].order] = "waffo"
        /\ handler[h].pc = "called" => handler[h].job = "request"
        /\ handler[h].job \in Unlocked => handler[h].pc \in {"read", "write", "called"}

(* An order that can still be credited has not been.                       *)
CreditInv ==
    /\ \A o \in Order : status[o] \in {"none", "pending"} => credits[o] = 0
    /\ \A h \in Handler :
         /\ Locks(h) /\ handler[h].pc \in {"write", "credit"} =>
              credits[handler[h].order] = 0
         /\ handler[h].pc = "credit" =>
              handler[h].job = "epay" /\ status[handler[h].order] = "success"

=============================================================================
