------------------------- MODULE TopUpOrdersProofs --------------------------
(***************************************************************************)
(* For any number of handlers, nodes, orders and mutexes: LockOrder keeps  *)
(* the handlers of one order on one node apart, and, when all handlers run *)
(* on one node, an order is credited once and its status says so.          *)
(***************************************************************************)
EXTENDS TopUpOrders, FiniteSetTheorems, TLAPS

Pc == {"idle", "lock", "wait", "read", "write", "credit",
       "unlock", "release", "drop", "called"}

(* What a step of h makes of the handlers.                                 *)
Changed(h, pc, job, order, mutex) ==
    /\ handler' \in [Handler -> HandlerType]
    /\ \A g \in Handler : g # h => handler'[g] = handler[g]
    /\ handler'[h].pc = pc
    /\ handler'[h].job = job
    /\ handler'[h].order = order
    /\ handler'[h].mutex = mutex

Keeps(h, pc) == Changed(h, pc, handler[h].job, handler[h].order, handler[h].mutex)

(* Goto moves the program counter of one handler (the next statement of    *)
(* the Go function).                                                       *)
LEMMA GotoKeeps ==
    ASSUME TypeOK, NEW h \in Handler, NEW pc \in Pc, Goto(h, pc)
    PROVE  Keeps(h, pc)
BY DEF TypeOK, Goto, Keeps, Changed, HandlerType, Pc

(* A handler that returns without a lock is idle (the goroutine is gone).  *)
LEMMA IdleChanges ==
    ASSUME TypeOK, NEW h \in Handler, handler' = [handler EXCEPT ![h] = Idle]
    PROVE  Changed(h, "idle", "recharge", None, None)
<1>1. Idle \in HandlerType
  BY NoneAssumption DEF Idle, HandlerType, Job
<1>2. handler' \in [Handler -> HandlerType]
  BY <1>1 DEF TypeOK
<1> QED
  BY <1>2 DEF TypeOK, Changed, Idle

(* Return runs the deferred UnlockOrder of those that have locked.         *)
LEMMA ReturnChanges ==
    ASSUME TypeOK, NEW h \in Handler, Return(h)
    PROVE  \/ Locks(h) /\ Keeps(h, "unlock")
           \/ ~Locks(h) /\ Changed(h, "idle", "recharge", None, None)
<1>1. CASE Locks(h)
  BY <1>1, GotoKeeps DEF Return, Pc
<1>2. CASE ~Locks(h)
  BY <1>2, IdleChanges DEF Return
<1> QED
  BY <1>1, <1>2

(* Begin starts a handler for an order.                                    *)
LEMMA BeginChanges ==
    ASSUME TypeOK, NEW h \in Handler, NEW pc \in Pc, NEW job \in Job,
           NEW o \in Order, Begin(h, pc, job, o)
    PROVE  handler[h].pc = "idle" /\ Changed(h, pc, job, o, None)
<1> DEFINE r == [pc |-> pc, job |-> job, order |-> o, mutex |-> None]
<1>1. r \in HandlerType
  BY DEF HandlerType, Pc
<1>2. handler' = [handler EXCEPT ![h] = r] /\ handler[h].pc = "idle"
  BY DEF Begin
<1>3. r.pc = pc /\ r.job = job /\ r.order = o /\ r.mutex = None
  OBVIOUS
<1> HIDE DEF r
<1>4. handler' \in [Handler -> HandlerType] /\ handler'[h] = r
  BY <1>1, <1>2 DEF TypeOK
<1> QED
  BY <1>2, <1>3, <1>4 DEF TypeOK, Changed

(* A handler that is not idle has a row of orderLocks.                     *)
LEMMA RowType ==
    ASSUME NEW h \in Handler, handler[h].order \in Order
    PROVE  Row(h) \in Node \X Order
BY HandlerAssumption DEF Row

LEMMA UsersFinite ==
    ASSUME NEW k
    PROVE  IsFiniteSet(Users(k)) /\ Cardinality(Users(k)) \in Nat
<1>1. Users(k) \in SUBSET Handler
  BY DEF Users
<1>2. IsFiniteSet(Users(k))
  BY <1>1, HandlerAssumption, FS_Subset
<1> QED
  BY <1>2, FS_CardinalityType

-----------------------------------------------------------------------------
(* A step of a handler that holds its mutex before and after it, and of    *)
(* one that stands in no row before or after it, leaves the locks alone.   *)
LEMMA StayKeepsLocks ==
    ASSUME TypeOK, LockInv, NEW h \in Handler,
           UNCHANGED <<table, count, held>>,
           \A g \in Handler : g # h => handler'[g] = handler[g],
           \/ /\ Holds(h) /\ Holds(h)'
              /\ handler'[h].order = handler[h].order
              /\ handler'[h].mutex = handler[h].mutex
           \/ ~Stands(h) /\ ~Stands(h)'
    PROVE  LockInv'
<1>1. \A g \in Handler : /\ Stands(g)' <=> Stands(g)
                         /\ Holds(g)' <=> Holds(g)
                         /\ Stands(g) => /\ Row(g)' = Row(g)
                                         /\ handler'[g].mutex = handler[g].mutex
  BY DEF Stands, Holds, Locks, Row
<1>2. \A k : Users(k)' = Users(k)
  BY <1>1 DEF Users
<1>3. \A g \in Handler : Holds(g) => Stands(g)
  BY DEF Holds, Stands
<1> QED
  BY <1>1, <1>2, <1>3 DEF LockInv

(* LockOrder, under createLock: the handler is counted in its row.         *)
LEMMA LockOrderKeepsLocks ==
    ASSUME TypeOK, LockInv, JobInv, NEW h \in Handler, LockOrder(h)
    PROVE  LockInv' /\ count' \in [Mutex -> Nat] /\ handler' \in [Handler -> HandlerType]
           /\ table' \in [Node \X Order -> Mutex \cup {None}] /\ held' \in SUBSET Mutex
           /\ (\E x \in Mutex : Changed(h, "wait", handler[h].job, handler[h].order, x))
<1>0. PICK k : k = Row(h)
  OBVIOUS
<1>1. handler[h].order \in Order /\ Locks(h) /\ ~Stands(h) /\ handler[h].pc = "lock"
  BY DEF LockOrder, JobInv, Locks, Stands
<1>2. k \in Node \X Order
  BY <1>0, <1>1, RowType
<1>3. PICK x \in Mutex :
        /\ handler' = [handler EXCEPT ![h].pc = "wait", ![h].mutex = x]
        /\ \/ /\ table[k] = x
              /\ count' = [count EXCEPT ![x] = @ + 1]
              /\ UNCHANGED <<table, held>>
           \/ /\ table[k] = None
              /\ Unused(x)
              /\ table' = [table EXCEPT ![k] = x]
              /\ count' = [count EXCEPT ![x] = 1]
              /\ held' = held \ {x}
  BY <1>0, <1>2 DEF LockOrder, TypeOK
<1>4. Changed(h, "wait", handler[h].job, handler[h].order, x)
  BY <1>3 DEF TypeOK, Changed, HandlerType
<1>5. /\ Stands(h)' /\ ~Holds(h)' /\ ~Holds(h) /\ Row(h)' = k
      /\ \A g \in Handler : g # h =>
           /\ Stands(g)' <=> Stands(g)
           /\ Holds(g)' <=> Holds(g)
           /\ Row(g)' = Row(g) /\ handler'[g].mutex = handler[g].mutex
  BY <1>0, <1>1, <1>4 DEF Changed, Stands, Holds, Locks, Row
<1>6. /\ Users(k)' = Users(k) \cup {h} /\ h \notin Users(k)
      /\ \A l : l # k => Users(l)' = Users(l)
  BY <1>1, <1>5 DEF Users
<1>7. Cardinality(Users(k)') = Cardinality(Users(k)) + 1 /\ Cardinality(Users(k)) \in Nat
  BY <1>6, UsersFinite, FS_AddElement
<1>8. \A g \in Handler : Holds(g) => Stands(g)
  BY DEF Holds, Stands
<1>9. count' \in [Mutex -> Nat] /\ held' \in SUBSET Mutex
      /\ table' \in [Node \X Order -> Mutex \cup {None}]
  <2>1. count' \in [Mutex -> Nat]
    BY <1>3 DEF TypeOK
  <2>2. held' \in SUBSET Mutex
    BY <1>3 DEF TypeOK
  <2>3. table' \in [Node \X Order -> Mutex \cup {None}]
    BY <1>2, <1>3 DEF TypeOK
  <2> QED
    BY <2>1, <2>2, <2>3
<1>10. CASE table[k] = x
  <2>1. /\ UNCHANGED <<table, held>> /\ x # None
        /\ count'[x] = count[x] + 1
        /\ \A y \in Mutex : y # x => count'[y] = count[y]
    BY <1>3, <1>10, NoneAssumption DEF TypeOK
  <2>2. \A l \in Node \X Order : l # k /\ table[l] # None =>
           table[l] # x /\ table[l] \in Mutex
    BY <1>2, <1>10 DEF LockInv, TypeOK
  <2>3. \A l \in Node \X Order : table'[l] # None =>
           count'[table'[l]] = Cardinality(Users(l)')
    <3>1. SUFFICES ASSUME NEW l \in Node \X Order, table[l] # None
                   PROVE  count'[table[l]] = Cardinality(Users(l)')
      BY <2>1
    <3>2. CASE l = k
      <4>1. count[x] = Cardinality(Users(k))
        BY <1>2, <1>10, <2>1 DEF LockInv
      <4> QED
        BY <1>7, <1>10, <2>1, <3>2, <4>1
    <3>3. CASE l # k
      BY <1>6, <2>1, <2>2, <3>1, <3>3 DEF LockInv
    <3> QED
      BY <3>2, <3>3
  <2>4. \A g \in Handler : Stands(g)' => /\ handler'[g].mutex \in Mutex
                                         /\ table'[Row(g)'] = handler'[g].mutex
    BY <1>4, <1>5, <1>10, <2>1 DEF LockInv, Changed
  <2>5. \A g \in Handler : Holds(g)' => g # h
    BY <1>5
  <2> QED
    BY <1>4, <1>5, <1>9, <2>1, <2>3, <2>4, <2>5 DEF LockInv, Changed
<1>11. CASE table[k] # x
  <2>1. /\ table[k] = None /\ Unused(x)
        /\ table'[k] = x /\ x # None
        /\ \A l \in Node \X Order : l # k => table'[l] = table[l]
        /\ count'[x] = 1
        /\ \A y \in Mutex : y # x => count'[y] = count[y]
        /\ held' = held \ {x}
    BY <1>2, <1>3, <1>11, NoneAssumption DEF TypeOK
  <2>2. /\ \A l \in Node \X Order : table[l] # x
        /\ \A g \in Handler : handler[g].mutex # x
    BY <2>1 DEF Unused, TypeOK
  <2>3. Users(k) = {}
    <3>1. SUFFICES ASSUME NEW g \in Users(k) PROVE FALSE
      OBVIOUS
    <3>2. g \in Handler /\ table[Row(g)] = handler[g].mutex /\ handler[g].mutex \in Mutex
          /\ Row(g) = k
      BY DEF LockInv, Users
    <3> QED
      BY <2>1, <3>2, NoneAssumption
  <2>4. Cardinality(Users(k)') = 1
    BY <1>7, <2>3, FS_EmptySet
  <2>5. \A l \in Node \X Order : table'[l] # None =>
           count'[table'[l]] = Cardinality(Users(l)')
    <3>1. SUFFICES ASSUME NEW l \in Node \X Order, table'[l] # None
                   PROVE  count'[table'[l]] = Cardinality(Users(l)')
      OBVIOUS
    <3>2. CASE l = k
      BY <2>1, <2>4, <3>2
    <3>3. CASE l # k
      <4>1. table'[l] = table[l] /\ table[l] \in Mutex /\ table[l] # x
        BY <2>1, <2>2, <3>1, <3>3 DEF TypeOK
      <4> QED
        BY <1>6, <2>1, <3>1, <3>3, <4>1 DEF LockInv
    <3> QED
      BY <3>2, <3>3
  <2>6. \A g \in Handler : Stands(g)' => /\ handler'[g].mutex \in Mutex
                                         /\ table'[Row(g)'] = handler'[g].mutex
    <3>1. SUFFICES ASSUME NEW g \in Handler, Stands(g)'
                   PROVE  handler'[g].mutex \in Mutex /\ table'[Row(g)'] = handler'[g].mutex
      OBVIOUS
    <3>2. CASE g = h
      BY <1>4, <1>5, <2>1, <3>2 DEF Changed
    <3>3. CASE g # h
      <4>1. /\ Stands(g) /\ Row(g)' = Row(g) /\ handler'[g].mutex = handler[g].mutex
            /\ handler[g].mutex \in Mutex /\ table[Row(g)] = handler[g].mutex
        BY <1>5, <3>1, <3>3 DEF LockInv
      <4>2. Row(g) # k
        BY <2>1, <4>1, NoneAssumption
      <4>3. handler[g].order \in Order
        BY <4>1 DEF Stands, JobInv
      <4>4. Row(g) \in Node \X Order
        BY <4>3, RowType
      <4> QED
        BY <2>1, <4>1, <4>2, <4>4
    <3> QED
      BY <3>2, <3>3
  <2>7. \A g \in Handler : Holds(g)' => handler'[g].mutex \in held'
    BY <1>5, <2>1, <2>2 DEF LockInv
  <2>8. \A l, n \in Node \X Order : table'[l] # None /\ table'[l] = table'[n] => l = n
    BY <2>1, <2>2 DEF LockInv
  <2>9. \A f, g \in Handler :
           Holds(f)' /\ Holds(g)' /\ handler'[f].mutex = handler'[g].mutex => f = g
    BY <1>5 DEF LockInv
  <2>10. LockInv'
    BY <2>5, <2>6, <2>7, <2>8, <2>9 DEF LockInv
  <2> QED
    BY <1>4, <1>9, <2>10 DEF Changed
<1> QED
  BY <1>10, <1>11

(* rcm.mu.Lock() gives the mutex to a handler of its row that waits.       *)
LEMMA AcquireKeepsLocks ==
    ASSUME TypeOK, LockInv, JobInv, NEW h \in Handler, Acquire(h)
    PROVE  LockInv' /\ held' \in SUBSET Mutex
<1>1. /\ Keeps(h, "read") /\ handler[h].pc = "wait" /\ UNCHANGED <<table, count>>
      /\ handler[h].mutex \notin held /\ held' = held \cup {handler[h].mutex}
  BY GotoKeeps DEF Acquire, Pc
<1>2. Locks(h) /\ Stands(h) /\ handler[h].mutex \in Mutex
  BY <1>1 DEF JobInv, Locks, Stands, LockInv
<1>3. /\ \A g \in Handler : /\ Stands(g)' <=> Stands(g)
                            /\ Row(g)' = Row(g) /\ handler'[g].mutex = handler[g].mutex
      /\ \A g \in Handler : g # h => (Holds(g)' <=> Holds(g))
  BY <1>1, <1>2 DEF Keeps, Changed, Stands, Holds, Locks, Row
<1>4. \A k : Users(k)' = Users(k)
  BY <1>3 DEF Users
<1>5. \A g \in Handler : Holds(g) => handler[g].mutex # handler[h].mutex
  BY <1>1 DEF LockInv
<1>6. \A g \in Handler : Holds(g)' => handler'[g].mutex \in held'
  BY <1>1, <1>3 DEF LockInv
<1>7. \A f, g \in Handler :
         Holds(f)' /\ Holds(g)' /\ handler'[f].mutex = handler'[g].mutex => f = g
  BY <1>3, <1>5 DEF LockInv
<1>8. \A g \in Handler : Stands(g)' => /\ handler'[g].mutex \in Mutex
                                       /\ table'[Row(g)'] = handler'[g].mutex
  BY <1>1, <1>3 DEF LockInv
<1>9. \A k \in Node \X Order :
         table'[k] # None => count'[table'[k]] = Cardinality(Users(k)')
  BY <1>1, <1>4 DEF LockInv
<1> QED
  BY <1>1, <1>2, <1>6, <1>7, <1>8, <1>9 DEF LockInv, TypeOK

(* rcm.mu.Unlock() is called by the handler that holds the mutex.          *)
LEMMA ReleaseKeepsLocks ==
    ASSUME TypeOK, LockInv, JobInv, NEW h \in Handler, Release(h)
    PROVE  LockInv' /\ held' \in SUBSET Mutex
<1>1. /\ Keeps(h, "drop") /\ handler[h].pc = "release" /\ UNCHANGED <<table, count>>
      /\ held' = held \ {handler[h].mutex}
  BY GotoKeeps DEF Release, Pc
<1>2. Locks(h) /\ Holds(h)
  BY <1>1 DEF JobInv, Locks, Holds
<1>3. /\ \A g \in Handler : /\ Stands(g)' <=> Stands(g)
                            /\ Row(g)' = Row(g) /\ handler'[g].mutex = handler[g].mutex
      /\ \A g \in Handler : g # h => (Holds(g)' <=> Holds(g))
      /\ ~Holds(h)'
  BY <1>1, <1>2 DEF Keeps, Changed, Stands, Holds, Locks, Row
<1>4. \A k : Users(k)' = Users(k)
  BY <1>3 DEF Users
<1>5. \A g \in Handler : g # h /\ Holds(g) => handler[g].mutex # handler[h].mutex
  BY <1>2 DEF LockInv
<1>6. \A g \in Handler : Holds(g)' => handler'[g].mutex \in held'
  BY <1>1, <1>3, <1>5 DEF LockInv
<1>7. \A f, g \in Handler :
         Holds(f)' /\ Holds(g)' /\ handler'[f].mutex = handler'[g].mutex => f = g
  BY <1>3 DEF LockInv
<1>8. \A g \in Handler : Stands(g)' => /\ handler'[g].mutex \in Mutex
                                       /\ table'[Row(g)'] = handler'[g].mutex
  BY <1>1, <1>3 DEF LockInv
<1>9. \A k \in Node \X Order :
         table'[k] # None => count'[table'[k]] = Cardinality(Users(k)')
  BY <1>1, <1>4 DEF LockInv
<1> QED
  BY <1>1, <1>6, <1>7, <1>8, <1>9 DEF LockInv, TypeOK

(* The end of UnlockOrder, under createLock: the row goes with its last    *)
(* user, and refCount is never decremented below zero.                     *)
LEMMA DropKeepsLocks ==
    ASSUME TypeOK, LockInv, JobInv, NEW h \in Handler, Drop(h)
    PROVE  LockInv' /\ count' \in [Mutex -> Nat]
           /\ table' \in [Node \X Order -> Mutex \cup {None}]
<1>1. PICK k : k = Row(h)
  OBVIOUS
<1>2. PICK x : x = handler[h].mutex
  OBVIOUS
<1>3. /\ Changed(h, "idle", "recharge", None, None)
      /\ handler[h].pc = "drop" /\ UNCHANGED held
  BY IdleChanges DEF Drop
<1>4. /\ Locks(h) /\ Stands(h) /\ ~Holds(h) /\ handler[h].order \in Order
      /\ x \in Mutex /\ table[k] = x /\ k \in Node \X Order /\ x # None
  <2>1. Locks(h) /\ Stands(h) /\ ~Holds(h) /\ handler[h].order \in Order
    BY <1>3 DEF JobInv, Locks, Stands, Holds
  <2> QED
    BY <1>1, <1>2, <2>1, RowType, NoneAssumption DEF LockInv
<1>5. /\ count' = [count EXCEPT ![x] = @ - 1]
      /\ table' = IF count[x] = 1 THEN [table EXCEPT ![k] = None] ELSE table
  BY <1>1, <1>2 DEF Drop
<1>6. /\ ~Stands(h)' /\ ~Holds(h)'
      /\ \A g \in Handler : g # h =>
           /\ Stands(g)' <=> Stands(g)
           /\ Holds(g)' <=> Holds(g)
           /\ Row(g)' = Row(g) /\ handler'[g].mutex = handler[g].mutex
  BY <1>3 DEF Changed, Stands, Holds, Locks, Row
<1>7. /\ Users(k)' = Users(k) \ {h} /\ h \in Users(k)
      /\ \A l : l # k => Users(l)' = Users(l)
  BY <1>1, <1>4, <1>6 DEF Users
<1>8. /\ Cardinality(Users(k)') = Cardinality(Users(k)) - 1
      /\ count[x] = Cardinality(Users(k))
      /\ count[x] \in Nat
      /\ count[x] = 1 => Users(k)' = {}
      /\ count[x] # 0
  <2>1. /\ IsFiniteSet(Users(k)) /\ IsFiniteSet(Users(k)')
        /\ Cardinality(Users(k)') = Cardinality(Users(k)) - 1
    BY <1>7, UsersFinite, FS_RemoveElement
  <2>2. count[x] = Cardinality(Users(k)) /\ count[x] \in Nat
    BY <1>4 DEF LockInv, TypeOK
  <2>3. Cardinality(Users(k)) # 0
    BY <1>7, <2>1, FS_EmptySet
  <2>4. Cardinality(Users(k)') = 0 => Users(k)' = {}
    BY <2>1, FS_EmptySet
  <2> QED
    BY <2>1, <2>2, <2>3, <2>4
<1>9. /\ count' \in [Mutex -> Nat]
      /\ count'[x] = count[x] - 1
      /\ \A y \in Mutex : y # x => count'[y] = count[y]
  <2>1. count[x] - 1 \in Nat
    BY <1>8
  <2> QED
    BY <1>4, <1>5, <2>1 DEF TypeOK
<1>10. /\ table' \in [Node \X Order -> Mutex \cup {None}]
       /\ table'[k] = IF count[x] = 1 THEN None ELSE x
       /\ \A l \in Node \X Order : l # k => table'[l] = table[l]
  BY <1>4, <1>5 DEF TypeOK
<1>11. \A g \in Handler : Stands(g)' => /\ handler'[g].mutex \in Mutex
                                        /\ table'[Row(g)'] = handler'[g].mutex
  <2>1. SUFFICES ASSUME NEW g \in Handler, Stands(g)'
                 PROVE  handler'[g].mutex \in Mutex /\ table'[Row(g)'] = handler'[g].mutex
    OBVIOUS
  <2>2. /\ g # h /\ Stands(g) /\ Row(g)' = Row(g) /\ handler'[g].mutex = handler[g].mutex
        /\ handler[g].mutex \in Mutex /\ table[Row(g)] = handler[g].mutex
    BY <1>6, <2>1 DEF LockInv
  <2>3. Row(g) \in Node \X Order
    BY <2>2, RowType DEF Stands, JobInv
  <2>4. CASE Row(g) # k
    BY <1>10, <2>2, <2>3, <2>4
  <2>5. CASE Row(g) = k
    <3>1. g \in Users(k)'
      BY <2>1, <2>2, <2>5 DEF Users
    <3>2. count[x] # 1
      BY <1>8, <3>1
    <3> QED
      BY <1>4, <1>10, <2>2, <2>5, <3>2
  <2> QED
    BY <2>4, <2>5
<1>12. \A g \in Handler : Holds(g)' => handler'[g].mutex \in held'
  BY <1>3, <1>6 DEF LockInv
<1>13. \A f, g \in Handler :
          Holds(f)' /\ Holds(g)' /\ handler'[f].mutex = handler'[g].mutex => f = g
  BY <1>6 DEF LockInv
<1>14. \A l, n \in Node \X Order : table'[l] # None /\ table'[l] = table'[n] => l = n
  BY <1>4, <1>10 DEF LockInv
<1>15. \A l \in Node \X Order :
          table'[l] # None => count'[table'[l]] = Cardinality(Users(l)')
  <2>1. SUFFICES ASSUME NEW l \in Node \X Order, table'[l] # None
                 PROVE  count'[table'[l]] = Cardinality(Users(l)')
    OBVIOUS
  <2>2. CASE l = k
    BY <1>8, <1>9, <1>10, <2>1, <2>2
  <2>3. CASE l # k
    <3>1. table'[l] = table[l] /\ table[l] # None /\ table[l] \in Mutex
      BY <1>10, <2>1, <2>3 DEF TypeOK
    <3>2. table[l] # x
      BY <1>4, <2>3, <3>1 DEF LockInv
    <3> QED
      BY <1>7, <1>9, <2>3, <3>1, <3>2 DEF LockInv
  <2> QED
    BY <2>2, <2>3
<1> QED
  BY <1>9, <1>10, <1>11, <1>12, <1>13, <1>14, <1>15 DEF LockInv

(* A restart takes the handlers, the rows and the mutexes of one process.  *)
LEMMA CrashKeepsLocks ==
    ASSUME TypeOK, LockInv, JobInv, NEW n \in Node, Crash(n)
    PROVE  LockInv' /\ count' \in [Mutex -> Nat] /\ held' \in SUBSET Mutex
           /\ table' \in [Node \X Order -> Mutex \cup {None}]
           /\ handler' \in [Handler -> HandlerType]
           /\ (\A h \in Handler : \/ handler'[h] = handler[h] /\ NodeOf[h] # n
                                  \/ handler'[h] = Idle)
<1> DEFINE gone == {table[<<n, o>>] : o \in Order}
<1>1. /\ count' = [x \in Mutex |-> IF x \in gone THEN 0 ELSE count[x]]
      /\ held' = held \ gone
      /\ table' = [k \in Node \X Order |-> IF k[1] = n THEN None ELSE table[k]]
      /\ handler' = [h \in Handler |-> IF NodeOf[h] = n THEN Idle ELSE handler[h]]
  BY DEF Crash
<1>2. Idle \in HandlerType /\ Idle.pc = "idle"
  BY NoneAssumption DEF Idle, HandlerType, Job
<1>3. /\ count' \in [Mutex -> Nat] /\ held' \in SUBSET Mutex
      /\ table' \in [Node \X Order -> Mutex \cup {None}]
      /\ handler' \in [Handler -> HandlerType]
  BY <1>1, <1>2 DEF TypeOK
<1>4. \A h \in Handler : handler'[h] = IF NodeOf[h] = n THEN Idle ELSE handler[h]
  BY <1>1
<1>5. \A h \in Handler :
        /\ Stands(h)' <=> Stands(h) /\ NodeOf[h] # n
        /\ Holds(h)' <=> Holds(h) /\ NodeOf[h] # n
        /\ Stands(h)' => /\ Row(h)' = Row(h) /\ handler'[h].mutex = handler[h].mutex
                         /\ handler[h].order \in Order
  BY <1>2, <1>4 DEF Stands, Holds, Locks, Row, JobInv
<1>6. \A k \in Node \X Order : k[1] # n => Users(k)' = Users(k)
  <2>1. SUFFICES ASSUME NEW k \in Node \X Order, k[1] # n
                 PROVE  Users(k)' = Users(k)
    OBVIOUS
  <2>2. \A h \in Handler : Row(h) = k => NodeOf[h] # n
    BY <2>1 DEF Row
  <2>3. \A h \in Handler : Stands(h)' /\ Row(h)' = k <=> Stands(h) /\ Row(h) = k
    BY <1>5, <2>2
  <2> QED
    BY <2>3 DEF Users
<1>7. \A k \in Node \X Order : k[1] # n /\ table[k] # None => table[k] \notin gone
  <2>1. SUFFICES ASSUME NEW k \in Node \X Order, k[1] # n, table[k] # None,
                        NEW o \in Order, table[k] = table[<<n, o>>]
                 PROVE  FALSE
    OBVIOUS
  <2>2. k = <<n, o>>
    BY <2>1 DEF LockInv
  <2> QED
    BY <2>1, <2>2
<1> HIDE DEF gone
<1>8. \A k \in Node \X Order : table'[k] # None => k[1] # n /\ table'[k] = table[k]
  BY <1>1
<1>9. \A h \in Handler : Stands(h)' =>
        /\ Row(h) \in Node \X Order /\ Row(h)[1] # n
        /\ handler[h].mutex \in Mutex /\ table[Row(h)] = handler[h].mutex
  BY <1>5, RowType DEF LockInv, Row
<1>10. \A h \in Handler : Stands(h)' => /\ handler'[h].mutex \in Mutex
                                        /\ table'[Row(h)'] = handler'[h].mutex
  BY <1>1, <1>5, <1>9
<1>11. \A h \in Handler : Holds(h)' => Stands(h)'
  BY DEF Holds, Stands
<1>12. \A h \in Handler : Holds(h)' => handler'[h].mutex \in held'
  <2>1. SUFFICES ASSUME NEW h \in Handler, Holds(h)'
                 PROVE  handler'[h].mutex \in held'
    OBVIOUS
  <2>2. handler[h].mutex \notin gone
    BY <1>7, <1>9, <1>11, <2>1, NoneAssumption
  <2> QED
    BY <1>1, <1>5, <1>11, <2>1, <2>2 DEF LockInv
<1>13. \A f, g \in Handler :
          Holds(f)' /\ Holds(g)' /\ handler'[f].mutex = handler'[g].mutex => f = g
  BY <1>5, <1>11 DEF LockInv
<1>14. \A k, l \in Node \X Order : table'[k] # None /\ table'[k] = table'[l] => k = l
  BY <1>8 DEF LockInv
<1>15. \A k \in Node \X Order :
          table'[k] # None => count'[table'[k]] = Cardinality(Users(k)')
  <2>1. SUFFICES ASSUME NEW k \in Node \X Order, table'[k] # None
                 PROVE  count'[table'[k]] = Cardinality(Users(k)')
    OBVIOUS
  <2>2. k[1] # n /\ table'[k] = table[k] /\ table[k] \in Mutex /\ table[k] \notin gone
    BY <1>7, <1>8, <2>1 DEF TypeOK
  <2> QED
    BY <1>1, <1>6, <2>1, <2>2 DEF LockInv
<1> QED
  BY <1>3, <1>4, <1>10, <1>12, <1>13, <1>14, <1>15 DEF LockInv

-----------------------------------------------------------------------------
(* The orders and the handlers fit together after a step that starts,      *)
(* moves or ends one handler.                                              *)
LEMMA ChangeKeepsJobs ==
    ASSUME JobInv, NEW h \in Handler, UNCHANGED provider,
           NEW pc, NEW job, NEW order, NEW mutex, Changed(h, pc, job, order, mutex),
           pc # "idle" => /\ order \in Order
                          /\ \/ Suits(job, order)
                             \/ job = "request" /\ provider[order] = "waffo",
           pc = "called" => job = "request",
           job \in Unlocked => pc \in {"read", "write", "called"}
    PROVE  JobInv'
<1>1. \A j, o : Suits(j, o)' <=> Suits(j, o)
  BY DEF Suits
<1>2. \A g \in Handler : g # h => handler'[g] = handler[g]
  BY DEF Changed
<1>3. handler'[h].pc = pc /\ handler'[h].job = job /\ handler'[h].order = order
  BY DEF Changed
<1> QED
  BY <1>1, <1>2, <1>3 DEF JobInv

LEMMA KeepKeepsJobs ==
    ASSUME JobInv, NEW h \in Handler, UNCHANGED provider, NEW pc, Keeps(h, pc),
           handler[h].pc # "idle", pc # "called",
           Locks(h) \/ pc \in {"read", "write"}
    PROVE  JobInv'
<1>1. /\ handler[h].order \in Order
      /\ \/ Suits(handler[h].job, handler[h].order)
         \/ handler[h].job = "request" /\ provider[handler[h].order] = "waffo"
  BY DEF JobInv
<1>2. \A j, o : Suits(j, o)' <=> Suits(j, o)
  BY DEF Suits
<1>3. \A g \in Handler : g # h => handler'[g] = handler[g]
  BY DEF Changed, Keeps
<1>4. /\ handler'[h].pc = pc /\ handler'[h].job = handler[h].job
      /\ handler'[h].order = handler[h].order
  BY DEF Changed, Keeps
<1> QED
  BY <1>1, <1>2, <1>3, <1>4 DEF JobInv, Locks

(* What the order of a handler that works on it is.                        *)
Base == TypeOK /\ LockInv /\ JobInv

(* A handler in its critical section that goes on or returns keeps the     *)
(* locks, and so does one that does not lock.                              *)
LEMMA ReturnKeepsBase ==
    ASSUME Base, NEW h \in Handler, Return(h), UNCHANGED <<provider, table, count, held>>,
           handler[h].pc \in {"read", "write", "credit", "called"}
    PROVE  LockInv' /\ JobInv' /\ handler' \in [Handler -> HandlerType]
<1> USE DEF Base
<1>1. CASE Locks(h) /\ Keeps(h, "unlock")
  <2>1. JobInv'
    BY <1>1, KeepKeepsJobs
  <2>2. handler[h].pc # "called"
    BY <1>1 DEF JobInv, Locks, Unlocked
  <2>3. Holds(h) /\ Holds(h)'
    BY <1>1, <2>2 DEF Keeps, Changed, Holds, Locks
  <2>4. LockInv'
    BY <1>1, <2>3, StayKeepsLocks DEF Keeps, Changed
  <2> QED
    BY <1>1, <2>1, <2>4 DEF Keeps, Changed
<1>2. CASE ~Locks(h) /\ Changed(h, "idle", "recharge", None, None)
  <2>1. JobInv'
    BY <1>2, ChangeKeepsJobs DEF Unlocked
  <2>2. ~Stands(h) /\ ~Stands(h)'
    BY <1>2 DEF Changed, Stands, Locks
  <2>3. LockInv'
    BY <1>2, <2>2, StayKeepsLocks DEF Changed
  <2> QED
    BY <1>2, <2>1, <2>3 DEF Changed
<1> QED
  BY <1>1, <1>2, ReturnChanges

LEMMA SetStatusType ==
    ASSUME TypeOK, NEW h \in Handler, NEW st \in Status, SetStatus(h, st)
    PROVE  status' \in [Order -> Status]
BY DEF TypeOK, SetStatus

LEMMA StepKeepsBase ==
    ASSUME Base, NEW h \in Handler, Step(h) \/ Acquire(h)
    PROVE  Base'
<1> USE DEF Base
<1>1. CASE RequestReturns(h)
  <2>1. LockInv' /\ JobInv' /\ handler' \in [Handler -> HandlerType]
    BY <1>1, ReturnKeepsBase DEF RequestReturns
  <2>2. status' \in [Order -> Status]
    BY <1>1, SetStatusType DEF RequestReturns, Status, TypeOK
  <2> QED
    BY <1>1, <2>1, <2>2 DEF RequestReturns, TypeOK
<1>2. CASE LockOrder(h)
  <2>1. PICK x \in Mutex : Changed(h, "wait", handler[h].job, handler[h].order, x)
    BY <1>2, LockOrderKeepsLocks
  <2>2. handler[h].pc = "lock" /\ UNCHANGED <<provider, status, credits, faults>>
    BY <1>2 DEF LockOrder
  <2>3. /\ handler[h].order \in Order /\ handler[h].job \notin Unlocked
        /\ \/ Suits(handler[h].job, handler[h].order)
           \/ handler[h].job = "request" /\ provider[handler[h].order] = "waffo"
    BY <2>2 DEF JobInv
  <2>4. JobInv'
    BY <2>1, <2>2, <2>3, ChangeKeepsJobs
  <2> QED
    BY <1>2, <2>2, <2>4, LockOrderKeepsLocks DEF TypeOK
<1>3. CASE ReadOrder(h)
  <2>1. CASE Goto(h, "write")
    <3>1. Keeps(h, "write") /\ handler[h].pc = "read"
          /\ UNCHANGED <<provider, status, credits, table, count, held, faults>>
      BY <1>3, <2>1, GotoKeeps DEF ReadOrder, Pc
    <3>2. JobInv'
      BY <3>1, KeepKeepsJobs
    <3>3. (Holds(h) /\ Holds(h)') \/ (~Stands(h) /\ ~Stands(h)')
      BY <3>1 DEF Keeps, Changed, Holds, Stands, Locks
    <3>4. LockInv'
      BY <3>1, <3>3, StayKeepsLocks DEF Keeps, Changed
    <3> QED
      BY <3>1, <3>2, <3>4 DEF Keeps, Changed, TypeOK
  <2>2. CASE Return(h)
    BY <1>3, <2>2, ReturnKeepsBase DEF ReadOrder, TypeOK
  <2> QED
    BY <1>3, <2>1, <2>2 DEF ReadOrder
<1>4. CASE Recharge(h)
  <2>1. LockInv' /\ JobInv' /\ handler' \in [Handler -> HandlerType]
    BY <1>4, ReturnKeepsBase DEF Recharge
  <2>2. status' \in [Order -> Status]
    BY <1>4, SetStatusType DEF Recharge, Status
  <2>3. credits' \in [Order -> Nat]
    <3>1. handler[h].order \in Order
      BY <1>4 DEF Recharge, JobInv
    <3>2. credits' = [credits EXCEPT ![handler[h].order] = @ + 1]
      BY <1>4 DEF Recharge
    <3> QED
      BY <3>1, <3>2 DEF TypeOK
  <2> QED
    BY <1>4, <2>1, <2>2, <2>3 DEF Recharge, TypeOK
<1>5. CASE EpayNotify(h)
  <2>1. Keeps(h, "credit") /\ handler[h].pc = "write" /\ handler[h].job = "epay"
        /\ UNCHANGED <<provider, credits, table, count, held, faults>>
    BY <1>5, GotoKeeps DEF EpayNotify, Pc
  <2>2. Locks(h)
    BY <2>1 DEF Locks, Unlocked
  <2>3. JobInv'
    BY <2>1, <2>2, KeepKeepsJobs
  <2>4. Holds(h) /\ Holds(h)'
    BY <2>1, <2>2 DEF Keeps, Changed, Holds, Locks
  <2>5. LockInv'
    BY <2>1, <2>4, StayKeepsLocks DEF Keeps, Changed
  <2>6. status' \in [Order -> Status]
    BY <1>5, SetStatusType DEF EpayNotify, Status
  <2> QED
    BY <2>1, <2>3, <2>5, <2>6 DEF Keeps, Changed, TypeOK
<1>6. CASE IncreaseUserQuota(h)
  <2>1. LockInv' /\ JobInv' /\ handler' \in [Handler -> HandlerType]
    BY <1>6, ReturnKeepsBase DEF IncreaseUserQuota
  <2>2. credits' \in [Order -> Nat] /\ faults' \in Nat
    BY <1>6 DEF IncreaseUserQuota, TypeOK
  <2> QED
    BY <1>6, <2>1, <2>2 DEF IncreaseUserQuota, TypeOK
<1>7. CASE UpdatePendingTopUpStatus(h)
  <2>1. LockInv' /\ JobInv' /\ handler' \in [Handler -> HandlerType]
    BY <1>7, ReturnKeepsBase DEF UpdatePendingTopUpStatus
  <2>2. status' \in [Order -> Status]
    BY <1>7, SetStatusType DEF UpdatePendingTopUpStatus, Status
  <2> QED
    BY <1>7, <2>1, <2>2 DEF UpdatePendingTopUpStatus, TypeOK
<1>8. CASE WriteFails(h)
  BY <1>8, ReturnKeepsBase DEF WriteFails, TypeOK
<1>9. CASE UnlockOrder(h)
  <2>1. /\ handler[h].pc = "unlock"
        /\ UNCHANGED <<provider, status, credits, table, count, held, faults>>
    BY <1>9 DEF UnlockOrder
  <2>2. Locks(h) /\ Stands(h) /\ Holds(h)
    BY <2>1 DEF JobInv, Locks, Stands, Holds
  <2>3. table[Row(h)] = handler[h].mutex /\ table[Row(h)] # None
    BY <2>2, NoneAssumption DEF LockInv
  <2>4. Keeps(h, "release")
    BY <1>9, <2>3 DEF UnlockOrder, Keeps, Changed, TypeOK, HandlerType
  <2>5. JobInv'
    BY <2>1, <2>2, <2>4, KeepKeepsJobs
  <2>6. Holds(h)'
    BY <2>2, <2>4 DEF Keeps, Changed, Holds, Locks
  <2>7. LockInv'
    BY <2>1, <2>2, <2>4, <2>6, StayKeepsLocks DEF Keeps, Changed
  <2> QED
    BY <2>1, <2>4, <2>5, <2>7 DEF Keeps, Changed, TypeOK
<1>10. CASE Release(h)
  <2>1. Keeps(h, "drop") /\ handler[h].pc = "release"
        /\ UNCHANGED <<provider, status, credits, table, count, faults>>
    BY <1>10, GotoKeeps DEF Release, Pc
  <2>2. Locks(h)
    BY <2>1 DEF JobInv, Locks
  <2>3. JobInv'
    BY <2>1, <2>2, KeepKeepsJobs
  <2> QED
    BY <1>10, <2>1, <2>3, ReleaseKeepsLocks DEF Keeps, Changed, TypeOK
<1>11. CASE Drop(h)
  <2>1. Changed(h, "idle", "recharge", None, None)
        /\ UNCHANGED <<provider, status, credits, held, faults>>
    BY <1>11, IdleChanges DEF Drop
  <2>2. JobInv'
    BY <2>1, ChangeKeepsJobs DEF Unlocked
  <2> QED
    BY <1>11, <2>1, <2>2, DropKeepsLocks DEF Changed, TypeOK
<1>12. CASE Acquire(h)
  <2>1. Keeps(h, "read") /\ handler[h].pc = "wait"
        /\ UNCHANGED <<provider, status, credits, table, count, faults>>
    BY <1>12, GotoKeeps DEF Acquire, Pc
  <2>2. JobInv'
    BY <2>1, KeepKeepsJobs
  <2> QED
    BY <1>12, <2>1, <2>2, AcquireKeepsLocks DEF Keeps, Changed, TypeOK
<1> HIDE DEF Base
<1> QED
  BY <1>1, <1>2, <1>3, <1>4, <1>5, <1>6, <1>7, <1>8, <1>9, <1>10, <1>11, <1>12 DEF Step

LEMMA OtherKeepsBase ==
    ASSUME Base,
           \/ \E h \in Handler, job \in Job, o \in Order : Start(h, job, o)
           \/ \E h \in Handler, o \in Order : RequestPay(h, o)
           \/ \E n \in Node : Crash(n)
           \/ UNCHANGED vars
    PROVE  Base'
<1> USE DEF Base
<1>1. ASSUME NEW h \in Handler, NEW job \in Job, NEW o \in Order, Start(h, job, o)
      PROVE  Base'
  <2>1. PICK pc \in {"read", "lock"} :
           Begin(h, pc, job, o) /\ (pc = "read" <=> job = "fail")
    BY <1>1 DEF Start
  <2>2. /\ handler[h].pc = "idle" /\ Changed(h, pc, job, o, None) /\ Suits(job, o)
        /\ UNCHANGED <<provider, status, credits, table, count, held, faults>>
    BY <1>1, <2>1, BeginChanges DEF Start, Pc
  <2>3. job # "request"
    BY <2>2 DEF Suits
  <2>4. JobInv'
    BY <2>1, <2>2, <2>3, ChangeKeepsJobs DEF Unlocked
  <2>5. ~Stands(h) /\ ~Stands(h)'
    BY <2>1, <2>2 DEF Changed, Stands, Locks, Unlocked
  <2>6. LockInv'
    BY <2>2, <2>5, StayKeepsLocks DEF Changed
  <2> QED
    BY <2>2, <2>4, <2>6 DEF Changed, TypeOK
<1>2. ASSUME NEW h \in Handler, NEW o \in Order, RequestPay(h, o)
      PROVE  Base'
  <2>1. /\ status' \in [Order -> Status]
        /\ UNCHANGED <<provider, credits, table, count, held, faults>>
    BY <1>2 DEF RequestPay, TypeOK, Status
  <2>2. CASE UNCHANGED handler
    <3>1. LockInv'
      BY <2>1, <2>2 DEF LockInv, Stands, Holds, Locks, Row, Users
    <3>2. JobInv'
      BY <2>1, <2>2 DEF JobInv, Suits
    <3> QED
      BY <2>1, <2>2, <3>1, <3>2 DEF TypeOK
  <2>3. CASE provider[o] = "waffo" /\ Begin(h, "called", "request", o)
    <3>1. handler[h].pc = "idle" /\ Changed(h, "called", "request", o, None)
      BY <2>3, BeginChanges DEF Pc, Job
    <3>2. JobInv'
      BY <2>1, <2>3, <3>1, ChangeKeepsJobs
    <3>3. ~Stands(h) /\ ~Stands(h)'
      BY <3>1 DEF Changed, Stands
    <3>4. LockInv'
      BY <2>1, <3>1, <3>3, StayKeepsLocks DEF Changed
    <3> QED
      BY <2>1, <3>1, <3>2, <3>4 DEF Changed, TypeOK
  <2> QED
    BY <1>2, <2>2, <2>3 DEF RequestPay
<1>3. ASSUME NEW n \in Node, Crash(n)
      PROVE  Base'
  <2>1. /\ \A h \in Handler : handler'[h] = handler[h] \/ handler'[h] = Idle
        /\ UNCHANGED <<provider, status, credits>> /\ faults' \in Nat
    BY <1>3, CrashKeepsLocks DEF Crash, TypeOK
  <2>2. Idle.pc = "idle" /\ Idle.job = "recharge"
    BY DEF Idle
  <2>3. JobInv'
    BY <2>1, <2>2 DEF JobInv, Suits, Unlocked
  <2> QED
    BY <1>3, <2>1, <2>3, CrashKeepsLocks DEF TypeOK
<1>4. ASSUME UNCHANGED vars
      PROVE  Base'
  <2>1. LockInv'
    BY <1>4 DEF vars, LockInv, Stands, Holds, Locks, Row, Users
  <2>2. JobInv'
    BY <1>4 DEF vars, JobInv, Suits
  <2> QED
    BY <1>4, <2>1, <2>2 DEF vars, TypeOK
<1> HIDE DEF Base
<1> QED
  BY <1>1, <1>2, <1>3, <1>4

LEMMA InitBase == Init => Base
<1> SUFFICES ASSUME Init PROVE Base
  OBVIOUS
<1>1. Idle \in HandlerType /\ Idle.pc = "idle" /\ Idle.job = "recharge"
  BY NoneAssumption DEF Idle, HandlerType, Job
<1>2. TypeOK
  BY <1>1, MaxFaultsAssumption DEF Init, TypeOK, Status
<1>3. \A h \in Handler : handler[h] = Idle
  BY DEF Init
<1>4. \A h \in Handler : ~Stands(h) /\ ~Holds(h)
  BY <1>1, <1>3 DEF Stands, Holds
<1>5. \A k \in Node \X Order : table[k] = None
  BY DEF Init
<1>6. LockInv
  BY <1>4, <1>5 DEF LockInv
<1>7. JobInv
  BY <1>1, <1>3 DEF JobInv, Unlocked
<1> QED
  BY <1>2, <1>6, <1>7 DEF Base

LEMMA BaseHolds == Spec => []Base
<1>1. Base /\ [Next]_vars => Base'
  <2> SUFFICES ASSUME Base, [Next]_vars PROVE Base'
    OBVIOUS
  <2> QED
    BY StepKeepsBase, OtherKeepsBase DEF Next
<1> QED
  BY <1>1, InitBase, PTL DEF Spec

(* Every reachable state has the types of the order table, the handlers    *)
(* and orderLocks; in particular UnlockOrder never decrements a refCount   *)
(* below zero.                                                             *)
THEOREM TopUpTypeCorrect == Spec => []TypeOK
BY BaseHolds, PTL DEF Base

-----------------------------------------------------------------------------
(* LockOrder is a mutex for each order of each node: two handlers between  *)
(* LockOrder and UnlockOrder of one order on one node are the same one.    *)
Excludes ==
    \A g, h \in Handler : Holds(g) /\ Holds(h) /\ Row(g) = Row(h) => g = h

LEMMA BaseExcludes == Base => Excludes
<1>1. \A h \in Handler : Holds(h) => Stands(h)
  BY DEF Holds, Stands
<1> QED
  BY <1>1 DEF Base, LockInv, Excludes

(* LockOrder and UnlockOrder, with the mutex deleted from orderLocks by    *)
(* its last user and looked up again without createLock, let one handler   *)
(* of an order at a time into its critical section on each node.           *)
THEOREM LockOrderExcludes == Spec => []Excludes
BY BaseHolds, BaseExcludes, PTL

-----------------------------------------------------------------------------
OneNode == \A g, h \in Handler : NodeOf[g] = NodeOf[h]

Money == CreditInv /\ CreditedOnce /\ StatusMatchesCredit

(* Two handlers of one order in their critical sections are the same.      *)
LEMMA OneHolder ==
    ASSUME OneNode, Base, NEW g \in Handler, NEW h \in Handler,
           Holds(g), Holds(h), handler[g].order = handler[h].order
    PROVE  g = h
BY BaseExcludes DEF Excludes, Row, OneNode

(* A step that changes neither the orders nor who is writing.              *)
LEMMA StillKeepsMoney ==
    ASSUME TypeOK, Money, UNCHANGED <<provider, status, credits>>,
           faults' = faults \/ faults' > 0,
           \A g \in Handler :
              \/ /\ handler'[g].pc \notin {"write", "credit"}
                 /\ handler[g].pc = "credit" => faults' > 0
              \/ handler'[g] = handler[g]
    PROVE  Money'
<1>1. CreditInv' /\ CreditedOnce'
  BY DEF Money, CreditInv, CreditedOnce, Locks
<1>2. \A o \in Order : (\E h \in Handler : handler[h].pc = "credit" /\ handler[h].order = o)
         => \/ \E h \in Handler : handler'[h].pc = "credit" /\ handler'[h].order = o
            \/ faults' > 0
  OBVIOUS
<1>3. faults > 0 => faults' > 0
  OBVIOUS
<1>4. StatusMatchesCredit'
  BY <1>2, <1>3 DEF Money, StatusMatchesCredit
<1> QED
  BY <1>1, <1>4 DEF Money

(* A writer of an order that has the lock is the only one that writes it;  *)
(* one that has not is Waffo's.                                            *)
LEMMA OnlyWriter ==
    ASSUME OneNode, Base, NEW h \in Handler, handler[h].pc \in {"write", "credit", "called"}
    PROVE  /\ handler[h].order \in Order
           /\ Locks(h) => \A g \in Handler :
                g # h /\ Locks(g) /\ handler[g].pc \in {"write", "credit"}
                  => handler[g].order # handler[h].order
           /\ ~Locks(h) => provider[handler[h].order] = "waffo"
<1>1. handler[h].order \in Order
  BY DEF Base, JobInv
<1>2. ASSUME Locks(h), NEW g \in Handler, g # h, Locks(g),
             handler[g].pc \in {"write", "credit"},
             handler[g].order = handler[h].order
      PROVE  FALSE
  <2>1. handler[h].pc # "called"
    BY <1>2 DEF Base, JobInv, Locks, Unlocked
  <2>2. Holds(g) /\ Holds(h)
    BY <1>2, <2>1 DEF Holds
  <2> QED
    BY <1>2, <2>2, OneHolder
<1>3. ASSUME ~Locks(h)
      PROVE  provider[handler[h].order] = "waffo"
  BY <1>3 DEF Base, JobInv, Suits, Locks, Unlocked
<1> QED
  BY <1>1, <1>2, <1>3

(* Where a handler is after it returns.                                    *)
LEMMA ReturnLeaves ==
    ASSUME TypeOK, NEW h \in Handler, Return(h)
    PROVE  /\ handler'[h].pc \in {"unlock", "idle"}
           /\ \A g \in Handler : g # h => handler'[g] = handler[g]
BY ReturnChanges DEF Keeps, Changed

(* A writer that makes an order failed or expired: one that has the lock   *)
(* has found it pending, one that has not is Waffo's.                      *)
LEMMA FailKeepsMoney ==
    ASSUME OneNode, Base, Money, NEW h \in Handler,
           handler[h].pc \in {"write", "called"},
           NEW st \in {"failed", "expired"}, SetStatus(h, st), Return(h),
           UNCHANGED <<provider, credits, faults>>
    PROVE  Money'
<1>1. PICK o \in Order : o = handler[h].order
  BY OnlyWriter
<1>2. /\ status' = [status EXCEPT ![o] = st]
      /\ status'[o] = st
      /\ \A p \in Order : p # o => status'[p] = status[p]
  BY <1>1 DEF SetStatus, Base, TypeOK
<1>3. /\ handler'[h].pc \in {"unlock", "idle"}
      /\ \A g \in Handler : g # h => handler'[g] = handler[g]
  BY ReturnLeaves DEF Base
<1>4. \A g \in Handler : handler[g].pc = "credit" => g # h /\ handler[g].order # o
  <2>1. SUFFICES ASSUME NEW g \in Handler, handler[g].pc = "credit"
                 PROVE  g # h /\ handler[g].order # o
    OBVIOUS
  <2>2. g # h
    BY <2>1
  <2>3. handler[g].job = "epay" /\ provider[handler[g].order] = "epay"
    BY <2>1 DEF Money, CreditInv, Base, JobInv, Suits
  <2>4. Locks(g)
    BY <2>3 DEF Locks, Unlocked
  <2>5. CASE Locks(h)
    BY <1>1, <2>1, <2>2, <2>4, <2>5, OnlyWriter
  <2>6. CASE ~Locks(h)
    BY <1>1, <2>2, <2>3, <2>6, OnlyWriter
  <2> QED
    BY <2>5, <2>6
<1>5. CreditInv'
  BY <1>2, <1>3, <1>4 DEF Money, CreditInv, Locks, JobInv, Base
<1>6. CreditedOnce'
  BY DEF Money, CreditedOnce
<1>7. credits[o] = 0 \/ provider[o] = "waffo"
  BY <1>1, OnlyWriter DEF Money, CreditInv, Base, JobInv, Locks, Unlocked
<1>8. \A p \in Order : (\E g \in Handler : handler[g].pc = "credit" /\ handler[g].order = p)
         => \E g \in Handler : handler'[g].pc = "credit" /\ handler'[g].order = p
  BY <1>3, <1>4
<1>9. StatusMatchesCredit'
  BY <1>2, <1>7, <1>8 DEF Money, StatusMatchesCredit, Base, TypeOK
<1> QED
  BY <1>5, <1>6, <1>9 DEF Money

(* Recharge and its kin find the order without credit and credit it.       *)
LEMMA RechargeKeepsMoney ==
    ASSUME OneNode, Base, Money, NEW h \in Handler, Recharge(h)
    PROVE  Money'
<1>1. PICK o \in Order : o = handler[h].order
  BY OnlyWriter DEF Recharge
<1>2. handler[h].pc = "write" /\ Locks(h)
  BY DEF Recharge, Locks, Unlocked
<1>3. /\ status'[o] = "success" /\ credits[o] = 0 /\ credits'[o] = 1
      /\ \A p \in Order : p # o => status'[p] = status[p] /\ credits'[p] = credits[p]
  <2>1. credits[o] = 0
    BY <1>1, <1>2 DEF Money, CreditInv
  <2> QED
    BY <1>1, <2>1 DEF Recharge, SetStatus, Base, TypeOK
<1>4. /\ handler'[h].pc \in {"unlock", "idle"}
      /\ \A g \in Handler : g # h => handler'[g] = handler[g]
      /\ UNCHANGED <<provider, faults>>
  BY ReturnLeaves DEF Base, Recharge
<1>5. \A g \in Handler : g # h /\ Locks(g) /\ handler[g].pc \in {"write", "credit"}
         => handler[g].order # o /\ handler[g].order \in Order
  BY <1>1, <1>2, OnlyWriter
<1>6. \A g \in Handler : handler[g].pc = "credit" => g # h /\ Locks(g)
  BY <1>2 DEF Money, CreditInv, Locks, Unlocked
<1>7. CreditInv'
  BY <1>3, <1>4, <1>5, <1>6 DEF Money, CreditInv, Locks
<1>8. CreditedOnce'
  BY <1>3 DEF Money, CreditedOnce
<1>9. \A p \in Order : (\E g \in Handler : handler[g].pc = "credit" /\ handler[g].order = p)
         => \E g \in Handler : handler'[g].pc = "credit" /\ handler'[g].order = p
  BY <1>4, <1>6
<1>10. StatusMatchesCredit'
  BY <1>3, <1>4, <1>9 DEF Money, StatusMatchesCredit
<1> QED
  BY <1>7, <1>8, <1>10 DEF Money

(* EpayNotify saves the status of an order without credit.                 *)
LEMMA EpayKeepsMoney ==
    ASSUME OneNode, Base, Money, NEW h \in Handler, EpayNotify(h)
    PROVE  Money'
<1>1. PICK o \in Order : o = handler[h].order
  BY OnlyWriter DEF EpayNotify
<1>2. handler[h].pc = "write" /\ Locks(h) /\ handler[h].job = "epay" /\ provider[o] = "epay"
  BY <1>1 DEF EpayNotify, Locks, Unlocked, Base, JobInv, Suits
<1>3. /\ status'[o] = "success" /\ credits[o] = 0
      /\ \A p \in Order : p # o => status'[p] = status[p]
      /\ UNCHANGED <<provider, credits, faults>>
  <2>1. credits[o] = 0
    BY <1>1, <1>2 DEF Money, CreditInv
  <2> QED
    BY <1>1, <2>1 DEF EpayNotify, SetStatus, Base, TypeOK
<1>4. /\ handler'[h].pc = "credit" /\ handler'[h].order = o /\ handler'[h].job = "epay"
      /\ \A g \in Handler : g # h => handler'[g] = handler[g]
  BY <1>1, <1>2, GotoKeeps DEF Base, EpayNotify, Keeps, Changed, Pc
<1>5. \A g \in Handler : g # h /\ Locks(g) /\ handler[g].pc \in {"write", "credit"}
         => handler[g].order # o /\ handler[g].order \in Order
  BY <1>1, <1>2, OnlyWriter
<1>6. \A g \in Handler : handler[g].pc = "credit" => g # h /\ Locks(g)
  BY <1>2 DEF Money, CreditInv, Locks, Unlocked
<1>7. CreditInv'
  BY <1>3, <1>4, <1>5, <1>6 DEF Money, CreditInv, Locks
<1>8. CreditedOnce'
  BY <1>3 DEF Money, CreditedOnce
<1>9. \A p \in Order : (\E g \in Handler : handler[g].pc = "credit" /\ handler[g].order = p)
         => \E g \in Handler : handler'[g].pc = "credit" /\ handler'[g].order = p
  BY <1>4, <1>6
<1>10. StatusMatchesCredit'
  BY <1>2, <1>3, <1>4, <1>9 DEF Money, StatusMatchesCredit
<1> QED
  BY <1>7, <1>8, <1>10 DEF Money

(* The second statement of EpayNotify, done or failed.                     *)
LEMMA IncreaseKeepsMoney ==
    ASSUME OneNode, Base, Money, NEW h \in Handler, IncreaseUserQuota(h)
    PROVE  Money'
<1>1. PICK o \in Order : o = handler[h].order
  BY OnlyWriter DEF IncreaseUserQuota
<1>2. /\ handler[h].pc = "credit" /\ handler[h].job = "epay" /\ Locks(h)
      /\ provider[o] = "epay" /\ status[o] = "success" /\ credits[o] = 0
  BY <1>1 DEF IncreaseUserQuota, Money, CreditInv, Locks, Unlocked, Base, JobInv, Suits
<1>3. /\ UNCHANGED <<provider, status>>
      /\ \/ credits'[o] = 1 /\ faults' = faults
         \/ credits'[o] = 0 /\ faults' > 0
      /\ \A p \in Order : p # o => credits'[p] = credits[p]
      /\ faults > 0 => faults' > 0
  BY <1>1, <1>2 DEF IncreaseUserQuota, Base, TypeOK
<1>4. /\ handler'[h].pc \in {"unlock", "idle"}
      /\ \A g \in Handler : g # h => handler'[g] = handler[g]
  BY ReturnLeaves DEF Base, IncreaseUserQuota
<1>5. \A g \in Handler : g # h /\ Locks(g) /\ handler[g].pc \in {"write", "credit"}
         => handler[g].order # o /\ handler[g].order \in Order
  BY <1>1, <1>2, OnlyWriter
<1>6. \A g \in Handler : handler[g].pc = "credit" => Locks(g)
  BY DEF Money, CreditInv, Locks, Unlocked
<1>7. CreditInv'
  BY <1>2, <1>3, <1>4, <1>5, <1>6 DEF Money, CreditInv, Locks
<1>8. CreditedOnce'
  BY <1>3 DEF Money, CreditedOnce
<1>9. \A p \in Order : p # o /\ (\E g \in Handler : handler[g].pc = "credit" /\ handler[g].order = p)
         => \E g \in Handler : handler'[g].pc = "credit" /\ handler'[g].order = p
  BY <1>1, <1>4
<1>10. StatusMatchesCredit'
  BY <1>2, <1>3, <1>9 DEF Money, StatusMatchesCredit
<1> QED
  BY <1>7, <1>8, <1>10 DEF Money

(* A handler that finds the order pending may write it.                    *)
LEMMA ReadKeepsMoney ==
    ASSUME Base, Money, NEW h \in Handler, ReadOrder(h)
    PROVE  Money'
<1>1. UNCHANGED <<provider, status, credits, faults>> /\ handler[h].pc = "read"
  BY DEF ReadOrder
<1>2. CASE Return(h)
  BY <1>1, <1>2, ReturnLeaves, StillKeepsMoney DEF Base
<1>3. CASE status[handler[h].order] = "pending" /\ Goto(h, "write")
  <2>1. /\ handler'[h].pc = "write" /\ handler'[h].order = handler[h].order
        /\ \A g \in Handler : g # h => handler'[g] = handler[g]
        /\ handler[h].order \in Order
    BY <1>1, <1>3, GotoKeeps DEF Base, Keeps, Changed, Pc, JobInv
  <2>2. CreditInv'
    BY <1>1, <1>3, <2>1 DEF Money, CreditInv, Locks
  <2>3. CreditedOnce'
    BY <1>1 DEF Money, CreditedOnce
  <2>4. \A p \in Order : (\E g \in Handler : handler[g].pc = "credit" /\ handler[g].order = p)
           => \E g \in Handler : handler'[g].pc = "credit" /\ handler'[g].order = p
    BY <1>1, <2>1
  <2>5. StatusMatchesCredit'
    BY <1>1, <2>4 DEF Money, StatusMatchesCredit
  <2> QED
    BY <2>2, <2>3, <2>5 DEF Money
<1> QED
  BY <1>2, <1>3 DEF ReadOrder

LEMMA StepKeepsMoney ==
    ASSUME OneNode, Base, Money, NEW h \in Handler, Step(h) \/ Acquire(h)
    PROVE  Money'
<1>0. TypeOK
  BY DEF Base
<1>1. CASE RequestReturns(h)
  <2>1. CASE SetStatus(h, "failed")
    BY <1>1, <2>1, FailKeepsMoney DEF RequestReturns
  <2>2. CASE UNCHANGED status
    BY <1>0, <1>1, <2>2, ReturnLeaves, StillKeepsMoney DEF RequestReturns
  <2> QED
    BY <1>1, <2>1, <2>2 DEF RequestReturns
<1>2. CASE LockOrder(h)
  <2>1. /\ handler'[h].pc = "wait" /\ \A g \in Handler : g # h => handler'[g] = handler[g]
    BY <1>2, LockOrderKeepsLocks DEF Base, Changed
  <2> QED
    BY <1>0, <1>2, <2>1, StillKeepsMoney DEF LockOrder
<1>3. CASE ReadOrder(h)
  BY <1>3, ReadKeepsMoney
<1>4. CASE Recharge(h)
  BY <1>4, RechargeKeepsMoney
<1>5. CASE EpayNotify(h)
  BY <1>5, EpayKeepsMoney
<1>6. CASE IncreaseUserQuota(h)
  BY <1>6, IncreaseKeepsMoney
<1>7. CASE UpdatePendingTopUpStatus(h)
  <2>1. PICK st \in {"failed", "expired"} : SetStatus(h, st)
    BY <1>7 DEF UpdatePendingTopUpStatus
  <2> QED
    BY <1>7, <2>1, FailKeepsMoney DEF UpdatePendingTopUpStatus
<1>8. CASE WriteFails(h)
  BY <1>0, <1>8, ReturnLeaves, StillKeepsMoney DEF WriteFails
<1>9. CASE UnlockOrder(h)
  <2>1. /\ handler'[h].pc \in {"idle", "release"}
        /\ \A g \in Handler : g # h => handler'[g] = handler[g]
    BY <1>0, <1>9 DEF UnlockOrder, TypeOK, Idle, HandlerType
  <2> QED
    BY <1>0, <1>9, <2>1, StillKeepsMoney DEF UnlockOrder
<1>10. CASE Release(h)
  BY <1>0, <1>10, GotoKeeps, StillKeepsMoney DEF Release, Pc, Keeps, Changed
<1>11. CASE Drop(h)
  BY <1>0, <1>11, IdleChanges, StillKeepsMoney DEF Drop, Changed
<1>12. CASE Acquire(h)
  BY <1>0, <1>12, GotoKeeps, StillKeepsMoney DEF Acquire, Pc, Keeps, Changed
<1> QED
  BY <1>1, <1>2, <1>3, <1>4, <1>5, <1>6, <1>7, <1>8, <1>9, <1>10, <1>11, <1>12 DEF Step

LEMMA OtherKeepsMoney ==
    ASSUME Base, Money,
           \/ \E h \in Handler, job \in Job, o \in Order : Start(h, job, o)
           \/ \E h \in Handler, o \in Order : RequestPay(h, o)
           \/ \E n \in Node : Crash(n)
           \/ UNCHANGED vars
    PROVE  Money'
<1>0. TypeOK
  BY DEF Base
<1>1. ASSUME NEW h \in Handler, NEW job \in Job, NEW o \in Order, Start(h, job, o)
      PROVE  Money'
  <2>1. PICK pc \in {"read", "lock"} : Begin(h, pc, job, o)
    BY <1>1 DEF Start
  <2>2. /\ handler[h].pc = "idle" /\ handler'[h].pc = pc
        /\ \A g \in Handler : g # h => handler'[g] = handler[g]
    BY <1>0, <2>1, BeginChanges DEF Changed, Pc
  <2> QED
    BY <1>0, <1>1, <2>2, StillKeepsMoney DEF Start
<1>2. ASSUME NEW h \in Handler, NEW o \in Order, RequestPay(h, o)
      PROVE  Money'
  <2>1. /\ handler[h].pc = "idle" /\ handler'[h].pc \in {"idle", "called"}
        /\ \A g \in Handler : g # h => handler'[g] = handler[g]
    BY <1>0, <1>2, BeginChanges DEF RequestPay, Changed, Pc, Job, Begin
  <2>2. /\ status[o] = "none" /\ status'[o] = "pending" /\ credits[o] = 0
        /\ \A p \in Order : p # o => status'[p] = status[p]
        /\ UNCHANGED <<provider, credits, faults>>
    BY <1>0, <1>2 DEF RequestPay, Money, CreditInv, TypeOK
  <2>3. CreditInv'
    BY <1>0, <2>1, <2>2 DEF Money, CreditInv, Locks, Base, JobInv
  <2>4. CreditedOnce'
    BY <2>2 DEF Money, CreditedOnce
  <2>5. \A p \in Order : (\E g \in Handler : handler[g].pc = "credit" /\ handler[g].order = p)
           => \E g \in Handler : handler'[g].pc = "credit" /\ handler'[g].order = p
    BY <2>1
  <2>6. StatusMatchesCredit'
    BY <2>2, <2>5 DEF Money, StatusMatchesCredit
  <2> QED
    BY <2>3, <2>4, <2>6 DEF Money
<1>3. ASSUME NEW n \in Node, Crash(n)
      PROVE  Money'
  <2>1. \A h \in Handler : handler'[h] = handler[h] \/ handler'[h] = Idle
    BY <1>3, CrashKeepsLocks DEF Base
  <2>2. Idle.pc = "idle" /\ faults' > 0 /\ UNCHANGED <<provider, status, credits>>
    BY <1>0, <1>3 DEF Idle, Crash, TypeOK
  <2> QED
    BY <1>0, <2>1, <2>2, StillKeepsMoney
<1>4. ASSUME UNCHANGED vars
      PROVE  Money'
  BY <1>0, <1>4, StillKeepsMoney DEF vars
<1> QED
  BY <1>1, <1>2, <1>3, <1>4

LEMMA InitMoney == Init => Money
<1> SUFFICES ASSUME Init PROVE Money
  OBVIOUS
<1>1. \A h \in Handler : handler[h].pc = "idle"
  BY DEF Init, Idle
<1>2. \A o \in Order : credits[o] = 0 /\ status[o] = "none"
  BY DEF Init
<1> QED
  BY <1>1, <1>2 DEF Money, CreditInv, CreditedOnce, StatusMatchesCredit

LEMMA MoneyHolds ==
    ASSUME OneNode
    PROVE  Spec => []Money
<1>1. Base /\ Money /\ [Next]_vars => Money'
  <2> SUFFICES ASSUME Base, Money, [Next]_vars PROVE Money'
    OBVIOUS
  <2> QED
    BY OneNode, StepKeepsMoney, OtherKeepsMoney DEF Next
<1> QED
  BY <1>1, InitMoney, BaseHolds, PTL DEF Spec

(* However many handlers run LockOrder for however many orders at once on  *)
(* one node, and however they fail, no order is credited twice, although   *)
(* the transactions of Recharge and its kin lock no row.                   *)
THEOREM TopUpCreditedOnce ==
    ASSUME OneNode
    PROVE  Spec => []CreditedOnce
BY OneNode, MoneyHolds, PTL DEF Money

(* On one node the status of an order tells whether it was credited, save  *)
(* for EpayNotify between or stopped between its two statements and for    *)
(* the writers of Waffo's orders that do not call LockOrder.               *)
THEOREM TopUpStatusTells ==
    ASSUME OneNode
    PROVE  Spec => []StatusMatchesCredit
BY OneNode, MoneyHolds, PTL DEF Money

=============================================================================
