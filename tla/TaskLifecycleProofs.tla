------------------------ MODULE TaskLifecycleProofs -------------------------
(***************************************************************************)
(* For any number of tasks and of polling processes: the types, and, where *)
(* all tasks are videos that no user fetches in real time and no channel   *)
(* vanishes, that each is billed once and a failed one refunded.           *)
(***************************************************************************)
EXTENDS TaskLifecycle, TLAPS

Back == {"sweep", "poll", "save"}

Copy == Task \X Status

(* What a step of p makes of the polling loops.                            *)
Becomes(p, pc, list, task, seen, ans, back) ==
    /\ poll' \in [Poller -> PollType]
    /\ \A q \in Poller : q # p => poll'[q] = poll[q]
    /\ poll'[p].pc = pc
    /\ poll'[p].list = list
    /\ poll'[p].task = task
    /\ poll'[p].seen = seen
    /\ poll'[p].ans = ans
    /\ poll'[p].back = back

Goes(p, pc) ==
    Becomes(p, pc, poll[p].list, poll[p].task, poll[p].seen, poll[p].ans, poll[p].back)

Lists(p, list) ==
    Becomes(p, poll[p].pc, list, poll[p].task, poll[p].seen, poll[p].ans, poll[p].back)

(* The fields of a polling loop have their types.                          *)
LEMMA PollFields ==
    ASSUME TypeOK, NEW p \in Poller
    PROVE  /\ poll[p] \in PollType
           /\ poll[p].pc \in PollerPC
           /\ poll[p].list \in SUBSET Copy
           /\ poll[p].task \in Task \cup {NoTask}
           /\ poll[p].seen \in Status
           /\ poll[p].ans \in Status
           /\ poll[p].odd \in BOOLEAN
           /\ poll[p].back \in Back
BY DEF TypeOK, PollType, Copy, Back

LEMMA PollUpdate ==
    ASSUME TypeOK, NEW p \in Poller, NEW r \in PollType, poll' = [poll EXCEPT ![p] = r]
    PROVE  Becomes(p, r.pc, r.list, r.task, r.seen, r.ans, r.back)
<1>1. poll' \in [Poller -> PollType] /\ poll'[p] = r
      /\ \A q \in Poller : q # p => poll'[q] = poll[q]
  BY DEF TypeOK
<1> QED
  BY <1>1 DEF Becomes

LEMMA PcUpdate ==
    ASSUME TypeOK, NEW p \in Poller, NEW pc \in PollerPC,
           poll' = [poll EXCEPT ![p].pc = pc]
    PROVE  Goes(p, pc)
BY DEF TypeOK, Goes, Becomes, PollType

LEMMA ListUpdate ==
    ASSUME TypeOK, NEW p \in Poller, NEW list \in SUBSET Copy,
           poll' = [poll EXCEPT ![p].list = list]
    PROVE  Lists(p, list)
BY DEF TypeOK, Lists, Becomes, PollType, Copy

LEMMA IdleUpdate ==
    ASSUME TypeOK, NEW p \in Poller, poll' = [poll EXCEPT ![p] = Idle]
    PROVE  Becomes(p, "idle", {}, NoTask, "none", "none", "poll")
<1>1. /\ Idle \in PollType /\ Idle.pc = "idle" /\ Idle.list = {} /\ Idle.task = NoTask
      /\ Idle.seen = "none" /\ Idle.ans = "none" /\ Idle.back = "poll"
  BY DEF Idle, PollType, PollerPC, Status
<1>2. Becomes(p, Idle.pc, Idle.list, Idle.task, Idle.seen, Idle.ans, Idle.back)
  BY <1>1, PollUpdate
<1> QED
  BY <1>1, <1>2

(* The copies of rows that GetTimedOutUnfinishedTasks and                  *)
(* GetAllUnFinishSyncTasks return.                                         *)
LEMMA CopiesType ==
    ASSUME TypeOK, NEW S \in SUBSET Unfinished
    PROVE  /\ Copies(S) \in SUBSET Copy
           /\ \A c \in Copies(S) : c[2] \in Open
<1>1. \A t \in S : t \in Task /\ row[t].status \in Status /\ row[t].status \in Open
  BY DEF Unfinished, TypeOK, Open
<1> QED
  BY <1>1 DEF Copies, Copy

-----------------------------------------------------------------------------
(* What each step of a polling loop makes of it.                           *)
LEMMA ListTimedOutPoll ==
    ASSUME TypeOK, NEW p \in Poller, ListTimedOut(p)
    PROVE  \E l \in SUBSET Copy :
              /\ Becomes(p, "sweep", l, NoTask, "none", "none", "poll")
              /\ \A c \in l : c[2] \in Open
<1>1. PICK l : l = Copies({t \in Unfinished : old[t]})
  OBVIOUS
<1>2. l \in SUBSET Copy /\ \A c \in l : c[2] \in Open
  BY <1>1, CopiesType
<1>3. PICK r : r = [Idle EXCEPT !.pc = "sweep", !.list = l]
  OBVIOUS
<1>4. poll' = [poll EXCEPT ![p] = r]
  BY <1>1, <1>3 DEF ListTimedOut
<1>5. /\ r \in PollType /\ r.pc = "sweep" /\ r.list = l /\ r.task = NoTask
      /\ r.seen = "none" /\ r.ans = "none" /\ r.back = "poll"
  <2>1. "sweep" \in PollerPC
    BY DEF PollerPC
  <2> QED
    BY <1>2, <1>3, <2>1 DEF PollType, Idle, Status, Copy
<1>6. Becomes(p, r.pc, r.list, r.task, r.seen, r.ans, r.back)
  BY <1>4, <1>5, PollUpdate
<1>7. Becomes(p, "sweep", l, NoTask, "none", "none", "poll")
  BY <1>5, <1>6
<1> QED
  BY <1>2, <1>7

LEMMA ListUnfinishedPoll ==
    ASSUME TypeOK, NEW p \in Poller, ListUnfinished(p)
    PROVE  \E l \in SUBSET Copy :
              /\ Becomes(p, "poll", l, NoTask, "none", "none", "poll")
              /\ \A c \in l : c[2] \in Open
<1>1. PICK l : l = Copies(Unfinished)
  OBVIOUS
<1>2. l \in SUBSET Copy /\ \A c \in l : c[2] \in Open
  BY <1>1, CopiesType
<1>3. PICK r : r = [Idle EXCEPT !.pc = "poll", !.list = l]
  OBVIOUS
<1>4. poll' = [poll EXCEPT ![p] = r]
  BY <1>1, <1>3 DEF ListUnfinished
<1>5. /\ r \in PollType /\ r.pc = "poll" /\ r.list = l /\ r.task = NoTask
      /\ r.seen = "none" /\ r.ans = "none" /\ r.back = "poll"
  <2>1. "poll" \in PollerPC
    BY DEF PollerPC
  <2> QED
    BY <1>2, <1>3, <2>1 DEF PollType, Idle, Status, Copy
<1>6. Becomes(p, r.pc, r.list, r.task, r.seen, r.ans, r.back)
  BY <1>4, <1>5, PollUpdate
<1>7. Becomes(p, "poll", l, NoTask, "none", "none", "poll")
  BY <1>5, <1>6
<1> QED
  BY <1>2, <1>7

LEMMA SweepTaskPoll ==
    ASSUME TypeOK, NEW p \in Poller, SweepTask(p)
    PROVE  \E c \in poll[p].list :
              /\ poll[p].pc = "sweep"
              /\ c \in Copy
              /\ UpdateWithStatus(c[1], c[2], "FAILURE", TRUE)
              /\ \/ /\ Won(c[1], c[2])
                    /\ Becomes(p, "refund", poll[p].list \ {c}, c[1],
                               poll[p].seen, poll[p].ans, "sweep")
                 \/ /\ ~Won(c[1], c[2])
                    /\ Lists(p, poll[p].list \ {c})
<1>1. PICK c \in poll[p].list :
        /\ poll[p].pc = "sweep"
        /\ UpdateWithStatus(c[1], c[2], "FAILURE", TRUE)
        /\ poll' = [poll EXCEPT ![p] =
             IF Won(c[1], c[2])
             THEN [poll[p] EXCEPT !.pc = "refund", !.list = poll[p].list \ {c},
                            !.task = c[1], !.back = "sweep"]
             ELSE [poll[p] EXCEPT !.list = poll[p].list \ {c}]]
  BY DEF SweepTask
<1>2. PICK l : l = poll[p].list \ {c}
  OBVIOUS
<1>3. c \in Copy /\ l \in SUBSET Copy /\ c[1] \in Task
  BY <1>2, PollFields DEF Copy
<1>4. CASE Won(c[1], c[2])
  <2>1. PICK r : r = [poll[p] EXCEPT !.pc = "refund", !.list = l, !.task = c[1], !.back = "sweep"]
    OBVIOUS
  <2>2. poll' = [poll EXCEPT ![p] = r]
    BY <1>1, <1>2, <1>4, <2>1
  <2>3. /\ r \in PollType /\ r.pc = "refund" /\ r.list = l /\ r.task = c[1]
        /\ r.seen = poll[p].seen /\ r.ans = poll[p].ans /\ r.back = "sweep"
    <3>1. poll[p] \in PollType /\ "refund" \in PollerPC
      BY PollFields DEF PollerPC
    <3> QED
      BY <1>3, <2>1, <3>1 DEF PollType, Copy
  <2>4. Becomes(p, r.pc, r.list, r.task, r.seen, r.ans, r.back)
    BY <2>2, <2>3, PollUpdate
  <2>5. Becomes(p, "refund", poll[p].list \ {c}, c[1], poll[p].seen, poll[p].ans, "sweep")
    BY <1>2, <2>3, <2>4
  <2> QED
    BY <1>1, <1>3, <1>4, <2>5
<1>5. CASE ~Won(c[1], c[2])
  <2>1. poll' = [poll EXCEPT ![p].list = l]
    BY <1>1, <1>2, <1>5
  <2>2. Lists(p, l)
    BY <1>3, <2>1, ListUpdate
  <2> QED
    BY <1>1, <1>2, <1>3, <1>5, <2>2
<1> QED
  BY <1>4, <1>5

LEMMA FetchTaskPoll ==
    ASSUME TypeOK, NEW p \in Poller, FetchTask(p)
    PROVE  \E c \in poll[p].list, s \in {"IN_PROGRESS"} \cup Terminal :
              /\ c \in Copy
              /\ Becomes(p, "answered", poll[p].list \ {c}, c[1], c[2], s, poll[p].back)
<1>1. PICK c \in poll[p].list, odd \in BOOLEAN : \E s \in {up[c[1]], "FAILURE"} :
        poll' = [poll EXCEPT ![p] =
          [poll[p] EXCEPT !.pc = "answered", !.task = c[1], !.list = poll[p].list \ {c},
                          !.seen = c[2], !.ans = s, !.odd = odd]]
  BY DEF FetchTask
<1>2. PICK s \in {up[c[1]], "FAILURE"} :
        poll' = [poll EXCEPT ![p] =
          [poll[p] EXCEPT !.pc = "answered", !.task = c[1], !.list = poll[p].list \ {c},
                          !.seen = c[2], !.ans = s, !.odd = odd]]
  BY <1>1
<1>3. PICK l : l = poll[p].list \ {c}
  OBVIOUS
<1>4. c \in Copy /\ l \in SUBSET Copy /\ c[1] \in Task /\ c[2] \in Status
  BY <1>3, PollFields DEF Copy
<1>5. s \in {"IN_PROGRESS"} \cup Terminal /\ s \in Status
  BY <1>4 DEF TypeOK, Terminal, Status
<1>6. PICK r : r = [poll[p] EXCEPT !.pc = "answered", !.task = c[1], !.list = l,
                                   !.seen = c[2], !.ans = s, !.odd = odd]
  OBVIOUS
<1>7. poll' = [poll EXCEPT ![p] = r]
  BY <1>2, <1>3, <1>6
<1>8. /\ r \in PollType /\ r.pc = "answered" /\ r.list = l /\ r.task = c[1]
      /\ r.seen = c[2] /\ r.ans = s /\ r.back = poll[p].back
  <2>1. poll[p] \in PollType /\ "answered" \in PollerPC
    BY PollFields DEF PollerPC
  <2> QED
    BY <1>4, <1>5, <1>6, <2>1 DEF PollType, Copy
<1>9. Becomes(p, r.pc, r.list, r.task, r.seen, r.ans, r.back)
  BY <1>7, <1>8, PollUpdate
<1>10. Becomes(p, "answered", poll[p].list \ {c}, c[1], c[2], s, poll[p].back)
  BY <1>3, <1>8, <1>9
<1> QED
  BY <1>4, <1>5, <1>10

(* A task is struck off the list of its poller.                            *)
Strikes(p) == \E c \in poll[p].list : Lists(p, poll[p].list \ {c})

LEMMA StrikePoll ==
    ASSUME TypeOK, NEW p \in Poller,
           \E c \in poll[p].list : poll' = [poll EXCEPT ![p].list = @ \ {c}]
    PROVE  Strikes(p)
<1>1. PICK c \in poll[p].list : poll' = [poll EXCEPT ![p].list = poll[p].list \ {c}]
  OBVIOUS
<1>2. poll[p].list \ {c} \in SUBSET Copy
  BY PollFields
<1> QED
  BY <1>1, <1>2, ListUpdate DEF Strikes

LEMMA UpdateVideoPoll ==
    ASSUME TypeOK, NEW p \in Poller, UpdateVideoTask(p)
    PROVE  \E pc \in {"poll", "settle", "refund"} :
              /\ Becomes(p, pc, poll[p].list, poll[p].task, poll[p].seen, poll[p].ans, "poll")
              /\ pc = "settle" <=> Won(poll[p].task, poll[p].seen) /\ poll[p].ans = "SUCCESS"
              /\ pc = "refund" <=> Won(poll[p].task, poll[p].seen) /\ poll[p].ans = "FAILURE"
<1>1. PICK pc : pc = IF Won(poll[p].task, poll[p].seen)
                     THEN CASE poll[p].ans = "SUCCESS" -> "settle"
                            [] poll[p].ans = "FAILURE" -> "refund"
                            [] OTHER -> "poll"
                     ELSE "poll"
  OBVIOUS
<1>2. /\ pc \in {"poll", "settle", "refund"}
      /\ pc = "settle" <=> Won(poll[p].task, poll[p].seen) /\ poll[p].ans = "SUCCESS"
      /\ pc = "refund" <=> Won(poll[p].task, poll[p].seen) /\ poll[p].ans = "FAILURE"
  <2>1. CASE ~Won(poll[p].task, poll[p].seen)
    BY <1>1, <2>1 DEF Won
  <2>2. CASE Won(poll[p].task, poll[p].seen) /\ poll[p].ans = "SUCCESS"
    BY <1>1, <2>2 DEF Won
  <2>3. CASE Won(poll[p].task, poll[p].seen) /\ poll[p].ans = "FAILURE"
    BY <1>1, <2>3 DEF Won
  <2>4. CASE /\ Won(poll[p].task, poll[p].seen)
             /\ poll[p].ans # "SUCCESS" /\ poll[p].ans # "FAILURE"
    BY <1>1, <2>4 DEF Won
  <2> QED
    BY <2>1, <2>2, <2>3, <2>4
<1>3. PICK r : r = [poll[p] EXCEPT !.pc = pc, !.back = "poll"]
  OBVIOUS
<1>4. poll' = [poll EXCEPT ![p] = r]
  BY <1>1, <1>3 DEF UpdateVideoTask
<1>5. pc \in PollerPC /\ "poll" \in Back
  BY <1>2 DEF PollerPC, Back
<1>6. /\ r \in PollType /\ r.pc = pc /\ r.list = poll[p].list /\ r.task = poll[p].task
      /\ r.seen = poll[p].seen /\ r.ans = poll[p].ans /\ r.back = "poll"
  <2>1. poll[p] \in PollType
    BY PollFields
  <2> QED
    BY <1>3, <1>5, <2>1 DEF PollType, Back
<1>7. Becomes(p, r.pc, r.list, r.task, r.seen, r.ans, r.back)
  BY <1>4, <1>6, PollUpdate
<1>8. Becomes(p, pc, poll[p].list, poll[p].task, poll[p].seen, poll[p].ans, "poll")
  BY <1>6, <1>7
<1> QED
  BY <1>2, <1>8

LEMMA UpdateSunoPoll ==
    ASSUME TypeOK, NEW p \in Poller, UpdateSunoTask(p)
    PROVE  \E pc \in {"save", "refund"} :
              Becomes(p, pc, poll[p].list, poll[p].task, poll[p].seen, poll[p].ans, "save")
<1>1. PICK pc \in {"save", "refund"} :
        poll' = [poll EXCEPT ![p] = [poll[p] EXCEPT !.pc = pc, !.back = "save"]]
  BY DEF UpdateSunoTask
<1>2. PICK r : r = [poll[p] EXCEPT !.pc = pc, !.back = "save"]
  OBVIOUS
<1>3. poll' = [poll EXCEPT ![p] = r]
  BY <1>1, <1>2
<1>4. pc \in PollerPC /\ "save" \in Back
  BY DEF PollerPC, Back
<1>5. /\ r \in PollType /\ r.pc = pc /\ r.list = poll[p].list /\ r.task = poll[p].task
      /\ r.seen = poll[p].seen /\ r.ans = poll[p].ans /\ r.back = "save"
  <2>1. poll[p] \in PollType
    BY PollFields
  <2> QED
    BY <1>2, <1>4, <2>1 DEF PollType, Back
<1>6. Becomes(p, r.pc, r.list, r.task, r.seen, r.ans, r.back)
  BY <1>3, <1>5, PollUpdate
<1>7. Becomes(p, pc, poll[p].list, poll[p].task, poll[p].seen, poll[p].ans, "save")
  BY <1>5, <1>6
<1> QED
  BY <1>7

-----------------------------------------------------------------------------
(* Writing a status, and billing.                                          *)
LEMMA WrittenType ==
    ASSUME TypeOK, NEW t \in Task, NEW to \in Status, NEW full \in BOOLEAN
    PROVE  /\ Written(t, to, full) \in [Task -> [status : Status, full : BOOLEAN, quota : Nat]]
           /\ \A u \in Task : u # t => Written(t, to, full)[u] = row[u]
           /\ \A u \in Task : Written(t, to, full)[u].quota = row[u].quota
           /\ Written(t, to, full)[t].status = to
<1>1. PICK r : r = [row[t] EXCEPT !.status = to, !.full = full]
  OBVIOUS
<1>2. row[t] \in [status : Status, full : BOOLEAN, quota : Nat]
  BY DEF TypeOK
<1>3. /\ r \in [status : Status, full : BOOLEAN, quota : Nat]
      /\ r.status = to /\ r.quota = row[t].quota
  BY <1>1, <1>2
<1>4. Written(t, to, full) = [row EXCEPT ![t] = r]
  BY <1>1 DEF Written
<1> QED
  BY <1>3, <1>4 DEF TypeOK

(* The progress that comes with an answer.                                 *)
LEMMA FullType ==
    ASSUME TypeOK, NEW p \in Poller
    PROVE  Full(p) \in BOOLEAN
BY DEF Full

LEMMA RowUpdate ==
    ASSUME TypeOK, NEW t \in Task, NEW from, NEW to \in Status,
           NEW full \in BOOLEAN, UpdateWithStatus(t, from, to, full)
    PROVE  /\ row' \in [Task -> [status : Status, full : BOOLEAN, quota : Nat]]
           /\ \A u \in Task : u # t => row'[u] = row[u]
           /\ \A u \in Task : row'[u].quota = row[u].quota
           /\ row'[t].status = IF Won(t, from) THEN to ELSE row[t].status
           /\ ~Won(t, from) => row' = row
<1>1. CASE Won(t, from)
  <2>1. row' = Written(t, to, full)
    BY <1>1 DEF UpdateWithStatus, Won
  <2> QED
    BY <1>1, <2>1, WrittenType
<1>2. CASE ~Won(t, from)
  <2>1. row' = row
    BY <1>2 DEF UpdateWithStatus, Won
  <2> QED
    BY <1>2, <2>1 DEF TypeOK
<1> QED
  BY <1>1, <1>2

LEMMA BillUpdate ==
    ASSUME TypeOK, NEW t \in Task, NEW delta \in Int, Bill(t, delta)
    PROVE  /\ paid' \in [Task -> Int] /\ billed' \in [Task -> 0..2]
           /\ paid'[t] = paid[t] + delta
           /\ billed'[t] = IF billed[t] = 2 THEN 2 ELSE billed[t] + 1
           /\ \A u \in Task : u # t => paid'[u] = paid[u] /\ billed'[u] = billed[u]
<1>1. paid' = [paid EXCEPT ![t] = paid[t] + delta] /\ paid \in [Task -> Int]
  BY DEF Bill, TypeOK
<1>2. /\ billed' = [billed EXCEPT ![t] = IF billed[t] = 2 THEN 2 ELSE billed[t] + 1]
      /\ billed \in [Task -> 0..2]
  BY DEF Bill, TypeOK
<1>3. /\ paid' \in [Task -> Int] /\ paid'[t] = paid[t] + delta
      /\ \A u \in Task : u # t => paid'[u] = paid[u]
  BY <1>1
<1>4. /\ billed' \in [Task -> 0..2]
      /\ billed'[t] = IF billed[t] = 2 THEN 2 ELSE billed[t] + 1
      /\ \A u \in Task : u # t => billed'[u] = billed[u]
  BY <1>2
<1> QED
  BY <1>3, <1>4

Working == {"answered", "refund", "settle", "save"}

(* WorkInv, for the loops and for the fetches.                             *)
PollWork == \A p \in Poller : poll[p].pc \in Working => poll[p].task \in Task

FetchWork == \A f \in Fetcher : fetch[f] = NoFetch \/ fetch[f].task \in Task

LEMMA WorkInvParts == WorkInv <=> PollWork /\ FetchWork
BY DEF WorkInv, PollWork, FetchWork, Working

(* What the types and WorkInv say of the loops.                            *)
PollOK == poll \in [Poller -> PollType] /\ PollWork

LEMMA PollStep ==
    ASSUME PollWork, NEW p \in Poller, NEW pc, NEW list, NEW task, NEW seen, NEW ans, NEW back,
           Becomes(p, pc, list, task, seen, ans, back),
           pc \in Working => task \in Task
    PROVE  PollOK'
BY DEF PollOK, PollWork, Becomes

-----------------------------------------------------------------------------
(* The types, action by action.                                            *)
LEMMA RelayTaskType ==
    ASSUME TypeOK, NEW t \in Task, RelayTask(t)
    PROVE  /\ row' \in [Task -> [status : Status, full : BOOLEAN, quota : Nat]]
           /\ paid' \in [Task -> Int]
           /\ faults' \in 0..MaxFaults
<1>1. PICK pre, quota \in Quotas :
        /\ row' = row \/ row' = [row EXCEPT ![t] = [status |-> "NOT_START", full |-> FALSE, quota |-> quota]]
        /\ paid' = [paid EXCEPT ![t] = quota] \/ paid' = [paid EXCEPT ![t] = pre]
        /\ faults' = faults \/ (faults < MaxFaults /\ faults' = faults + 1)
  BY DEF RelayTask
<1>2. pre \in Int /\ quota \in Int /\ quota \in Nat
  BY ConstantsAssumption
<1>3. [status |-> "NOT_START", full |-> FALSE, quota |-> quota] \in [status : Status, full : BOOLEAN, quota : Nat]
  BY <1>2 DEF Status
<1>4. row' \in [Task -> [status : Status, full : BOOLEAN, quota : Nat]]
  BY <1>1, <1>3 DEF TypeOK
<1>5. paid' \in [Task -> Int]
  BY <1>1, <1>2 DEF TypeOK
<1>6. faults' \in 0..MaxFaults
  BY <1>1, ConstantsAssumption DEF TypeOK
<1> QED
  BY <1>4, <1>5, <1>6

(* Each step of a polling loop keeps the loops, and what they write, in    *)
(* order.                                                                  *)
PollerTypes ==
    /\ PollOK
    /\ row \in [Task -> [status : Status, full : BOOLEAN, quota : Nat]]
    /\ paid \in [Task -> Int]
    /\ billed \in [Task -> 0..2]
    /\ faults \in 0..MaxFaults

LEMMA Faulty ==
    ASSUME TypeOK, faults < MaxFaults, faults' = faults + 1
    PROVE  faults' \in 0..MaxFaults
BY ConstantsAssumption DEF TypeOK

LEMMA PollerStepType ==
    ASSUME TypeOK, WorkInv, NEW p \in Poller, PollerStep(p)
    PROVE  PollerTypes'
<1> USE WorkInvParts
<1>0. PollWork /\ poll[p].pc \in PollerPC
  BY PollFields
<1>1. ASSUME UNCHANGED <<row, paid, billed, faults>>, PollOK' PROVE PollerTypes'
  BY <1>1 DEF PollerTypes, TypeOK
<1>2. CASE ListTimedOut(p)
  <2>1. PICK l \in SUBSET Copy : Becomes(p, "sweep", l, NoTask, "none", "none", "poll")
    BY <1>2, ListTimedOutPoll
  <2>2. PollOK'
    BY <1>0, <2>1, PollStep DEF Working
  <2> QED
    BY <1>1, <1>2, <2>2 DEF ListTimedOut
<1>3. CASE SweepTask(p)
  <2>1. PICK c \in poll[p].list :
          /\ c \in Copy /\ poll[p].pc = "sweep"
          /\ UpdateWithStatus(c[1], c[2], "FAILURE", TRUE)
          /\ \/ Becomes(p, "refund", poll[p].list \ {c}, c[1], poll[p].seen, poll[p].ans, "sweep")
             \/ Lists(p, poll[p].list \ {c})
    BY <1>3, SweepTaskPoll
  <2>2. c[1] \in Task /\ "FAILURE" \in Status
    BY <2>1 DEF Copy, Status, Terminal
  <2>3. row' \in [Task -> [status : Status, full : BOOLEAN, quota : Nat]]
    BY <2>1, <2>2, RowUpdate
  <2>4. CASE Becomes(p, "refund", poll[p].list \ {c}, c[1], poll[p].seen, poll[p].ans, "sweep")
    <3>1. PollOK'
      BY <1>0, <2>2, <2>4, PollStep
    <3> QED
      BY <1>3, <2>3, <3>1 DEF SweepTask, PollerTypes, TypeOK
  <2>5. CASE Lists(p, poll[p].list \ {c})
    <3>1. PollOK'
      BY <1>0, <2>1, <2>5, PollStep DEF Lists, Working
    <3> QED
      BY <1>3, <2>3, <3>1 DEF SweepTask, PollerTypes, TypeOK
  <2> QED
    BY <2>1, <2>4, <2>5
<1>4. CASE ListUnfinished(p)
  <2>1. PICK l \in SUBSET Copy : Becomes(p, "poll", l, NoTask, "none", "none", "poll")
    BY <1>4, ListUnfinishedPoll
  <2>2. PollOK'
    BY <1>0, <2>1, PollStep DEF Working
  <2> QED
    BY <1>1, <1>4, <2>2 DEF ListUnfinished
<1>5. CASE ChannelVanished(p)
  <2>1. Becomes(p, "idle", {}, NoTask, "none", "none", "poll")
    BY <1>5, IdleUpdate DEF ChannelVanished
  <2>2. PollOK'
    BY <1>0, <2>1, PollStep DEF Working
  <2>3. \A t \in Task : [row[t] EXCEPT !.status = "FAILURE", !.full = TRUE]
                           \in [status : Status, full : BOOLEAN, quota : Nat]
    BY DEF TypeOK, Status, Terminal
  <2>4. row' \in [Task -> [status : Status, full : BOOLEAN, quota : Nat]]
    <3>1. row \in [Task -> [status : Status, full : BOOLEAN, quota : Nat]]
      BY DEF TypeOK
    <3>2. \/ row' = row
          \/ row' = [t \in Task |-> IF \E c \in poll[p].list : c[1] = t
                                     THEN [row[t] EXCEPT !.status = "FAILURE", !.full = TRUE]
                                     ELSE row[t]]
      BY <1>5 DEF ChannelVanished
    <3>3. PICK R : R = [status : Status, full : BOOLEAN, quota : Nat]
      OBVIOUS
    <3>4. PICK g : g = [t \in Task |-> [row[t] EXCEPT !.status = "FAILURE", !.full = TRUE]]
      OBVIOUS
    <3>5. g \in [Task -> R] /\ row \in [Task -> R]
      BY <2>3, <3>1, <3>3, <3>4
    <3>6. \/ row' = row
          \/ row' = [t \in Task |-> IF \E c \in poll[p].list : c[1] = t THEN g[t] ELSE row[t]]
      BY <3>2, <3>4
    <3>7. row' \in [Task -> R]
      BY <3>5, <3>6
    <3> QED
      BY <3>3, <3>7
  <2>5. faults' \in 0..MaxFaults
    BY <1>5, Faulty DEF ChannelVanished, TypeOK
  <2> QED
    BY <1>5, <2>2, <2>4, <2>5 DEF ChannelVanished, PollerTypes, TypeOK
<1>6. CASE FetchTask(p)
  <2>1. PICK c \in poll[p].list, s \in {"IN_PROGRESS"} \cup Terminal :
          /\ c \in Copy
          /\ Becomes(p, "answered", poll[p].list \ {c}, c[1], c[2], s, poll[p].back)
    BY <1>6, FetchTaskPoll
  <2>2. c[1] \in Task
    BY <2>1 DEF Copy
  <2>3. PollOK'
    BY <1>0, <2>1, <2>2, PollStep
  <2> QED
    BY <1>1, <1>6, <2>3 DEF FetchTask
<1>7. ASSUME Strikes(p) PROVE PollOK'
  <2>1. PICK c \in poll[p].list : Lists(p, poll[p].list \ {c})
    BY <1>7 DEF Strikes
  <2> QED
    BY <1>0, <2>1, PollStep DEF Lists, PollWork
<1>8. CASE FetchFails(p)
  <2>1. PollOK'
    BY <1>7, <1>8, StrikePoll DEF FetchFails
  <2> QED
    BY <1>1, <1>8, <2>1 DEF FetchFails
<1>9. CASE RoundEnds(p)
  <2>1. Becomes(p, "idle", {}, NoTask, "none", "none", "poll")
    BY <1>9, IdleUpdate DEF RoundEnds
  <2>2. PollOK'
    BY <1>0, <2>1, PollStep DEF Working
  <2> QED
    BY <1>1, <1>9, <2>2 DEF RoundEnds
<1>10. CASE UpdateVideoTask(p)
  <2>1. PICK pc \in {"poll", "settle", "refund"} :
          Becomes(p, pc, poll[p].list, poll[p].task, poll[p].seen, poll[p].ans, "poll")
    BY <1>10, UpdateVideoPoll
  <2>2. /\ poll[p].task \in Task /\ poll[p].ans \in Status
        /\ UpdateWithStatus(poll[p].task, poll[p].seen, poll[p].ans, Full(p))
    BY <1>0, <1>10, PollFields DEF UpdateVideoTask, PollWork, Working
  <2>3. PollOK'
    BY <1>0, <2>1, <2>2, PollStep
  <2>4. row' \in [Task -> [status : Status, full : BOOLEAN, quota : Nat]]
    BY <2>2, FullType, RowUpdate
  <2> QED
    BY <1>10, <2>3, <2>4 DEF UpdateVideoTask, PollerTypes, TypeOK
<1>11. ASSUME NEW pc \in PollerPC, poll' = [poll EXCEPT ![p].pc = pc],
              pc \in Working => poll[p].pc \in Working
       PROVE  PollOK'
  <2>1. Goes(p, pc)
    BY <1>11, PcUpdate
  <2>2. pc \in Working => poll[p].task \in Task
    BY <1>0, <1>11 DEF PollWork
  <2> QED
    BY <1>0, <2>1, <2>2, PollStep DEF Goes
<1>12. CASE UpdateFails(p)
  <2>1. CASE \E c \in poll[p].list : poll' = [poll EXCEPT ![p].list = @ \ {c}]
    <3>1. PollOK'
      BY <1>7, <2>1, StrikePoll
    <3> QED
      BY <1>12, <3>1, Faulty DEF UpdateFails, PollerTypes, TypeOK
  <2>2. CASE poll' = [poll EXCEPT ![p].pc = "poll"]
    <3>1. PollOK'
      BY <1>11, <2>2 DEF PollerPC, Working
    <3> QED
      BY <1>12, <3>1, Faulty DEF UpdateFails, PollerTypes, TypeOK
  <2> QED
    BY <1>12, <2>1, <2>2 DEF UpdateFails
<1>13. CASE TaskUnchanged(p)
  <2>1. PollOK'
    BY <1>11, <1>13 DEF TaskUnchanged, PollerPC, Working
  <2> QED
    BY <1>1, <1>13, <2>1 DEF TaskUnchanged
<1>14. CASE UpdateSunoTask(p)
  <2>1. PICK pc \in {"save", "refund"} :
          Becomes(p, pc, poll[p].list, poll[p].task, poll[p].seen, poll[p].ans, "save")
    BY <1>14, UpdateSunoPoll
  <2>2. poll[p].task \in Task
    BY <1>0, <1>14 DEF UpdateSunoTask, PollWork, Working
  <2>3. PollOK'
    BY <1>0, <2>1, <2>2, PollStep
  <2> QED
    BY <1>1, <1>14, <2>3 DEF UpdateSunoTask
<1>15. CASE SaveSunoTask(p)
  <2>1. PollOK'
    BY <1>11, <1>15 DEF SaveSunoTask, PollerPC, Working
  <2>2. poll[p].task \in Task /\ poll[p].ans \in Status /\ poll[p].seen \in Status
    BY <1>0, <1>15, PollFields DEF SaveSunoTask, PollWork, Working
  <2>3. row' \in [Task -> [status : Status, full : BOOLEAN, quota : Nat]]
    <3>1. CASE row' = row
      BY <3>1 DEF TypeOK
    <3>2. ASSUME NEW s \in Status, row' = Written(poll[p].task, s, Full(p))
          PROVE  row' \in [Task -> [status : Status, full : BOOLEAN, quota : Nat]]
      BY <2>2, <3>2, FullType, WrittenType
    <3>3. row' = row \/ \E s \in Status : row' = Written(poll[p].task, s, Full(p))
      BY <1>15, <2>2 DEF SaveSunoTask
    <3> QED
      BY <3>1, <3>2, <3>3
  <2>4. faults' \in 0..MaxFaults
    BY <1>15, Faulty DEF SaveSunoTask, TypeOK
  <2> QED
    BY <1>15, <2>1, <2>3, <2>4 DEF SaveSunoTask, PollerTypes, TypeOK
<1>16. CASE RefundTaskQuota(p)
  <2>1. /\ poll[p].task \in Task
        /\ poll[p].back \in PollerPC /\ (poll[p].back \in Working => poll[p].pc \in Working)
    BY <1>0, <1>16, PollFields DEF RefundTaskQuota, PollWork, Working, Back, PollerPC
  <2>2. PollOK'
    BY <1>11, <1>16, <2>1 DEF RefundTaskQuota
  <2>3. -row[poll[p].task].quota \in Int
    BY <2>1 DEF TypeOK
  <2>4. paid' \in [Task -> Int] /\ billed' \in [Task -> 0..2]
    BY <1>16, <2>1, <2>3, BillUpdate DEF RefundTaskQuota
  <2> QED
    BY <1>16, <2>2, <2>4 DEF RefundTaskQuota, PollerTypes, TypeOK
<1>17. CASE SettleTaskBilling(p)
  <2>1. poll[p].task \in Task
    BY <1>0, <1>17 DEF SettleTaskBilling, PollWork, Working
  <2>2. PollOK'
    BY <1>11, <1>17 DEF SettleTaskBilling, PollerPC, Working
  <2>3. PICK actual \in Quotas \cup {row[poll[p].task].quota} :
          Bill(poll[p].task, actual - row[poll[p].task].quota)
    BY <1>17 DEF SettleTaskBilling
  <2>4. actual - row[poll[p].task].quota \in Int
    BY <2>1, ConstantsAssumption DEF TypeOK
  <2>5. paid' \in [Task -> Int] /\ billed' \in [Task -> 0..2]
    BY <2>1, <2>3, <2>4, BillUpdate
  <2> QED
    BY <1>17, <2>2, <2>5 DEF SettleTaskBilling, PollerTypes, TypeOK
<1>18. CASE BillingFails(p)
  <2>1. PICK pc \in PollerPC :
          /\ poll' = [poll EXCEPT ![p].pc = pc]
          /\ poll[p].pc \in Working
    BY <1>18, PollFields DEF BillingFails, PollerPC, Back, Working
  <2>2. PollOK'
    BY <1>11, <2>1
  <2> QED
    BY <1>18, <2>2, Faulty DEF BillingFails, PollerTypes, TypeOK
<1> QED
  BY <1>2, <1>3, <1>4, <1>5, <1>6, <1>8, <1>9, <1>10, <1>12, <1>13, <1>14, <1>15,
     <1>16, <1>17, <1>18 DEF PollerStep

-----------------------------------------------------------------------------
(* The types, for all steps.                                               *)
LEMMA InitTypes == Init => TypeOK /\ WorkInv
<1> SUFFICES ASSUME Init PROVE TypeOK /\ WorkInv
  OBVIOUS
<1>1. Idle \in PollType /\ Idle.pc = "idle"
  BY DEF Idle, PollType, PollerPC, Status
<1>2. NoFetch \in [task : Task \cup {NoTask}, seen : Status, ans : Status]
  BY DEF NoFetch, Status
<1>3. row \in [Task -> [status : Status, full : BOOLEAN, quota : Nat]]
  BY DEF Init, Status
<1>4. TypeOK
  BY <1>1, <1>2, <1>3, ConstantsAssumption DEF Init, TypeOK
<1>5. WorkInv
  BY <1>1 DEF Init, WorkInv
<1> QED
  BY <1>4, <1>5

LEMMA NextTypes == TypeOK /\ WorkInv /\ [Next]_vars => TypeOK' /\ WorkInv'
<1> SUFFICES ASSUME TypeOK, WorkInv, [Next]_vars PROVE TypeOK' /\ WorkInv'
  OBVIOUS
<1>1. ASSUME NEW t \in Task, RelayTask(t) PROVE TypeOK' /\ WorkInv'
  <2>1. TypeOK'
    BY <1>1, RelayTaskType DEF RelayTask, TypeOK
  <2> QED
    BY <1>1, <2>1 DEF RelayTask, WorkInv
<1>2. ASSUME NEW t \in Task, UpstreamEnds(t) PROVE TypeOK' /\ WorkInv'
  BY <1>2 DEF UpstreamEnds, TypeOK, WorkInv
<1>3. ASSUME NEW t \in Task, TimesOut(t) PROVE TypeOK' /\ WorkInv'
  BY <1>3 DEF TimesOut, TypeOK, WorkInv
<1>4. ASSUME NEW p \in Poller, PollerStep(p) PROVE TypeOK' /\ WorkInv'
  <2>1. UNCHANGED <<up, old, fetch, fetches, crashes>>
    BY <1>4 DEF PollerStep, ListTimedOut, SweepTask, ListUnfinished, ChannelVanished, FetchTask,
                FetchFails, RoundEnds, UpdateVideoTask, UpdateFails, TaskUnchanged,
                UpdateSunoTask, SaveSunoTask, RefundTaskQuota, SettleTaskBilling, BillingFails
  <2>2. PollerTypes'
    BY <1>4, PollerStepType
  <2>3. TypeOK'
    BY <2>1, <2>2 DEF TypeOK, PollerTypes, PollOK
  <2>4. FetchWork' /\ PollWork'
    BY <2>1, <2>2, WorkInvParts DEF PollerTypes, PollOK, FetchWork
  <2>5. WorkInv'
    BY <2>4 DEF WorkInv, PollWork, FetchWork, Working
  <2> QED
    BY <2>3, <2>5
<1>5. ASSUME NEW p \in Poller, Crash(p) PROVE TypeOK' /\ WorkInv'
  <2>1. Becomes(p, "idle", {}, NoTask, "none", "none", "poll")
    BY <1>5, IdleUpdate DEF Crash
  <2>2. PollOK'
    BY <2>1, WorkInvParts, PollStep DEF Working
  <2>3. crashes' \in 0..MaxCrashes
    BY <1>5, ConstantsAssumption DEF Crash, TypeOK
  <2>4. TypeOK'
    BY <1>5, <2>2, <2>3 DEF Crash, TypeOK, PollOK
  <2>5. WorkInv'
    BY <1>5, <2>2 DEF Crash, WorkInv, PollOK, PollWork, Working
  <2> QED
    BY <2>4, <2>5
<1>6. ASSUME NEW f \in Fetcher, FetchUpdate(f) PROVE TypeOK' /\ WorkInv'
  <2>1. /\ fetch[f].task \in Task /\ fetch[f].ans \in Status
        /\ UpdateWithStatus(fetch[f].task, fetch[f].seen, fetch[f].ans, fetch[f].ans \in Terminal)
    BY <1>6 DEF FetchUpdate, WorkInv, TypeOK
  <2>2. row' \in [Task -> [status : Status, full : BOOLEAN, quota : Nat]]
    <3>1. (fetch[f].ans \in Terminal) \in BOOLEAN
      OBVIOUS
    <3> QED
      BY <2>1, <3>1, RowUpdate
  <2>3. NoFetch \in [task : Task \cup {NoTask}, seen : Status, ans : Status]
    BY DEF NoFetch, Status
  <2>4. TypeOK'
    BY <1>6, <2>2, <2>3 DEF FetchUpdate, TypeOK
  <2>5. WorkInv'
    BY <1>6 DEF FetchUpdate, WorkInv, TypeOK
  <2> QED
    BY <2>4, <2>5
<1>7. ASSUME NEW f \in Fetcher, NEW t \in Task, FetchRead(f, t) PROVE TypeOK' /\ WorkInv'
  <2>1. PICK r : r = [task |-> t, seen |-> row[t].status, ans |-> up[t]]
    OBVIOUS
  <2>2. r \in [task : Task \cup {NoTask}, seen : Status, ans : Status] /\ r.task \in Task
    BY <2>1 DEF TypeOK, Status, Terminal
  <2>3. fetch' = [fetch EXCEPT ![f] = r]
    BY <1>7, <2>1 DEF FetchRead
  <2>4. fetches' \in 0..MaxFetches
    BY <1>7, ConstantsAssumption DEF FetchRead, TypeOK
  <2>5. TypeOK'
    BY <1>7, <2>2, <2>3, <2>4 DEF FetchRead, TypeOK
  <2>6. WorkInv'
    BY <1>7, <2>2, <2>3 DEF FetchRead, WorkInv, TypeOK
  <2> QED
    BY <2>5, <2>6
<1>8. CASE UNCHANGED vars
  BY <1>8 DEF vars, TypeOK, WorkInv
<1> QED
  BY <1>1, <1>2, <1>3, <1>4, <1>5, <1>6, <1>7, <1>8 DEF Next

(* Whatever the tasks, channels, faults and crashes: the rows, what users  *)
(* have paid and the state of the polling loops and fetches of             *)
(* task_polling.go and relay_task.go keep their types.                     *)
THEOREM TasksTypeCorrect == Spec => []TypeOK
<1>1. Spec => [](TypeOK /\ WorkInv)
  BY InitTypes, NextTypes, PTL DEF Spec
<1> QED
  BY <1>1, PTL

-----------------------------------------------------------------------------
(* Only videos, no real-time fetches, no vanished channel: every update of *)
(* a status is a compare-and-swap (UpdateWithStatus).                      *)
VideoOnly == Suno = {} /\ Realtime = {} /\ ~ChannelCanVanish

(* CopyInv for one loop.                                                   *)
CopyOK(list, pc, seen, ans, back) ==
    /\ \A c \in list : c[2] \in Open
    /\ pc = "answered" => seen \in Open /\ ans \in {"IN_PROGRESS"} \cup Terminal
    /\ pc # "save" /\ back # "save"

LEMMA CopyStep ==
    ASSUME CopyInv, NEW p \in Poller, NEW pc, NEW list, NEW task, NEW seen, NEW ans, NEW back,
           Becomes(p, pc, list, task, seen, ans, back),
           CopyOK(list, pc, seen, ans, back), UNCHANGED fetch
    PROVE  CopyInv'
BY DEF CopyInv, CopyOK, Becomes

(* The loop of p goes on without having written or billed anything; or it  *)
(* drops a billing because of an error or a crash.                         *)
LEMMA GoesOn ==
    ASSUME BillInv, PaidInv, NEW p \in Poller, UNCHANGED <<row, paid, billed>>,
           \A q \in Poller : q # p => poll'[q] = poll[q],
           Billing(p)' => /\ Billing(p)
                          /\ poll'[p].task = poll[p].task /\ poll'[p].pc = poll[p].pc,
           faults' = 0 => faults = 0, crashes' = 0 => crashes = 0,
           faults' = 0 /\ crashes' = 0 /\ Billing(p) => Billing(p)',
           poll[p].pc # "save"
    PROVE  BillInv' /\ PaidInv'
<1>1. \A q \in Poller : Billing(q)' =>
        Billing(q) /\ poll'[q].task = poll[q].task /\ poll'[q].pc = poll[q].pc
  BY DEF Billing
<1>2. BillInv'
  BY <1>1 DEF BillInv, BilledOnce
<1>3. FailedIsRefunded'
  <2> SUFFICES ASSUME faults' = 0, crashes' = 0, NEW t \in Task, Quiet(t)'
               PROVE  /\ row[t].status = "FAILURE" => paid[t] = 0
                      /\ row[t].status = "SUCCESS" => paid[t] \in Quotas
    BY DEF FailedIsRefunded
  <2>1. Quiet(t)
    BY <1>1 DEF Quiet, Billing
  <2> QED
    BY <2>1 DEF PaidInv, FailedIsRefunded
<1> QED
  BY <1>1, <1>2, <1>3 DEF PaidInv

(* The update of p takes task t from an unfinished status to another.      *)
LEMMA Wins ==
    ASSUME TypeOK, WorkInv, BillInv, PaidInv, NEW p \in Poller, NEW t \in Task,
           NEW to \in {"IN_PROGRESS"} \cup Terminal,
           row[t].status \in Open, row'[t].status = to,
           \A u \in Task : row'[u].quota = row[u].quota,
           \A u \in Task : u # t => row'[u] = row[u],
           UNCHANGED <<paid, billed, faults, crashes>>,
           \A q \in Poller : q # p => poll'[q] = poll[q],
           poll[p].pc \in {"sweep", "answered"},
           to \in Terminal => poll'[p].task = t,
           poll'[p].pc = "settle" <=> to = "SUCCESS",
           poll'[p].pc = "refund" <=> to = "FAILURE"
    PROVE  BillInv' /\ PaidInv'
<1>1. ~Billing(p) /\ (Billing(p)' <=> to \in Terminal)
  BY DEF Billing, Terminal
<1>2. \A q \in Poller : Billing(q) => poll[q].task # t /\ poll[q].task \in Task
  BY DEF BillInv, Open, WorkInv, Billing
<1>3. \A q \in Poller : q # p => (Billing(q)' <=> Billing(q))
  BY DEF Billing
<1>4. billed[t] = 0
  BY DEF BillInv, Open, Terminal
<1>5. \A u \in Task : row'[u].status \notin Terminal => billed'[u] = 0
  BY <1>4 DEF BillInv
<1>6. \A q \in Poller : Billing(q)' =>
         /\ billed'[poll'[q].task] = 0
         /\ row'[poll'[q].task].status = IF poll'[q].pc = "refund" THEN "FAILURE" ELSE "SUCCESS"
  <2> SUFFICES ASSUME NEW q \in Poller, Billing(q)'
               PROVE  /\ billed'[poll'[q].task] = 0
                      /\ row'[poll'[q].task].status =
                           IF poll'[q].pc = "refund" THEN "FAILURE" ELSE "SUCCESS"
    OBVIOUS
  <2>1. CASE q = p
    BY <1>1, <1>4, <2>1 DEF Terminal
  <2>2. CASE q # p
    <3>1. /\ Billing(q) /\ poll'[q] = poll[q]
          /\ poll[q].task # t /\ poll[q].task \in Task
      BY <1>2, <1>3, <2>2
    <3> QED
      BY <3>1 DEF BillInv
  <2> QED
    BY <2>1, <2>2
<1>7. ASSUME NEW q \in Poller, NEW r \in Poller, Billing(q)', Billing(r)',
             poll'[q].task = poll'[r].task
      PROVE  q = r
  BY <1>1, <1>2, <1>3, <1>7 DEF BillInv
<1>8. BillInv'
  BY <1>5, <1>6, <1>7 DEF BillInv, BilledOnce
<1>9. faults' = 0 =>
         /\ \A u \in Task : row'[u].status \in Open =>
              paid'[u] = row'[u].quota /\ row'[u].quota \in Quotas
         /\ \A q \in Poller : Billing(q)' =>
              /\ paid'[poll'[q].task] = row'[poll'[q].task].quota
              /\ row'[poll'[q].task].quota \in Quotas
  <2>1. ASSUME faults' = 0, NEW u \in Task, row'[u].status \in Open
        PROVE  paid'[u] = row'[u].quota /\ row'[u].quota \in Quotas
    BY <2>1 DEF PaidInv
  <2>2. ASSUME faults' = 0, NEW q \in Poller, Billing(q)'
        PROVE  /\ paid'[poll'[q].task] = row'[poll'[q].task].quota
               /\ row'[poll'[q].task].quota \in Quotas
    <3>1. CASE q = p
      BY <1>1, <2>2, <3>1 DEF PaidInv
    <3>2. CASE q # p
      <4>1. Billing(q) /\ poll'[q] = poll[q] /\ poll[q].task \in Task
        BY <1>2, <1>3, <2>2, <3>2
      <4> QED
        BY <2>2, <4>1 DEF PaidInv
    <3> QED
      BY <3>1, <3>2
  <2> QED
    BY <2>1, <2>2
<1>10. FailedIsRefunded'
  <2> SUFFICES ASSUME faults' = 0, crashes' = 0, NEW u \in Task, Quiet(u)'
               PROVE  /\ row'[u].status = "FAILURE" => paid'[u] = 0
                      /\ row'[u].status = "SUCCESS" => paid'[u] \in Quotas
    BY DEF FailedIsRefunded
  <2>1. CASE u = t
    BY <1>1, <2>1 DEF Quiet, Billing, Terminal
  <2>2. CASE u # t
    <3>1. Quiet(u)
      BY DEF Quiet
    <3> QED
      BY <2>2, <3>1 DEF PaidInv, FailedIsRefunded
  <2> QED
    BY <2>1, <2>2
<1> QED
  BY <1>8, <1>9, <1>10 DEF PaidInv

(* p bills the task that it has ended, and goes on.                        *)
LEMMA Bills ==
    ASSUME TypeOK, WorkInv, BillInv, PaidInv, NEW p \in Poller, Billing(p),
           NEW delta \in Int, Bill(poll[p].task, delta),
           faults = 0 => \/ /\ poll[p].pc = "refund"
                            /\ delta = -row[poll[p].task].quota
                         \/ /\ poll[p].pc = "settle"
                            /\ row[poll[p].task].quota + delta \in Quotas,
           UNCHANGED <<row, faults, crashes>>,
           \A q \in Poller : q # p => poll'[q] = poll[q],
           poll'[p].pc \in {"poll", "sweep"}
    PROVE  BillInv' /\ PaidInv'
<1>1. PICK t \in Task : t = poll[p].task
  BY DEF WorkInv, Billing
<1>2. /\ paid'[t] = paid[t] + delta
      /\ billed'[t] = IF billed[t] = 2 THEN 2 ELSE billed[t] + 1
      /\ \A u \in Task : u # t => paid'[u] = paid[u] /\ billed'[u] = billed[u]
  BY <1>1, BillUpdate
<1>3. /\ billed[t] = 0
      /\ row[t].status = IF poll[p].pc = "refund" THEN "FAILURE" ELSE "SUCCESS"
  BY <1>1 DEF BillInv
<1>4. billed'[t] = 1 /\ row[t].status \in Terminal /\ row[t].status \notin Open
  BY <1>2, <1>3 DEF Terminal, Open
<1>5. ~Billing(p)'
  BY DEF Billing
<1>6. \A q \in Poller : Billing(q)' =>
        /\ Billing(q) /\ poll'[q] = poll[q] /\ poll[q].task # t /\ poll[q].task \in Task
  <2> SUFFICES ASSUME NEW q \in Poller, Billing(q)'
               PROVE  /\ Billing(q) /\ poll'[q] = poll[q]
                      /\ poll[q].task # t /\ poll[q].task \in Task
    OBVIOUS
  <2>1. q # p /\ poll'[q] = poll[q]
    BY <1>5
  <2>2. Billing(q)
    BY <2>1 DEF Billing
  <2>3. poll[q].task # t
    BY <1>1, <2>1, <2>2 DEF BillInv
  <2>4. poll[q].task \in Task
    BY <2>2 DEF WorkInv, Billing
  <2> QED
    BY <2>1, <2>2, <2>3, <2>4
<1>7. BillInv'
  <2>1. \A u \in Task : row'[u].status \notin Terminal => billed'[u] = 0
    BY <1>2, <1>4 DEF BillInv
  <2>2. ASSUME NEW q \in Poller, Billing(q)'
        PROVE  /\ billed'[poll'[q].task] = 0
               /\ row'[poll'[q].task].status =
                    IF poll'[q].pc = "refund" THEN "FAILURE" ELSE "SUCCESS"
    BY <1>2, <1>6, <2>2 DEF BillInv
  <2>3. ASSUME NEW q \in Poller, NEW r \in Poller, Billing(q)', Billing(r)',
               poll'[q].task = poll'[r].task
        PROVE  q = r
    BY <1>6, <2>3 DEF BillInv
  <2>4. BilledOnce'
    BY <1>2, <1>4 DEF BillInv, BilledOnce
  <2> QED
    BY <2>1, <2>2, <2>3, <2>4 DEF BillInv
<1>8. ASSUME faults' = 0, NEW u \in Task, row'[u].status \in Open
      PROVE  paid'[u] = row'[u].quota /\ row'[u].quota \in Quotas
  BY <1>2, <1>4, <1>8 DEF PaidInv
<1>9. ASSUME faults' = 0, NEW q \in Poller, Billing(q)'
      PROVE  /\ paid'[poll'[q].task] = row'[poll'[q].task].quota
             /\ row'[poll'[q].task].quota \in Quotas
  BY <1>2, <1>6, <1>9 DEF PaidInv
<1>10. FailedIsRefunded'
  <2> SUFFICES ASSUME faults' = 0, crashes' = 0, NEW u \in Task, Quiet(u)'
               PROVE  /\ row'[u].status = "FAILURE" => paid'[u] = 0
                      /\ row'[u].status = "SUCCESS" => paid'[u] \in Quotas
    BY DEF FailedIsRefunded
  <2>1. CASE u = t
    <3>1. paid[t] = row[t].quota
      BY <1>1 DEF PaidInv
    <3>2. row[t].quota \in Int /\ paid[t] \in Int
      BY DEF TypeOK
    <3>3. CASE poll[p].pc = "refund"
      <4>1. delta = -row[t].quota /\ row'[t].status = "FAILURE"
        BY <1>1, <1>3, <3>3
      <4> QED
        BY <1>2, <2>1, <3>1, <3>2, <4>1
    <3>4. CASE poll[p].pc = "settle"
      <4>1. row[t].quota + delta \in Quotas /\ row'[t].status = "SUCCESS"
        BY <1>1, <1>3, <3>4
      <4> QED
        BY <1>2, <2>1, <3>1, <4>1
    <3> QED
      BY <3>3, <3>4 DEF Billing
  <2>2. CASE u # t
    <3>1. Quiet(u)
      BY <1>1, <2>2 DEF Quiet
    <3> QED
      BY <1>2, <2>2, <3>1 DEF PaidInv, FailedIsRefunded
  <2> QED
    BY <2>1, <2>2
<1> QED
  BY <1>7, <1>8, <1>9, <1>10 DEF PaidInv

(* A task is submitted.                                                    *)
LEMMA RelayTaskBilling ==
    ASSUME TypeOK, WorkInv, BillInv, PaidInv, NEW t \in Task, RelayTask(t)
    PROVE  BillInv' /\ PaidInv'
<1>1. row[t].status = "none" /\ UNCHANGED <<billed, poll, crashes>>
  BY DEF RelayTask
<1>2. billed[t] = 0
  BY <1>1 DEF BillInv, Terminal
<1>3. PICK quota \in Quotas :
        /\ row' = row \/ row' = [row EXCEPT ![t] = [status |-> "NOT_START", full |-> FALSE, quota |-> quota]]
        /\ \E x : paid' = [paid EXCEPT ![t] = x]
        /\ faults' = 0 =>
             /\ faults = 0
             /\ row' = [row EXCEPT ![t] = [status |-> "NOT_START", full |-> FALSE, quota |-> quota]]
             /\ paid' = [paid EXCEPT ![t] = quota]
  <2>1. PICK pre, quota \in Quotas :
          \/ /\ paid' = [paid EXCEPT ![t] = quota]
             /\ row' = [row EXCEPT ![t] = [status |-> "NOT_START", full |-> FALSE, quota |-> quota]]
             /\ faults' = faults
          \/ /\ faults' = faults + 1
             /\ \/ /\ paid' = [paid EXCEPT ![t] = pre]
                   /\ row' = [row EXCEPT ![t] = [status |-> "NOT_START", full |-> FALSE, quota |-> quota]]
                \/ paid' = [paid EXCEPT ![t] = quota] /\ row' = row
    BY DEF RelayTask
  <2>2. faults + 1 # 0
    BY DEF TypeOK
  <2> QED
    BY <2>1, <2>2
<1>4. /\ \A u \in Task : u # t => row'[u] = row[u] /\ paid'[u] = paid[u]
      /\ row'[t].status \in {"none", "NOT_START"}
  BY <1>1, <1>3 DEF TypeOK
<1>5. \A q \in Poller : Billing(q) => poll[q].task # t /\ poll[q].task \in Task
  BY <1>1 DEF BillInv, WorkInv, Billing
<1>6. \A q \in Poller : Billing(q)' <=> Billing(q)
  BY <1>1 DEF Billing
<1>7. BillInv'
  <2>1. \A u \in Task : row'[u].status \notin Terminal => billed'[u] = 0
    BY <1>1, <1>2, <1>4 DEF BillInv
  <2>2. ASSUME NEW q \in Poller, Billing(q)'
        PROVE  /\ billed'[poll'[q].task] = 0
               /\ row'[poll'[q].task].status =
                    IF poll'[q].pc = "refund" THEN "FAILURE" ELSE "SUCCESS"
    BY <1>1, <1>4, <1>5, <1>6, <2>2 DEF BillInv
  <2>3. ASSUME NEW q \in Poller, NEW r \in Poller, Billing(q)', Billing(r)',
               poll'[q].task = poll'[r].task
        PROVE  q = r
    BY <1>1, <1>6, <2>3 DEF BillInv
  <2>4. BilledOnce'
    BY <1>1 DEF BillInv, BilledOnce
  <2> QED
    BY <2>1, <2>2, <2>3, <2>4 DEF BillInv
<1>8. ASSUME faults' = 0, NEW u \in Task, row'[u].status \in Open
      PROVE  paid'[u] = row'[u].quota /\ row'[u].quota \in Quotas
  <2>1. CASE u = t
    BY <1>3, <1>8, <2>1 DEF TypeOK
  <2>2. CASE u # t
    BY <1>3, <1>4, <1>8, <2>2 DEF PaidInv
  <2> QED
    BY <2>1, <2>2
<1>9. ASSUME faults' = 0, NEW q \in Poller, Billing(q)'
      PROVE  /\ paid'[poll'[q].task] = row'[poll'[q].task].quota
             /\ row'[poll'[q].task].quota \in Quotas
  BY <1>1, <1>3, <1>4, <1>5, <1>6, <1>9 DEF PaidInv
<1>10. FailedIsRefunded'
  <2> SUFFICES ASSUME faults' = 0, crashes' = 0, NEW u \in Task, Quiet(u)'
               PROVE  /\ row'[u].status = "FAILURE" => paid'[u] = 0
                      /\ row'[u].status = "SUCCESS" => paid'[u] \in Quotas
    BY DEF FailedIsRefunded
  <2>1. CASE u = t
    BY <1>4, <2>1
  <2>2. CASE u # t
    <3>1. Quiet(u)
      BY <1>1 DEF Quiet
    <3> QED
      BY <1>1, <1>3, <1>4, <2>2, <3>1 DEF PaidInv, FailedIsRefunded
  <2> QED
    BY <2>1, <2>2
<1> QED
  BY <1>7, <1>8, <1>9, <1>10 DEF PaidInv

-----------------------------------------------------------------------------
(* The invariant, and the steps that keep it.                              *)
VideoInv == TypeOK /\ WorkInv /\ CopyInv /\ BillInv /\ PaidInv

(* Only pc changes, and the loop does not begin to bill.                   *)
LEMMA GoesCopy ==
    ASSUME CopyInv, NEW p \in Poller, NEW pc, Goes(p, pc), UNCHANGED fetch,
           pc \notin {"answered", "save"}
    PROVE  CopyInv'
<1>1. CopyOK(poll[p].list, pc, poll[p].seen, poll[p].ans, poll[p].back)
  BY DEF CopyInv, CopyOK
<1> QED
  BY <1>1, CopyStep DEF Goes

(* A copy leaves the list.                                                 *)
LEMMA StrikeCopy ==
    ASSUME CopyInv, NEW p \in Poller, NEW c, Lists(p, poll[p].list \ {c}), UNCHANGED fetch
    PROVE  CopyInv'
<1>1. CopyOK(poll[p].list \ {c}, poll[p].pc, poll[p].seen, poll[p].ans, poll[p].back)
  BY DEF CopyInv, CopyOK
<1> QED
  BY <1>1, CopyStep DEF Lists

LEMMA SweepKeeps ==
    ASSUME VideoInv, NEW p \in Poller, SweepTask(p)
    PROVE  CopyInv' /\ BillInv' /\ PaidInv'
<1>1. PICK c \in poll[p].list :
        /\ poll[p].pc = "sweep"
        /\ c \in Copy
        /\ UpdateWithStatus(c[1], c[2], "FAILURE", TRUE)
        /\ \/ /\ Won(c[1], c[2])
              /\ Becomes(p, "refund", poll[p].list \ {c}, c[1], poll[p].seen, poll[p].ans, "sweep")
           \/ /\ ~Won(c[1], c[2])
              /\ Lists(p, poll[p].list \ {c})
  BY SweepTaskPoll DEF VideoInv
<1>2. UNCHANGED <<paid, billed, fetch, faults, crashes>>
  BY DEF SweepTask
<1>3. c[1] \in Task /\ c[2] \in Open /\ "FAILURE" \in Status
  BY <1>1 DEF VideoInv, CopyInv, Copy, Status, Terminal
<1>4. CASE Won(c[1], c[2])
  <2>1. Becomes(p, "refund", poll[p].list \ {c}, c[1], poll[p].seen, poll[p].ans, "sweep")
    BY <1>1, <1>4
  <2>2. CopyOK(poll[p].list \ {c}, "refund", poll[p].seen, poll[p].ans, "sweep")
    BY DEF VideoInv, CopyInv, CopyOK
  <2>3. CopyInv'
    BY <1>2, <2>1, <2>2, CopyStep DEF VideoInv
  <2>4. /\ row[c[1]].status \in Open /\ row'[c[1]].status = "FAILURE"
        /\ \A u \in Task : row'[u].quota = row[u].quota
        /\ \A u \in Task : u # c[1] => row'[u] = row[u]
    <3>1. row[c[1]].status = c[2]
      BY <1>4 DEF Won
    <3>2. /\ \A u \in Task : u # c[1] => row'[u] = row[u]
          /\ \A u \in Task : row'[u].quota = row[u].quota
          /\ row'[c[1]].status = IF Won(c[1], c[2]) THEN "FAILURE" ELSE row[c[1]].status
      BY <1>1, <1>3, RowUpdate DEF VideoInv
    <3> QED
      BY <1>3, <1>4, <3>1, <3>2
  <2>5. /\ \A q \in Poller : q # p => poll'[q] = poll[q]
        /\ poll'[p].task = c[1] /\ poll'[p].pc = "refund"
    BY <2>1 DEF Becomes
  <2>6. "FAILURE" \in {"IN_PROGRESS"} \cup Terminal
    BY DEF Terminal
  <2>7. BillInv' /\ PaidInv'
    BY <1>1, <1>2, <1>3, <2>4, <2>5, <2>6, Wins DEF VideoInv
  <2> QED
    BY <2>3, <2>7
<1>5. CASE ~Won(c[1], c[2])
  <2>1. Lists(p, poll[p].list \ {c})
    BY <1>1, <1>5
  <2>2. CopyInv'
    BY <1>2, <2>1, StrikeCopy DEF VideoInv
  <2>3. row' = row
    BY <1>1, <1>3, <1>5, RowUpdate DEF VideoInv
  <2>4. /\ \A q \in Poller : q # p => poll'[q] = poll[q]
        /\ poll'[p].pc = "sweep"
    BY <1>1, <2>1 DEF Lists, Becomes
  <2>5. BillInv' /\ PaidInv'
    BY <1>1, <1>2, <2>3, <2>4, GoesOn DEF VideoInv, Billing
  <2> QED
    BY <2>2, <2>5
<1> QED
  BY <1>4, <1>5

LEMMA UpdateVideoKeeps ==
    ASSUME VideoInv, NEW p \in Poller, UpdateVideoTask(p)
    PROVE  CopyInv' /\ BillInv' /\ PaidInv'
<1>1. PICK pc \in {"poll", "settle", "refund"} :
        /\ Becomes(p, pc, poll[p].list, poll[p].task, poll[p].seen, poll[p].ans, "poll")
        /\ pc = "settle" <=> Won(poll[p].task, poll[p].seen) /\ poll[p].ans = "SUCCESS"
        /\ pc = "refund" <=> Won(poll[p].task, poll[p].seen) /\ poll[p].ans = "FAILURE"
  BY UpdateVideoPoll DEF VideoInv
<1>2. /\ poll[p].pc = "answered"
      /\ UpdateWithStatus(poll[p].task, poll[p].seen, poll[p].ans, Full(p))
      /\ UNCHANGED <<paid, billed, fetch, faults, crashes>>
  BY DEF UpdateVideoTask
<1>3. /\ poll[p].task \in Task /\ poll[p].ans \in Status
      /\ poll[p].seen \in Open /\ poll[p].ans \in {"IN_PROGRESS"} \cup Terminal
  BY <1>2, PollFields DEF VideoInv, WorkInv, CopyInv
<1>4. CopyInv'
  <2>1. CopyOK(poll[p].list, pc, poll[p].seen, poll[p].ans, "poll")
    BY DEF VideoInv, CopyInv, CopyOK
  <2> QED
    BY <1>1, <1>2, <2>1, CopyStep DEF VideoInv
<1>5. /\ \A q \in Poller : q # p => poll'[q] = poll[q]
      /\ poll'[p].task = poll[p].task /\ poll'[p].pc = pc
  BY <1>1 DEF Becomes
<1>6. CASE Won(poll[p].task, poll[p].seen)
  <2>1. row[poll[p].task].status \in Open
    BY <1>3, <1>6 DEF Won
  <2>2. /\ \A u \in Task : u # poll[p].task => row'[u] = row[u]
        /\ \A u \in Task : row'[u].quota = row[u].quota
        /\ row'[poll[p].task].status = poll[p].ans
    BY <1>2, <1>3, <1>6, FullType, RowUpdate DEF VideoInv
  <2>3. /\ poll'[p].pc = "settle" <=> poll[p].ans = "SUCCESS"
        /\ poll'[p].pc = "refund" <=> poll[p].ans = "FAILURE"
    BY <1>1, <1>5, <1>6
  <2>4. BillInv' /\ PaidInv'
    BY <1>2, <1>3, <1>5, <2>1, <2>2, <2>3, Wins DEF VideoInv
  <2> QED
    BY <1>4, <2>4
<1>7. CASE ~Won(poll[p].task, poll[p].seen)
  <2>1. row' = row
    BY <1>2, <1>3, <1>7, FullType, RowUpdate DEF VideoInv
  <2>2. poll'[p].pc = "poll"
    BY <1>1, <1>5, <1>7
  <2>3. BillInv' /\ PaidInv'
    BY <1>2, <1>5, <2>1, <2>2, GoesOn DEF VideoInv, Billing
  <2> QED
    BY <1>4, <2>3
<1> QED
  BY <1>6, <1>7

LEMMA RefundKeeps ==
    ASSUME VideoInv, NEW p \in Poller, RefundTaskQuota(p)
    PROVE  CopyInv' /\ BillInv' /\ PaidInv'
<1>1. /\ poll[p].pc = "refund" /\ Bill(poll[p].task, -row[poll[p].task].quota)
      /\ poll' = [poll EXCEPT ![p].pc = poll[p].back]
      /\ UNCHANGED <<row, fetch, faults, crashes>>
  BY DEF RefundTaskQuota
<1>2. poll[p].task \in Task /\ poll[p].back \in {"poll", "sweep"}
  BY <1>1, PollFields DEF VideoInv, WorkInv, CopyInv, Back
<1>3. Goes(p, poll[p].back)
  BY <1>1, <1>2, PcUpdate DEF VideoInv, PollerPC
<1>4. CopyInv'
  BY <1>1, <1>2, <1>3, GoesCopy DEF VideoInv
<1>5. /\ \A q \in Poller : q # p => poll'[q] = poll[q]
      /\ poll'[p].pc \in {"poll", "sweep"}
  BY <1>2, <1>3 DEF Goes, Becomes
<1>6. -row[poll[p].task].quota \in Int
  BY <1>2 DEF VideoInv, TypeOK
<1>7. Billing(p)
  BY <1>1 DEF Billing
<1>8. BillInv' /\ PaidInv'
  BY <1>1, <1>5, <1>6, <1>7, Bills DEF VideoInv
<1> QED
  BY <1>4, <1>8

LEMMA SettleKeeps ==
    ASSUME VideoInv, NEW p \in Poller, SettleTaskBilling(p)
    PROVE  CopyInv' /\ BillInv' /\ PaidInv'
<1>1. /\ poll[p].pc = "settle" /\ poll' = [poll EXCEPT ![p].pc = "poll"]
      /\ UNCHANGED <<row, fetch, faults, crashes>>
  BY DEF SettleTaskBilling
<1>2. PICK actual \in Quotas \cup {row[poll[p].task].quota} :
        Bill(poll[p].task, actual - row[poll[p].task].quota)
  BY DEF SettleTaskBilling
<1>3. Goes(p, "poll")
  BY <1>1, PcUpdate DEF VideoInv, PollerPC
<1>4. CopyInv'
  BY <1>1, <1>3, GoesCopy DEF VideoInv
<1>5. /\ \A q \in Poller : q # p => poll'[q] = poll[q]
      /\ poll'[p].pc = "poll"
  BY <1>3 DEF Goes, Becomes
<1>6. Billing(p) /\ poll[p].task \in Task
  BY <1>1 DEF Billing, VideoInv, WorkInv
<1>7. row[poll[p].task].quota \in Int /\ actual \in Int
  BY <1>6, ConstantsAssumption DEF VideoInv, TypeOK
<1>8. PICK delta \in Int : delta = actual - row[poll[p].task].quota
  BY <1>7
<1>9. faults = 0 => row[poll[p].task].quota + delta \in Quotas
  <2>1. row[poll[p].task].quota + delta = actual
    BY <1>7, <1>8
  <2>2. faults = 0 => row[poll[p].task].quota \in Quotas
    BY <1>6 DEF VideoInv, PaidInv
  <2> QED
    BY <1>2, <2>1, <2>2
<1>10. Bill(poll[p].task, delta)
  BY <1>2, <1>8
<1>11. BillInv' /\ PaidInv'
  BY <1>1, <1>5, <1>6, <1>9, <1>10, Bills DEF VideoInv
<1> QED
  BY <1>4, <1>11

(* The steps of a loop that neither write a row nor bill.                  *)
LEMMA ListKeeps ==
    ASSUME VideoInv, NEW p \in Poller, NEW pc \in {"idle", "sweep", "poll"}, NEW l,
           Becomes(p, pc, l, NoTask, "none", "none", "poll"),
           \A c \in l : c[2] \in Open,
           UNCHANGED <<row, paid, billed, fetch>>,
           faults' = faults,
           \/ crashes' = crashes /\ ~Billing(p)
           \/ crashes' = crashes + 1
    PROVE  CopyInv' /\ BillInv' /\ PaidInv'
<1>1. CopyOK(l, pc, "none", "none", "poll")
  BY DEF CopyOK
<1>2. CopyInv'
  BY <1>1, CopyStep DEF VideoInv
<1>3. /\ \A q \in Poller : q # p => poll'[q] = poll[q]
      /\ poll'[p].pc = pc
  BY DEF Becomes
<1>4. crashes \in Nat /\ poll[p].pc # "save"
  BY DEF VideoInv, TypeOK, CopyInv
<1>5. ~Billing(p)' /\ (crashes' = 0 => crashes = 0 /\ ~Billing(p))
  BY <1>3, <1>4 DEF Billing
<1>6. BillInv' /\ PaidInv'
  BY <1>3, <1>4, <1>5, GoesOn DEF VideoInv
<1> QED
  BY <1>2, <1>6

LEMMA StrikeKeeps ==
    ASSUME VideoInv, NEW p \in Poller, Strikes(p), poll[p].pc \in {"sweep", "poll"},
           UNCHANGED <<row, paid, billed, fetch, crashes>>,
           faults' = 0 => faults = 0
    PROVE  CopyInv' /\ BillInv' /\ PaidInv'
<1>1. PICK c \in poll[p].list : Lists(p, poll[p].list \ {c})
  BY DEF Strikes
<1>2. CopyInv'
  BY <1>1, StrikeCopy DEF VideoInv
<1>3. /\ \A q \in Poller : q # p => poll'[q] = poll[q]
      /\ poll'[p].pc = poll[p].pc
  BY <1>1 DEF Lists, Becomes
<1>4. BillInv' /\ PaidInv'
  BY <1>3, GoesOn DEF VideoInv, Billing
<1> QED
  BY <1>2, <1>4

LEMMA FetchTaskKeeps ==
    ASSUME VideoInv, NEW p \in Poller, FetchTask(p)
    PROVE  CopyInv' /\ BillInv' /\ PaidInv'
<1>1. PICK c \in poll[p].list, s \in {"IN_PROGRESS"} \cup Terminal :
        Becomes(p, "answered", poll[p].list \ {c}, c[1], c[2], s, poll[p].back)
  BY FetchTaskPoll DEF VideoInv
<1>2. poll[p].pc = "poll" /\ UNCHANGED <<row, paid, billed, fetch, faults, crashes>>
  BY DEF FetchTask
<1>3. CopyOK(poll[p].list \ {c}, "answered", c[2], s, poll[p].back)
  BY DEF VideoInv, CopyInv, CopyOK
<1>4. CopyInv'
  BY <1>1, <1>2, <1>3, CopyStep DEF VideoInv
<1>5. /\ \A q \in Poller : q # p => poll'[q] = poll[q]
      /\ poll'[p].pc = "answered"
  BY <1>1 DEF Becomes
<1>6. BillInv' /\ PaidInv'
  BY <1>2, <1>5, GoesOn DEF VideoInv, Billing
<1> QED
  BY <1>4, <1>6

(* An error is logged, and the loop goes on without the update or the      *)
(* billing.                                                                *)
LEMMA ErrorKeeps ==
    ASSUME VideoInv, NEW p \in Poller, NEW pc \in {"poll", "sweep"},
           poll' = [poll EXCEPT ![p].pc = pc],
           UNCHANGED <<row, paid, billed, fetch, crashes>>,
           faults' = faults + 1
    PROVE  CopyInv' /\ BillInv' /\ PaidInv'
<1>1. Goes(p, pc)
  BY PcUpdate DEF VideoInv, PollerPC
<1>2. CopyInv'
  BY <1>1, GoesCopy DEF VideoInv
<1>3. /\ \A q \in Poller : q # p => poll'[q] = poll[q]
      /\ poll'[p].pc = pc
  BY <1>1 DEF Goes, Becomes
<1>4. faults' # 0 /\ poll[p].pc # "save" /\ ~Billing(p)'
  BY <1>3 DEF VideoInv, TypeOK, CopyInv, Billing
<1>5. BillInv' /\ PaidInv'
  BY <1>3, <1>4, GoesOn DEF VideoInv
<1> QED
  BY <1>2, <1>5

LEMMA UnchangedKeeps ==
    ASSUME VideoInv, NEW p \in Poller, TaskUnchanged(p)
    PROVE  CopyInv' /\ BillInv' /\ PaidInv'
<1>1. /\ poll[p].pc = "answered" /\ poll' = [poll EXCEPT ![p].pc = "poll"]
      /\ UNCHANGED <<row, paid, billed, fetch, faults, crashes>>
  BY DEF TaskUnchanged
<1>2. Goes(p, "poll")
  BY <1>1, PcUpdate DEF VideoInv, PollerPC
<1>3. CopyInv'
  BY <1>1, <1>2, GoesCopy DEF VideoInv
<1>4. /\ \A q \in Poller : q # p => poll'[q] = poll[q]
      /\ poll'[p].pc = "poll"
  BY <1>2 DEF Goes, Becomes
<1>5. ~Billing(p) /\ ~Billing(p)'
  BY <1>1, <1>4 DEF Billing
<1>6. BillInv' /\ PaidInv'
  BY <1>1, <1>4, <1>5, GoesOn DEF VideoInv
<1> QED
  BY <1>3, <1>6

LEMMA PollerStepKeeps ==
    ASSUME VideoOnly, VideoInv, NEW p \in Poller, PollerStep(p)
    PROVE  CopyInv' /\ BillInv' /\ PaidInv'
<1>1. CASE ListTimedOut(p)
  <2>1. PICK l \in SUBSET Copy : /\ Becomes(p, "sweep", l, NoTask, "none", "none", "poll")
                                 /\ \A c \in l : c[2] \in Open
    BY <1>1, ListTimedOutPoll DEF VideoInv
  <2>2. ~Billing(p) /\ UNCHANGED <<row, paid, billed, fetch, faults, crashes>>
    BY <1>1 DEF ListTimedOut, Billing
  <2> QED
    BY <2>1, <2>2, ListKeeps
<1>2. CASE ListUnfinished(p)
  <2>1. PICK l \in SUBSET Copy : /\ Becomes(p, "poll", l, NoTask, "none", "none", "poll")
                                 /\ \A c \in l : c[2] \in Open
    BY <1>2, ListUnfinishedPoll DEF VideoInv
  <2>2. ~Billing(p) /\ UNCHANGED <<row, paid, billed, fetch, faults, crashes>>
    BY <1>2 DEF ListUnfinished, Billing
  <2> QED
    BY <2>1, <2>2, ListKeeps
<1>3. CASE FetchFails(p)
  BY <1>3, StrikePoll, StrikeKeeps DEF FetchFails, VideoInv
<1>4. CASE RoundEnds(p)
  <2>1. Becomes(p, "idle", {}, NoTask, "none", "none", "poll")
    BY <1>4, IdleUpdate DEF RoundEnds, VideoInv
  <2>2. ~Billing(p) /\ UNCHANGED <<row, paid, billed, fetch, faults, crashes>>
    BY <1>4 DEF RoundEnds, Billing
  <2> QED
    BY <2>1, <2>2, ListKeeps
<1>5. CASE UpdateFails(p)
  <2>1. /\ faults' = faults + 1 /\ faults' # 0
        /\ UNCHANGED <<row, paid, billed, fetch, crashes>>
    BY <1>5 DEF UpdateFails, VideoInv, TypeOK
  <2>2. CASE /\ poll[p].pc = "sweep"
             /\ \E c \in poll[p].list : poll' = [poll EXCEPT ![p].list = @ \ {c}]
    BY <2>1, <2>2, StrikePoll, StrikeKeeps DEF VideoInv
  <2>3. CASE poll' = [poll EXCEPT ![p].pc = "poll"]
    BY <2>1, <2>3, ErrorKeeps
  <2> QED
    BY <1>5, <2>2, <2>3 DEF UpdateFails
<1>6. CASE BillingFails(p)
  <2>1. PICK pc \in {"poll", "sweep"} : poll' = [poll EXCEPT ![p].pc = pc]
    BY <1>6, PollFields DEF BillingFails, VideoInv, CopyInv, Back
  <2>2. faults' = faults + 1 /\ UNCHANGED <<row, paid, billed, fetch, crashes>>
    BY <1>6 DEF BillingFails
  <2> QED
    BY <2>1, <2>2, ErrorKeeps
<1>7. CASE TaskUnchanged(p)
  BY <1>7, UnchangedKeeps
<1>8. ~ChannelVanished(p) /\ ~UpdateSunoTask(p) /\ ~SaveSunoTask(p)
  BY DEF VideoOnly, ChannelVanished, UpdateSunoTask, SaveSunoTask, VideoInv, CopyInv
<1> QED
  BY <1>1, <1>2, <1>3, <1>4, <1>5, <1>6, <1>7, <1>8, SweepKeeps, FetchTaskKeeps, UpdateVideoKeeps,
     RefundKeeps, SettleKeeps DEF PollerStep

LEMMA VideoInit == Init => VideoInv
<1> SUFFICES ASSUME Init PROVE VideoInv
  OBVIOUS
<1>1. Idle.pc = "idle" /\ Idle.list = {} /\ Idle.back = "poll"
  BY DEF Idle
<1>2. CopyInv
  BY <1>1 DEF Init, CopyInv
<1>3. BillInv
  BY <1>1 DEF Init, BillInv, BilledOnce, Billing
<1>4. PaidInv
  BY <1>1 DEF Init, PaidInv, FailedIsRefunded, Billing, Open
<1> QED
  BY <1>2, <1>3, <1>4, InitTypes DEF VideoInv

(* The world outside moves on.                                             *)
LEMMA OutsideKeeps ==
    ASSUME VideoInv, UNCHANGED <<row, paid, billed, poll, fetch, faults, crashes>>
    PROVE  CopyInv' /\ BillInv' /\ PaidInv'
<1>1. CopyInv'
  BY DEF VideoInv, CopyInv
<1>2. BillInv'
  BY DEF VideoInv, BillInv, BilledOnce, Billing
<1>3. PaidInv'
  BY DEF VideoInv, PaidInv, FailedIsRefunded, Quiet, Billing
<1> QED
  BY <1>1, <1>2, <1>3

LEMMA VideoNext == VideoOnly /\ VideoInv /\ [Next]_vars => VideoInv'
<1> SUFFICES ASSUME VideoOnly, VideoInv, [Next]_vars PROVE VideoInv'
  OBVIOUS
<1>0. TypeOK' /\ WorkInv'
  BY NextTypes DEF VideoInv
<1> SUFFICES CopyInv' /\ BillInv' /\ PaidInv'
  BY <1>0 DEF VideoInv
<1>1. ASSUME NEW t \in Task, RelayTask(t) PROVE CopyInv' /\ BillInv' /\ PaidInv'
  <2>1. CopyInv'
    BY <1>1 DEF RelayTask, VideoInv, CopyInv
  <2> QED
    BY <1>1, <2>1, RelayTaskBilling DEF VideoInv
<1>2. ASSUME NEW t \in Task, UpstreamEnds(t) PROVE CopyInv' /\ BillInv' /\ PaidInv'
  BY <1>2, OutsideKeeps DEF UpstreamEnds
<1>3. ASSUME NEW t \in Task, TimesOut(t) PROVE CopyInv' /\ BillInv' /\ PaidInv'
  BY <1>3, OutsideKeeps DEF TimesOut
<1>4. ASSUME NEW p \in Poller, PollerStep(p) PROVE CopyInv' /\ BillInv' /\ PaidInv'
  BY <1>4, PollerStepKeeps
<1>5. ASSUME NEW p \in Poller, Crash(p) PROVE CopyInv' /\ BillInv' /\ PaidInv'
  <2>1. Becomes(p, "idle", {}, NoTask, "none", "none", "poll")
    BY <1>5, IdleUpdate DEF Crash, VideoInv
  <2>2. crashes' = crashes + 1 /\ UNCHANGED <<row, paid, billed, fetch, faults>>
    BY <1>5 DEF Crash
  <2> QED
    BY <2>1, <2>2, ListKeeps
<1>6. ASSUME NEW f \in Fetcher PROVE ~FetchUpdate(f)
  BY DEF FetchUpdate, VideoInv, CopyInv
<1>7. ASSUME NEW f \in Fetcher, NEW t \in Task PROVE ~FetchRead(f, t)
  BY DEF FetchRead, VideoOnly
<1>8. CASE UNCHANGED vars
  BY <1>8, OutsideKeeps DEF vars
<1> QED
  BY <1>1, <1>2, <1>3, <1>4, <1>5, <1>6, <1>7, <1>8 DEF Next

LEMMA VideoSafety == ASSUME VideoOnly PROVE Spec => []VideoInv
<1>1. Init => VideoInv
  BY VideoInit
<1>2. VideoInv /\ [Next]_vars => VideoInv'
  BY VideoNext
<1> QED
  BY <1>1, <1>2, PTL DEF Spec

(* However many processes poll, crash and fail, the end of a video task is *)
(* billed (RefundTaskQuota, settleTaskBillingOnComplete) at most once.     *)
THEOREM TasksBilledOnce == ASSUME VideoOnly PROVE Spec => []BilledOnce
<1>1. VideoInv => BilledOnce
  BY DEF VideoInv, BillInv
<1> QED
  BY <1>1, VideoSafety, PTL

(* As long as nothing fails, a failed video task has been refunded once    *)
(* its poller is done with it (RefundTaskQuota), and one that has          *)
(* succeeded costs a quota.                                                *)
THEOREM TasksFailedRefunded == ASSUME VideoOnly PROVE Spec => []FailedIsRefunded
<1>1. VideoInv => FailedIsRefunded
  BY DEF VideoInv, PaidInv
<1> QED
  BY <1>1, VideoSafety, PTL
=============================================================================
