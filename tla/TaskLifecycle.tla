---------------------------- MODULE TaskLifecycle ----------------------------
(***************************************************************************)
(* Asynchronous tasks (videos, Suno songs) from submission to the end, and *)
(* what the user pays for them: RelayTask inserts a task that has been     *)
(* charged, the polling loop of every master process times it out or takes *)
(* over what the upstream answers and then refunds or settles, and a       *)
(* user's fetch of a Gemini or Vertex task takes the answer over as well.  *)
(*                                                                         *)
(* A poller works on copies of the rows it listed.  Its writes are guarded *)
(* by the status it saw (UpdateWithStatus), except where the code saves    *)
(* the row (Suno) or updates in bulk (a channel that cannot be found).     *)
(***************************************************************************)
EXTENDS Integers, FiniteSets

CONSTANTS
    Task, NoTask,
    Suno,             \* the tasks of the Suno platform; the others are videos
    Realtime,         \* the tasks of Gemini and Vertex channels
    Poller,           \* the polling loops, one per master process
    Fetcher,          \* the users' fetch requests
    Quotas,           \* what a task can cost
    ChannelCanVanish, \* whether the channel of a listed task can be gone
    MaxFetches,       \* bound: fetch requests of users
    MaxFaults,        \* bound: database errors
    MaxCrashes        \* bound: crashes of a process

ASSUME ConstantsAssumption ==
    /\ NoTask \notin Task /\ Suno \subseteq Task /\ Realtime \subseteq Task \ Suno
    /\ Poller \cap Fetcher = {}
    /\ Quotas \subseteq Nat \ {0} /\ ChannelCanVanish \in BOOLEAN
    /\ MaxFetches \in Nat /\ MaxFaults \in Nat /\ MaxCrashes \in Nat

VARIABLES
    row,      \* the rows of tasks; full: the progress is "100%"
    up,       \* what the upstream would answer
    old,      \* whether the task was submitted longer than the timeout ago
    paid,     \* what the user has paid for the task, net of refunds
    billed,   \* how often the end of a task has been billed, 2 for more
    poll,     \* the polling loops
    fetch,    \* the fetch requests
    fetches, faults, crashes

vars == <<row, up, old, paid, billed, poll, fetch, fetches, faults, crashes>>

Terminal == {"SUCCESS", "FAILURE"}
\* IN_PROGRESS stands for SUBMITTED and QUEUED as well; "none": no row.
Status == {"none", "NOT_START", "IN_PROGRESS"} \cup Terminal

PollerPC == {"idle", "sweep", "poll", "answered", "refund", "settle", "save"}

\* The rows listed and not yet worked on, the row at hand (seen is the status it
\* had, ans the one it gets, odd says more of the answer, see FetchTask), and where
\* to go on after a refund.
PollType ==
    [pc : PollerPC, list : SUBSET (Task \X Status), task : Task \cup {NoTask},
     seen : Status, ans : Status, odd : BOOLEAN, back : {"sweep", "poll", "save"}]

Idle == [pc |-> "idle", list |-> {}, task |-> NoTask, seen |-> "none", ans |-> "none",
         odd |-> FALSE, back |-> "poll"]

NoFetch == [task |-> NoTask, seen |-> "none", ans |-> "none"]

TypeOK ==
    /\ row \in [Task -> [status : Status, full : BOOLEAN, quota : Nat]]
    /\ up \in [Task -> {"IN_PROGRESS"} \cup Terminal]
    /\ old \in [Task -> BOOLEAN]
    /\ paid \in [Task -> Int]
    /\ billed \in [Task -> 0..2]
    /\ poll \in [Poller -> PollType]
    /\ fetch \in [Fetcher -> [task : Task \cup {NoTask}, seen : Status, ans : Status]]
    /\ fetches \in 0..MaxFetches /\ faults \in 0..MaxFaults /\ crashes \in 0..MaxCrashes

Init ==
    /\ row = [t \in Task |-> [status |-> "none", full |-> FALSE, quota |-> 0]]
    /\ up = [t \in Task |-> "IN_PROGRESS"]
    /\ old = [t \in Task |-> FALSE]
    /\ paid = [t \in Task |-> 0] /\ billed = [t \in Task |-> 0]
    /\ poll = [p \in Poller |-> Idle]
    /\ fetch = [f \in Fetcher |-> NoFetch]
    /\ fetches = 0 /\ faults = 0 /\ crashes = 0

-----------------------------------------------------------------------------
(***************************************************************************)
(* Submission, and the world outside.                                      *)
(***************************************************************************)

\* RelayTask: pre has been reserved and the task accepted; the difference to its
\* quota is settled and the task inserted.  An error of either is only logged:
\* paid stays what was reserved, or there is no row for what was paid.
RelayTask(t) ==
    /\ row[t].status = "none" /\ paid[t] = 0
    /\ \E pre, quota \in Quotas :
        LET settled == [paid EXCEPT ![t] = quota]
            inserted == [row EXCEPT ![t] =
                           [status |-> "NOT_START", full |-> FALSE, quota |-> quota]]
        IN  \/ paid' = settled /\ row' = inserted /\ UNCHANGED faults
            \/ /\ faults < MaxFaults /\ faults' = faults + 1
               /\ \/ pre # quota /\ paid' = [paid EXCEPT ![t] = pre] /\ row' = inserted
                  \/ paid' = settled /\ UNCHANGED row
    /\ UNCHANGED <<up, old, billed, poll, fetch, fetches, crashes>>

UpstreamEnds(t) ==
    /\ row[t].status # "none" /\ up[t] = "IN_PROGRESS"
    /\ \E s \in Terminal : up' = [up EXCEPT ![t] = s]
    /\ UNCHANGED <<row, old, paid, billed, poll, fetch, fetches, faults, crashes>>

\* The task becomes older than TaskTimeoutMinutes.
TimesOut(t) ==
    /\ row[t].status # "none" /\ ~old[t]
    /\ old' = [old EXCEPT ![t] = TRUE]
    /\ UNCHANGED <<row, up, paid, billed, poll, fetch, fetches, faults, crashes>>

-----------------------------------------------------------------------------
(***************************************************************************)
(* Writing a status and billing it.                                        *)
(***************************************************************************)

\* The row t with another status and progress.
Written(t, to, full) == [row EXCEPT ![t] = [@ EXCEPT !.status = to, !.full = full]]

\* Mutant: without the condition on the status.
UpdateAnyStatus(t, from, to, full) == row' = Written(t, to, full)

\* UpdateWithStatus: the whole row is written, if its status is the one seen.
UpdateWithStatus(t, from, to, full) ==
    row' = IF row[t].status = from THEN Written(t, to, full) ELSE row

Won(t, from) == row[t].status = from

\* The ledger of a task, and the count of its billings.
Bill(t, delta) ==
    /\ paid' = [paid EXCEPT ![t] = @ + delta]
    /\ billed' = [billed EXCEPT ![t] = IF @ = 2 THEN 2 ELSE @ + 1]

\* Mutant: the refund is dropped.
RefundSkipped(p) ==
    /\ poll[p].pc = "refund"
    /\ poll' = [poll EXCEPT ![p].pc = poll[p].back]
    /\ UNCHANGED <<row, up, old, paid, billed, fetch, fetches, faults, crashes>>

\* RefundTaskQuota gives back the quota of the task.
RefundTaskQuota(p) ==
    LET t == poll[p].task
    IN  /\ poll[p].pc = "refund"
        /\ Bill(t, -row[t].quota)
        /\ poll' = [poll EXCEPT ![p].pc = poll[p].back]
        /\ UNCHANGED <<row, up, old, fetch, fetches, faults, crashes>>

\* settleTaskBillingOnComplete: the adaptor or the tokens give the actual
\* quota, or nothing does and the task costs what was charged.
SettleTaskBilling(p) ==
    LET t == poll[p].task
    IN  /\ poll[p].pc = "settle"
        /\ \E actual \in Quotas \cup {row[t].quota} : Bill(t, actual - row[t].quota)
        /\ poll' = [poll EXCEPT ![p].pc = "poll"]
        /\ UNCHANGED <<row, up, old, fetch, fetches, faults, crashes>>

\* The funding source cannot be adjusted: it is logged and not tried again.
BillingFails(p) ==
    /\ poll[p].pc \in {"refund", "settle"} /\ faults < MaxFaults
    /\ faults' = faults + 1
    /\ poll' = [poll EXCEPT ![p].pc = IF @ = "refund" THEN poll[p].back ELSE "poll"]
    /\ UNCHANGED <<row, up, old, paid, billed, fetch, fetches, crashes>>

-----------------------------------------------------------------------------
(***************************************************************************)
(* TaskPollingLoop.                                                        *)
(***************************************************************************)

\* What both queries list: neither ended nor at 100%.
Unfinished == {t \in Task : row[t].status \in {"NOT_START", "IN_PROGRESS"} /\ ~row[t].full}

Copies(S) == {<<t, row[t].status>> : t \in S}

\* Mutant: a timed-out task is only swept once the upstream has ended it.
ListTimedOutLate(p) ==
    /\ poll[p].pc = "idle"
    /\ poll' = [poll EXCEPT ![p] = [Idle EXCEPT !.pc = "sweep",
                  !.list = Copies({t \in Unfinished : old[t] /\ up[t] \in Terminal})]]
    /\ UNCHANGED <<row, up, old, paid, billed, fetch, fetches, faults, crashes>>

\* sweepTimedOutTasks lists the unfinished tasks that are too old.
ListTimedOut(p) ==
    /\ poll[p].pc = "idle"
    /\ poll' = [poll EXCEPT ![p] = [Idle EXCEPT !.pc = "sweep",
                                      !.list = Copies({t \in Unfinished : old[t]})]]
    /\ UNCHANGED <<row, up, old, paid, billed, fetch, fetches, faults, crashes>>

\* It fails each of them, and refunds those it was the first to end.
SweepTask(p) ==
    \E c \in poll[p].list :
        LET rest == poll[p].list \ {c}
        IN  /\ poll[p].pc = "sweep"
            /\ UpdateWithStatus(c[1], c[2], "FAILURE", TRUE)
            /\ poll' = [poll EXCEPT ![p] =
                 IF Won(c[1], c[2])
                 THEN [@ EXCEPT !.pc = "refund", !.list = rest, !.task = c[1], !.back = "sweep"]
                 ELSE [@ EXCEPT !.list = rest]]
            /\ UNCHANGED <<up, old, paid, billed, fetch, fetches, faults, crashes>>

\* GetAllUnFinishSyncTasks, after the sweep.
ListUnfinished(p) ==
    /\ poll[p].pc = "sweep" /\ poll[p].list = {}
    /\ poll' = [poll EXCEPT ![p] = [Idle EXCEPT !.pc = "poll", !.list = Copies(Unfinished)]]
    /\ UNCHANGED <<row, up, old, paid, billed, fetch, fetches, faults, crashes>>

\* The channel of the tasks that are left cannot be found: TaskBulkUpdateByID
\* fails them all, whatever has become of them since they were listed, or none.
ChannelVanished(p) ==
    /\ ChannelCanVanish /\ poll[p].pc = "poll" /\ poll[p].list # {}
    /\ \/ /\ row' = [t \in Task |-> IF \E c \in poll[p].list : c[1] = t
                                   THEN [row[t] EXCEPT !.status = "FAILURE", !.full = TRUE]
                                   ELSE row[t]]
          /\ UNCHANGED faults
       \/ faults < MaxFaults /\ faults' = faults + 1 /\ UNCHANGED row
    /\ poll' = [poll EXCEPT ![p] = Idle]
    /\ UNCHANGED <<up, old, paid, billed, fetch, fetches, crashes>>

\* Mutant: a status the program does not know is taken over too.
FetchTaskAnyStatus(p) ==
    /\ poll[p].pc = "poll"
    /\ \E c \in poll[p].list : \E s \in {up[c[1]], "FAILURE", "UNKNOWN"} :
         poll' = [poll EXCEPT ![p] = [@ EXCEPT !.pc = "answered", !.task = c[1],
                                        !.list = poll[p].list \ {c}, !.seen = c[2], !.ans = s]]
    /\ UNCHANGED <<row, up, old, paid, billed, fetch, fetches, faults, crashes>>

\* FetchTask: the upstream's answer, or an error that fails a video.  An odd
\* answer is a Suno item with a fail reason, whatever its status, or a video
\* that the upstream, another instance of the API, says is at 100%.
FetchTask(p) ==
    /\ poll[p].pc = "poll"
    /\ \E c \in poll[p].list, odd \in BOOLEAN : \E s \in {up[c[1]], "FAILURE"} :
         /\ c[1] \in Suno => s = up[c[1]]
         /\ poll' = [poll EXCEPT ![p] =
              [@ EXCEPT !.pc = "answered", !.task = c[1], !.list = poll[p].list \ {c},
                        !.seen = c[2], !.ans = s, !.odd = odd]]
    /\ UNCHANGED <<row, up, old, paid, billed, fetch, fetches, faults, crashes>>

\* No answer, 429 or an unknown status: the task is left for the next round.
FetchFails(p) ==
    /\ poll[p].pc = "poll"
    /\ \E c \in poll[p].list : poll' = [poll EXCEPT ![p].list = @ \ {c}]
    /\ UNCHANGED <<row, up, old, paid, billed, fetch, fetches, faults, crashes>>

RoundEnds(p) ==
    /\ poll[p].pc = "poll" /\ poll[p].list = {}
    /\ poll' = [poll EXCEPT ![p] = Idle]
    /\ UNCHANGED <<row, up, old, paid, billed, fetch, fetches, faults, crashes>>

\* The progress that comes with the answer is 100%.
Full(p) == poll[p].ans \in Terminal \/ poll[p].odd

\* updateVideoSingleTask: the process whose update ends the task bills it.
UpdateVideoTask(p) ==
    LET t == poll[p].task
        next == IF Won(t, poll[p].seen)
                THEN CASE poll[p].ans = "SUCCESS" -> "settle"
                       [] poll[p].ans = "FAILURE" -> "refund"
                       [] OTHER -> "poll"
                ELSE "poll"
    IN  /\ poll[p].pc = "answered" /\ t \notin Suno
        /\ UpdateWithStatus(t, poll[p].seen, poll[p].ans, Full(p))
        /\ poll' = [poll EXCEPT ![p] = [@ EXCEPT !.pc = next, !.back = "poll"]]
        /\ UNCHANGED <<up, old, paid, billed, fetch, fetches, faults, crashes>>

\* An update guarded by the status fails: the task is left, and not billed.
UpdateFails(p) ==
    /\ faults < MaxFaults /\ faults' = faults + 1
    /\ \/ /\ poll[p].pc = "sweep"
          /\ \E c \in poll[p].list : poll' = [poll EXCEPT ![p].list = @ \ {c}]
       \/ /\ poll[p].pc = "answered" /\ poll[p].task \notin Suno
          /\ poll' = [poll EXCEPT ![p].pc = "poll"]
    /\ UNCHANGED <<row, up, old, paid, billed, fetch, fetches, crashes>>

\* taskNeedsUpdate and the comparison of snapshots: the answer says nothing new.
TaskUnchanged(p) ==
    /\ poll[p].pc = "answered" /\ poll[p].ans = poll[p].seen /\ ~poll[p].odd
    /\ poll' = [poll EXCEPT ![p].pc = "poll"]
    /\ UNCHANGED <<row, up, old, paid, billed, fetch, fetches, faults, crashes>>

\* updateSunoTasks refunds a task that has failed, or whose item has a fail
\* reason, before it saves the row.
UpdateSunoTask(p) ==
    /\ poll[p].pc = "answered" /\ poll[p].task \in Suno
    /\ poll' = [poll EXCEPT ![p] =
         [@ EXCEPT !.pc = IF poll[p].ans = "FAILURE" \/ poll[p].odd THEN "refund" ELSE "save",
                   !.back = "save"]]
    /\ UNCHANGED <<row, up, old, paid, billed, fetch, fetches, faults, crashes>>

\* The whole row is saved, or it is not; an item without a status leaves the
\* copy's.
SaveSunoTask(p) ==
    /\ poll[p].pc = "save"
    /\ \/ /\ \E s \in {poll[p].ans} \cup (IF poll[p].ans \in Terminal THEN {} ELSE {poll[p].seen}) :
                row' = Written(poll[p].task, s, Full(p))
          /\ UNCHANGED faults
       \/ faults < MaxFaults /\ faults' = faults + 1 /\ UNCHANGED row
    /\ poll' = [poll EXCEPT ![p].pc = "poll"]
    /\ UNCHANGED <<up, old, paid, billed, fetch, fetches, crashes>>

-----------------------------------------------------------------------------
(***************************************************************************)
(* A user's fetch, and crashes.                                            *)
(***************************************************************************)

\* videoFetchByIDRespBodyBuilder reads the row and tryRealtimeFetch asks the
\* upstream ...
FetchRead(f, t) ==
    /\ t \in Realtime /\ row[t].status # "none" /\ fetch[f] = NoFetch
    /\ fetches < MaxFetches /\ fetches' = fetches + 1
    /\ fetch' = [fetch EXCEPT ![f] = [task |-> t, seen |-> row[t].status, ans |-> up[t]]]
    /\ UNCHANGED <<row, up, old, paid, billed, poll, faults, crashes>>

\* ... and takes over the answer.
FetchUpdate(f) ==
    /\ fetch[f] # NoFetch
    /\ UpdateWithStatus(fetch[f].task, fetch[f].seen, fetch[f].ans, fetch[f].ans \in Terminal)
    /\ fetch' = [fetch EXCEPT ![f] = NoFetch]
    /\ UNCHANGED <<up, old, paid, billed, poll, fetches, faults, crashes>>

\* A process stops and starts again: its loop is back at the beginning.
Crash(p) ==
    /\ crashes < MaxCrashes /\ poll[p] # Idle
    /\ crashes' = crashes + 1
    /\ poll' = [poll EXCEPT ![p] = Idle]
    /\ UNCHANGED <<row, up, old, paid, billed, fetch, fetches, faults>>

PollerStep(p) ==
    \/ ListTimedOut(p) \/ SweepTask(p) \/ ListUnfinished(p) \/ ChannelVanished(p)
    \/ FetchTask(p) \/ FetchFails(p) \/ RoundEnds(p)
    \/ UpdateVideoTask(p) \/ UpdateFails(p)
    \/ TaskUnchanged(p) \/ UpdateSunoTask(p) \/ SaveSunoTask(p)
    \/ RefundTaskQuota(p) \/ SettleTaskBilling(p) \/ BillingFails(p)

Next ==
    \/ \E t \in Task : RelayTask(t) \/ UpstreamEnds(t) \/ TimesOut(t)
    \/ \E p \in Poller : PollerStep(p) \/ Crash(p)
    \/ \E f \in Fetcher : FetchUpdate(f) \/ \E t \in Task : FetchRead(f, t)

Spec == Init /\ [][Next]_vars

\* The polling loops keep running and time passes.
FairSpec ==
    /\ Spec
    /\ \A p \in Poller : WF_vars(PollerStep(p))
    /\ \A t \in Task : WF_vars(TimesOut(t))

-----------------------------------------------------------------------------
(***************************************************************************)
(* Properties.                                                             *)
(***************************************************************************)

\* "no double refund": however many processes see a task end, one of them
\* refunds or settles it.
BilledOnce == \A t \in Task : billed[t] <= 1

\* A task that has ended does not change its status any more.
EndIsFinal ==
    [][\A t \in Task : row[t].status \in Terminal => row'[t].status = row[t].status]_vars

Quiet(t) == \A p \in Poller : poll[p].pc \in {"refund", "settle", "save"} => poll[p].task # t

\* When an asynchronous task fails, what was charged is given back to the user;
\* one that has succeeded has been charged.  (Without errors and crashes: a
\* refund that is interrupted is not tried again.)
FailedIsRefunded ==
    faults = 0 /\ crashes = 0 =>
        \A t \in Task : Quiet(t) =>
            /\ row[t].status = "FAILURE" => paid[t] = 0
            /\ row[t].status = "SUCCESS" => paid[t] \in Quotas

\* A refund gives back what was charged, never more.
NeverOverRefunded == \A t \in Task : paid[t] >= 0

\* A row that has not ended and that neither query lists any more.
Hidden(t) == row[t].status \notin Terminal /\ row[t].full

\* Every task comes to an end, if only by the timeout, unless an odd answer hides
\* its row: one that is open and at 100% is neither polled nor timed out.
TasksEnd ==
    \A t \in Task : row[t].status = "NOT_START" ~> row[t].status \in Terminal \/ Hidden(t)

-----------------------------------------------------------------------------
(***************************************************************************)
(* The inductive invariant behind them.                                    *)
(***************************************************************************)

Open == {"NOT_START", "IN_PROGRESS"}

\* The update of p has ended its task, and the billing is still to come.
Billing(p) == poll[p].pc \in {"refund", "settle"}

\* A poller that works on a task has one, and so has a fetch.
WorkInv ==
    /\ \A p \in Poller : poll[p].pc \in {"answered", "refund", "settle", "save"} =>
         poll[p].task \in Task
    /\ \A f \in Fetcher : fetch[f] = NoFetch \/ fetch[f].task \in Task

\* Where only videos are polled, every copy of a row was unfinished.
CopyInv ==
    /\ \A p \in Poller :
         /\ \A c \in poll[p].list : c[2] \in Open
         /\ poll[p].pc = "answered" => /\ poll[p].seen \in Open
                                       /\ poll[p].ans \in {"IN_PROGRESS"} \cup Terminal
         /\ poll[p].pc # "save" /\ poll[p].back # "save"
    /\ \A f \in Fetcher : fetch[f] = NoFetch

\* A task is billed by one poller, after it has ended.
BillInv ==
    /\ \A t \in Task : row[t].status \notin Terminal => billed[t] = 0
    /\ \A p \in Poller : Billing(p) =>
         /\ billed[poll[p].task] = 0
         /\ row[poll[p].task].status = IF poll[p].pc = "refund" THEN "FAILURE" ELSE "SUCCESS"
    /\ \A p, q \in Poller :
         Billing(p) /\ Billing(q) /\ poll[p].task = poll[q].task => p = q
    /\ BilledOnce

\* Until then, and without errors, the user has paid the quota in the row.
PaidInv ==
    /\ faults = 0 =>
         /\ \A t \in Task : row[t].status \in Open =>
              paid[t] = row[t].quota /\ row[t].quota \in Quotas
         /\ \A p \in Poller : Billing(p) =>
              /\ paid[poll[p].task] = row[poll[p].task].quota
              /\ row[poll[p].task].quota \in Quotas
    /\ FailedIsRefunded
=============================================================================
