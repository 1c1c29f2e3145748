---------------------------- MODULE TaskLifecycle ----------------------------
(***************************************************************************)
(* Asynchronous tasks (video, music): submission by a request handler      *)
(* (controller/relay.go, relay/relay_task.go), the polling passes that     *)
(* follow the task upstream (service/task_polling.go), and the billing     *)
(* when it ends (service/task_billing.go) over the rows of model/task.go.  *)
(*                                                                         *)
(* A pass works on copies of the rows it loaded.  The lease of the polling *)
(* system task can be lost while a pass is running, so two nodes may poll  *)
(* at once; a compare-and-swap on the row's status decides who finishes a  *)
(* task.  A user's GET on a Gemini or Vertex task asks the upstream and    *)
(* writes its copy of the row, too, without any billing.  BillingSession   *)
(* models the session the handler uses: here its pre-consumption, its      *)
(* refund and its settlement are one step each.                            *)
(***************************************************************************)
EXTENDS Integers, FiniteSets

CONSTANTS
    Tasks, Pollers,
    Clients,          \* users' GET requests for the state of a task
    Kinds,            \* the kinds of task considered, a subset of KindSet
    Quotas,           \* prices of a submission attempt
    Finals,           \* prices after the upstream accepted the task
    Actuals,          \* prices computed from the finished task's usage
    SubTotal,         \* what the subscription holds
    MaxPollFailures,  \* constant.TaskPollMaxFailures
    MaxGets,          \* bound: GETs that go to the upstream
    MaxFaults         \* bound: failed database calls and crashes of pollers

KindSet ==
    [src     : {"wallet", "subscription"},   \* an organization is a wallet
     bridge  : BOOLEAN,   \* executeTaskSubmission; otherwise RelayTask
     pricing : {"percall", "tiered", "usage"},
     realtime : BOOLEAN]  \* the channel is a Gemini or a Vertex one

ASSUME TaskAssumption ==
    /\ Kinds \subseteq KindSet
    /\ Quotas \subseteq Nat /\ Finals \subseteq Nat /\ Actuals \subseteq Nat
    /\ SubTotal \in Nat /\ MaxPollFailures \in Nat \ {0}
    /\ MaxGets \in Nat /\ MaxFaults \in Nat

\* Queued and not started tasks are treated as submitted ones.
Reported == {"SUBMITTED", "IN_PROGRESS"}
\* Only a GET stores an unknown status: a pass counts it as a poll failure.
Unfinished == Reported \cup {"UNKNOWN"}
Terminal == {"SUCCESS", "FAILURE"}

VARIABLES
    kind,     \* kind[t]: fixed
    sub,      \* sub[t]: the handler of the submission
    row,      \* row[t]: the row of the tasks table
    paid,     \* paid[t][a]: net charge for t on its source and on the token
    left,     \* what is left of the subscription
    mode,     \* mode[p]: what the poller's pass is doing
    item,     \* item[p][t]: the pass's copy of row t and its position
    aged,     \* tasks past TaskTimeoutMinutes
    get,      \* get[c][t]: the copy of row t a client's GET works on
    gets,     \* GETs that went to the upstream so far
    fetched,  \* history: tasks a GET ended, or whose ended row it changed
    orphaned, \* history: tasks failed because their channel was not found
    clean,    \* tasks none of whose database calls failed
    faults

vars == <<kind, sub, row, paid, left, mode, item, aged, get, gets, fetched,
          orphaned, clean, faults>>

Handler ==
    [pc    : {"idle", "submit", "settle", "insert", "done", "failed", "lost"},
     pre   : Nat,        \* GetPreConsumedQuota
     final : Nat,        \* TaskSubmitResult.Quota
     first : Reported \cup Terminal,   \* status the row is inserted with
     full  : BOOLEAN,    \* and its progress is 100%
     short : BOOLEAN]    \* SettleBilling returned an error

Row == [status : {"none"} \cup Unfinished \cup Terminal,
        full   : BOOLEAN,   \* Progress is "100%"
        quota  : Nat,
        fails  : Nat]       \* PrivateData.PollFailures

\* target is the quota the task ends with.
Item == [pc : {"none", "loaded", "fund", "token", "write"},
         copy : Row, target : Nat]

NoRow == [status |-> "none", full |-> FALSE, quota |-> 0, fails |-> 0]
NoItem == [pc |-> "none", copy |-> NoRow, target |-> 0]

Init ==
    /\ kind \in [Tasks -> Kinds]
    /\ sub = [t \in Tasks |-> [pc |-> "idle", pre |-> 0, final |-> 0,
                               first |-> "SUBMITTED", full |-> FALSE,
                               short |-> FALSE]]
    /\ row = [t \in Tasks |-> NoRow]
    /\ paid = [t \in Tasks |-> [a \in {"fund", "token"} |-> 0]]
    /\ left = SubTotal
    /\ mode = [p \in Pollers |-> "idle"]
    /\ item = [p \in Pollers |-> [t \in Tasks |-> NoItem]]
    /\ get = [c \in Clients |-> [t \in Tasks |-> NoItem]] /\ gets = 0
    /\ aged = {} /\ fetched = {} /\ orphaned = {} /\ clean = Tasks
    /\ faults = 0

-----------------------------------------------------------------------------
(* Charging.                                                               *)

\* taskAdjustFunding and the session's sources: only a subscription refuses.
Chargeable(t, n) == kind[t].src = "subscription" => n <= left

\* The funding source and the token are charged n each; n < 0 is a return.
Charge(t, fund, token) ==
    /\ paid' = [paid EXCEPT ![t] = [a \in {"fund", "token"} |->
                   paid[t][a] + (IF a = "fund" THEN fund ELSE token)]]
    /\ left' = IF kind[t].src # "subscription" THEN left
               ELSE IF left - fund > SubTotal THEN SubTotal ELSE left - fund

\* A database call for t fails.
Fault(t) ==
    /\ faults < MaxFaults
    /\ faults' = faults + 1
    /\ clean' = clean \ {t}

NoFault == UNCHANGED <<faults, clean>>

Reading == <<get, gets, fetched>>
Polling == <<mode, item, aged, Reading, orphaned>>

-----------------------------------------------------------------------------
(* RelayTaskSubmit and its callers.                                        *)

\* A subscription reserves at least 1.
Reservation(t, q) ==
    IF kind[t].src = "subscription" /\ q = 0 THEN 1 ELSE q

\* The first attempt reserves the price it is quoted.  What a wallet holds is
\* not modelled: it may refuse.
PreConsume(t, q) ==
    LET n == Reservation(t, q) IN
    /\ sub[t].pc = "idle"
    /\ \/ /\ Chargeable(t, n)
          /\ sub' = [sub EXCEPT ![t].pc = "submit", ![t].pre = n]
          /\ Charge(t, n, n)
       \/ /\ kind[t].src = "wallet" \/ ~Chargeable(t, n)
          /\ sub' = [sub EXCEPT ![t].pc = "failed"]
          /\ UNCHANGED <<paid, left>>
    /\ NoFault
    /\ UNCHANGED <<kind, row, Polling>>

\* A retry on another channel is quoted more: ReserveBeforeSubmit.
Reserve(t, q) ==
    /\ sub[t].pc = "submit"
    /\ q > sub[t].pre
    /\ Chargeable(t, q - sub[t].pre)
    /\ sub' = [sub EXCEPT ![t].pre = q]
    /\ Charge(t, q - sub[t].pre, q - sub[t].pre)
    /\ NoFault
    /\ UNCHANGED <<kind, row, Polling>>

\* The deferred Refund of the handler.
SubmitFails(t) ==
    /\ sub[t].pc = "submit"
    /\ sub' = [sub EXCEPT ![t].pc = "failed"]
    /\ Charge(t, -sub[t].pre, -sub[t].pre)
    /\ NoFault
    /\ UNCHANGED <<kind, row, Polling>>

\* The upstream accepted the task at price final.  Only the plugin bridge
\* knows tasks that are answered at once; a failed one is free.
SubmitSucceeds(t, final, first, full) ==
    /\ sub[t].pc = "submit"
    /\ ~kind[t].bridge => first = "SUBMITTED" /\ ~full
    /\ first = "FAILURE" => final = 0
    /\ sub' = [sub EXCEPT
                 ![t].pc    = IF kind[t].bridge THEN "insert" ELSE "settle",
                 ![t].final = final,
                 ![t].first = first,
                 ![t].full  = full]
    /\ NoFault
    /\ UNCHANGED <<kind, row, paid, left, Polling>>

\* SettleBilling at the final price; an error is only logged.
Settle(t) ==
    LET s     == sub[t]
        delta == s.final - s.pre
        next  == IF kind[t].bridge THEN "done" ELSE "insert"
    IN
    /\ s.pc = "settle"
    /\ \/ /\ Chargeable(t, delta)
          /\ sub' = [sub EXCEPT ![t].pc = next]
          /\ Charge(t, delta, delta)
          /\ NoFault
       \/ /\ ~Chargeable(t, delta)
          /\ sub' = [sub EXCEPT ![t].pc = next, ![t].short = TRUE]
          /\ UNCHANGED <<paid, left>>
          /\ NoFault
       \/ /\ delta # 0
          /\ sub' = [sub EXCEPT ![t].pc = next, ![t].short = TRUE]
          /\ UNCHANGED <<paid, left>>
          /\ Fault(t)
       \/ /\ delta # 0 /\ Chargeable(t, delta)
          /\ sub' = [sub EXCEPT ![t].pc = next, ![t].short = TRUE]
          /\ Charge(t, delta, 0)
          /\ Fault(t)
    /\ UNCHANGED <<kind, row, Polling>>

\* task.Insert.  When it fails RelayTask goes on; executeTaskSubmission
\* returns an error, which its deferred Refund does not see.
Insert(t) ==
    LET s == sub[t] IN
    /\ s.pc = "insert"
    /\ \/ /\ row' = [row EXCEPT ![t] = [status |-> s.first, full |-> s.full,
                                        quota |-> s.final, fails |-> 0]]
          /\ sub' = [sub EXCEPT ![t].pc = IF kind[t].bridge THEN "settle"
                                          ELSE "done"]
          /\ NoFault
       \/ /\ sub' = [sub EXCEPT ![t].pc = "lost"]
          /\ Fault(t)
          /\ UNCHANGED row
    /\ UNCHANGED <<kind, paid, left, Polling>>

Submission == <<kind, sub>>
Billing == <<paid, left>>

-----------------------------------------------------------------------------
(* A polling pass: first the timed out tasks, then all unfinished ones.    *)

Idle(p) == \A t \in Tasks : item[p][t].pc = "none"

\* The copy a query returns of row t.
Fresh(t) == [pc |-> "loaded", copy |-> row[t], target |-> 0]

Load(p, S) ==
    item' = [item EXCEPT ![p] = [t \in Tasks |->
               IF t \in S THEN Fresh(t) ELSE NoItem]]

\* The queries of unfinished tasks leave out a progress of 100%.
UnfinishedTasks ==
    {t \in Tasks : row[t].status \in Unfinished /\ ~row[t].full}

\* Mutant: only tasks that never started time out.
StartPassSubmitted(p) ==
    /\ mode[p] = "idle"
    /\ UnfinishedTasks # {}
    /\ mode' = [mode EXCEPT ![p] = "sweep"]
    /\ Load(p, {t \in UnfinishedTasks \cap aged : row[t].status = "SUBMITTED"})
    /\ NoFault
    /\ UNCHANGED <<Submission, Billing, row, aged, Reading, orphaned>>

\* GetTimedOutUnfinishedTasks
StartPass(p) ==
    /\ mode[p] = "idle"
    /\ UnfinishedTasks # {}
    /\ mode' = [mode EXCEPT ![p] = "sweep"]
    /\ Load(p, UnfinishedTasks \cap aged)
    /\ NoFault
    /\ UNCHANGED <<Submission, Billing, row, aged, Reading, orphaned>>

\* GetAllUnFinishSyncTasks
LoadUnfinished(p) ==
    /\ mode[p] = "sweep" /\ Idle(p)
    /\ mode' = [mode EXCEPT ![p] = "poll"]
    /\ Load(p, UnfinishedTasks)
    /\ NoFault
    /\ UNCHANGED <<Submission, Billing, row, aged, Reading, orphaned>>

EndPass(p) ==
    /\ mode[p] = "poll" /\ Idle(p)
    /\ mode' = [mode EXCEPT ![p] = "idle"]
    /\ NoFault
    /\ UNCHANGED <<Submission, Billing, row, item, aged, Reading, orphaned>>

\* The lease was lost: a pass polls no further task, but ends what it began.
Cancel(p) ==
    /\ mode[p] = "poll" /\ ~Idle(p)
    /\ item' = [item EXCEPT ![p] = [t \in Tasks |->
                  IF item[p][t].pc = "loaded" THEN NoItem ELSE item[p][t]]]
    /\ item' # item
    /\ NoFault
    /\ UNCHANGED <<Submission, Billing, row, mode, aged, Reading, orphaned>>

SetItem(p, t, i) == item' = [item EXCEPT ![p] = [item[p] EXCEPT ![t] = i]]

\* Task.UpdateWithStatus: the whole copy is written if the row still has the
\* status the copy was loaded with.
Won(p, t) == row[t].status = item[p][t].copy.status

\* Mutant: the row is saved without the condition on its status.
UpdateAlways(p, t, new) == row' = [row EXCEPT ![t] = new]

UpdateWithStatus(p, t, new) ==
    row' = IF Won(p, t) THEN [row EXCEPT ![t] = new] ELSE row

\* The progress of an ended task, which no query looks at, counts as 100%.
Ended(copy, status) == [copy EXCEPT !.status = status, !.full = TRUE]

\* Mutant: the loser of the compare-and-swap bills, too.
FinalizeAnyway(p, t, new, target) ==
    SetItem(p, t, IF target # new.quota
                  THEN [pc |-> "fund", copy |-> new, target |-> target]
                  ELSE NoItem)

\* RefundTaskQuota and RecalculateTaskQuota start only when there is
\* something to move.
Finalize(p, t, new, target) ==
    SetItem(p, t, IF Won(p, t) /\ target # new.quota
                  THEN [pc |-> "fund", copy |-> new, target |-> target]
                  ELSE NoItem)

Passing == <<mode, aged, Reading, orphaned>>

\* sweepTimedOutTasks for one task.
SweepTask(p, t) ==
    LET new == Ended(item[p][t].copy, "FAILURE") IN
    /\ mode[p] = "sweep" /\ item[p][t].pc = "loaded"
    /\ \/ /\ UpdateWithStatus(p, t, new)
          /\ Finalize(p, t, new, 0)
          /\ NoFault
       \/ /\ SetItem(p, t, NoItem)
          /\ Fault(t)
          /\ UNCHANGED row
    /\ UNCHANGED <<Submission, Billing, Passing>>

Pollable(p, t) ==
    mode[p] = "poll" /\ item[p][t].pc = "loaded"

\* The upstream reports an unfinished status and any progress.  A video task
\* on which nothing changed is not written.
PollProgress(p, t, status, full) ==
    LET copy == item[p][t].copy
        new  == [copy EXCEPT !.status = status, !.full = full, !.fails = 0]
    IN
    /\ Pollable(p, t)
    /\ \/ UpdateWithStatus(p, t, new) /\ NoFault
       \/ new = copy /\ UNCHANGED row /\ NoFault
       \/ Fault(t) /\ UNCHANGED row
    /\ SetItem(p, t, NoItem)
    /\ UNCHANGED <<Submission, Billing, Passing>>

\* The answer to a batch does not mention the task, or the platform has no
\* adaptor: nothing is written.
PollSkipped(p, t) ==
    /\ Pollable(p, t)
    /\ SetItem(p, t, NoItem)
    /\ NoFault
    /\ UNCHANGED <<Submission, Billing, row, Passing>>

\* Mutant: the expression takes over the billing of a failed task.
TargetsTiered(t, status, quota) ==
    IF kind[t].pricing = "tiered" THEN {quota} \cup Actuals
    ELSE IF status = "SUCCESS" THEN {quota} ELSE {0}

\* settleTaskBillingOnComplete and finalizeTerminalTask: the quota a task of
\* this pricing can end with.  A per-call price is kept; an expression that
\* cannot be evaluated keeps the reservation; a failed task is refunded
\* unless its adaptor or its tokens say what it used.
Targets(t, status, quota) ==
    IF status = "SUCCESS"
    THEN {quota} \cup (IF kind[t].pricing = "percall" THEN {} ELSE Actuals)
    ELSE {0} \cup (IF kind[t].pricing = "usage" THEN Actuals ELSE {})

\* The upstream reports the end, or does not know the task any more.
PollTerminal(p, t, status, target) ==
    LET new == Ended(item[p][t].copy, status) IN
    /\ Pollable(p, t)
    /\ target \in Targets(t, status, new.quota)
    /\ \/ /\ UpdateWithStatus(p, t, new)
          /\ Finalize(p, t, new, target)
          /\ NoFault
       \/ /\ SetItem(p, t, NoItem)
          /\ Fault(t)
          /\ UNCHANGED row
    /\ UNCHANGED <<Submission, Billing, Passing>>

\* Mutant: one failure more than the limit is counted.
PollErrorLate(p, t, target) ==
    LET c    == item[p][t].copy
        over == c.fails + 1 > MaxPollFailures
        more == [c EXCEPT !.fails = @ + 1]
        new  == IF over THEN Ended(more, "FAILURE") ELSE more
    IN
    /\ Pollable(p, t)
    /\ target \in IF over THEN Targets(t, "FAILURE", c.quota) ELSE {c.quota}
    /\ UpdateWithStatus(p, t, new)
    /\ Finalize(p, t, new, target)
    /\ NoFault
    /\ UNCHANGED <<Submission, Billing, Passing>>

\* recordPollFailure: no usable answer; too many in a row fail the task.
PollError(p, t, target) ==
    LET c    == item[p][t].copy
        over == c.fails + 1 >= MaxPollFailures
        more == [c EXCEPT !.fails = @ + 1]
        new  == IF over THEN Ended(more, "FAILURE") ELSE more
    IN
    /\ Pollable(p, t)
    /\ target \in IF over THEN Targets(t, "FAILURE", c.quota) ELSE {c.quota}
    /\ \/ /\ UpdateWithStatus(p, t, new)
          /\ Finalize(p, t, new, target)
          /\ NoFault
       \/ /\ SetItem(p, t, NoItem)
          /\ Fault(t)
          /\ UNCHANGED row
    /\ UNCHANGED <<Submission, Billing, Passing>>

\* CacheGetChannel fails: the channel was deleted, is not in this node's cache
\* or could not be read.  TaskBulkUpdateByID marks the task failed, whatever
\* the row's status is by now.  A row without an upstream id is treated alike.
BulkFail(p, t) ==
    /\ Pollable(p, t)
    /\ \/ /\ row' = [row EXCEPT ![t] = Ended(row[t], "FAILURE")]
          /\ orphaned' = orphaned \cup {t}
          /\ NoFault
       \/ Fault(t) /\ UNCHANGED <<row, orphaned>>
    /\ SetItem(p, t, NoItem)
    /\ UNCHANGED <<Submission, Billing, mode, aged, Reading>>

-----------------------------------------------------------------------------
(* RefundTaskQuota and RecalculateTaskQuota: funding, token, then the row. *)

AdjustFunding(p, t) ==
    LET i     == item[p][t]
        delta == i.target - i.copy.quota
    IN
    /\ i.pc = "fund"
    /\ \/ /\ Chargeable(t, delta)
          /\ Charge(t, delta, 0)
          /\ SetItem(p, t, [i EXCEPT !.pc = "token"])
          /\ NoFault
       \/ /\ ~Chargeable(t, delta)
          /\ SetItem(p, t, NoItem)
          /\ UNCHANGED Billing
          /\ NoFault
       \/ /\ SetItem(p, t, NoItem)
          /\ UNCHANGED Billing
          /\ Fault(t)
    /\ UNCHANGED <<Submission, row, Passing>>

\* An error is only logged.
AdjustToken(p, t) ==
    LET i     == item[p][t]
        delta == i.target - i.copy.quota
    IN
    /\ i.pc = "token"
    /\ SetItem(p, t, [i EXCEPT !.pc = "write"])
    /\ \/ Charge(t, 0, delta) /\ NoFault
       \/ UNCHANGED Billing /\ Fault(t)
    /\ UNCHANGED <<Submission, row, Passing>>

\* Mutant: the new quota is not written back.
UpdateQuotaForgotten(p, t) ==
    /\ item[p][t].pc = "write"
    /\ SetItem(p, t, NoItem)
    /\ NoFault
    /\ UNCHANGED <<Submission, Billing, row, Passing>>

UpdateQuota(p, t) ==
    /\ item[p][t].pc = "write"
    /\ \/ row' = [row EXCEPT ![t].quota = item[p][t].target] /\ NoFault
       \/ Fault(t) /\ UNCHANGED row
    /\ SetItem(p, t, NoItem)
    /\ UNCHANGED <<Submission, Billing, Passing>>

\* The node stops in the middle of a pass.
Crash(p) ==
    /\ faults < MaxFaults
    /\ faults' = faults + 1
    /\ ~Idle(p)
    /\ mode' = [mode EXCEPT ![p] = "idle"]
    /\ item' = [item EXCEPT ![p] = [t \in Tasks |-> NoItem]]
    /\ clean' = clean \ {t \in Tasks :
                           item[p][t].pc \in {"fund", "token", "write"}}
    /\ UNCHANGED <<Submission, Billing, row, aged, Reading, orphaned>>

-----------------------------------------------------------------------------
(* A user's GET: videoFetchByIDRespBodyBuilder and tryRealtimeFetch.       *)

Quietly == <<Submission, Billing, mode, item, aged, orphaned>>

SetGet(c, t, i) == get' = [get EXCEPT ![c] = [get[c] EXCEPT ![t] = i]]

\* GetByTaskId loads the row, finished or not, before the upstream is asked.
Get(c, t) ==
    /\ kind[t].realtime /\ row[t].status # "none"
    /\ get[c][t].pc = "none"
    /\ gets < MaxGets
    /\ gets' = gets + 1
    /\ SetGet(c, t, Fresh(t))
    /\ NoFault
    /\ UNCHANGED <<Quietly, row, fetched>>

\* What the parsers of the two plugins make of the upstream's answer: an
\* unrecognized state says nothing about the progress.
Answered(copy) ==
    {[copy EXCEPT !.status = "IN_PROGRESS", !.full = FALSE],
     [copy EXCEPT !.status = "UNKNOWN"]}
    \cup {Ended(copy, s) : s \in Terminal}

\* The copy is stored if the row still has the status it was loaded with, even
\* a final one.  Nothing is refunded or settled.
GetStores(c, t) ==
    /\ get[c][t].pc = "loaded"
    /\ row[t].status = get[c][t].copy.status
    /\ \E new \in Answered(get[c][t].copy) :
          /\ row' = [row EXCEPT ![t] = new]
          /\ fetched' = IF /\ new # row[t]
                           /\ {row[t].status, new.status} \cap Terminal # {}
                        THEN fetched \cup {t} ELSE fetched
    /\ SetGet(c, t, NoItem)
    /\ NoFault
    /\ UNCHANGED <<Quietly, gets>>

\* The channel or the upstream cannot be reached, the answer cannot be parsed
\* or changes nothing, the row has another status by now, or the write fails.
GetDrop(c, t) ==
    /\ get[c][t].pc = "loaded"
    /\ SetGet(c, t, NoItem)
    /\ NoFault
    /\ UNCHANGED <<Quietly, row, gets, fetched>>

-----------------------------------------------------------------------------
(* The environment.                                                        *)

Age(t) ==
    /\ row[t].status \in Unfinished /\ t \notin aged
    /\ aged' = aged \cup {t}
    /\ NoFault
    /\ UNCHANGED <<Submission, Billing, row, mode, item, Reading, orphaned>>

\* Every submission has ended, and so has every task and every pass.
Terminating ==
    /\ \A t \in Tasks : /\ sub[t].pc \in {"done", "failed", "lost"}
                        /\ t \notin UnfinishedTasks
    /\ \A p \in Pollers : mode[p] = "idle"
    /\ UNCHANGED vars

Submit(t) ==
    \/ \E q \in Quotas : PreConsume(t, q) \/ Reserve(t, q)
    \/ SubmitFails(t)
    \/ \E n \in Finals, s \in Reported \cup Terminal, f \in BOOLEAN :
          SubmitSucceeds(t, n, s, f)
    \/ Settle(t)
    \/ Insert(t)

Work(p, t) ==
    \/ SweepTask(p, t)
    \/ \E s \in Reported, f \in BOOLEAN : PollProgress(p, t, s, f)
    \/ PollSkipped(p, t)
    \/ \E s \in Terminal, n \in Quotas \cup Finals \cup Actuals \cup {0} :
          PollTerminal(p, t, s, n)
    \/ \E n \in Quotas \cup Finals \cup Actuals \cup {0} : PollError(p, t, n)
    \/ BulkFail(p, t)
    \/ AdjustFunding(p, t)
    \/ AdjustToken(p, t)
    \/ UpdateQuota(p, t)

Poll(p) ==
    \/ StartPass(p)
    \/ LoadUnfinished(p)
    \/ EndPass(p)
    \/ \E t \in Tasks : Work(p, t)

Fetch(c, t) ==
    \/ Get(c, t)
    \/ GetStores(c, t)
    \/ GetDrop(c, t)

Next ==
    \/ \E t \in Tasks : Submit(t) \/ Age(t)
    \/ \E c \in Clients, t \in Tasks : Fetch(c, t)
    \/ \E p \in Pollers : Poll(p) \/ Cancel(p) \/ Crash(p)
    \/ Terminating

Spec == Init /\ [][Next]_vars

\* Handlers run, time passes, and the scheduler starts a pass whenever there
\* are unfinished tasks; the calls of a pass have time limits.
Fairness ==
    /\ \A t \in Tasks : WF_vars(Submit(t)) /\ WF_vars(Age(t))
    /\ \A p \in Pollers : WF_vars(Poll(p))

FairSpec == Spec /\ Fairness
-----------------------------------------------------------------------------
(* Properties.                                                             *)

\* Every variable keeps its type and every bound holds.
TypeOK ==
    /\ kind \in [Tasks -> Kinds]
    /\ sub \in [Tasks -> Handler]
    /\ row \in [Tasks -> Row]
    /\ paid \in [Tasks -> [{"fund", "token"} -> Int]]
    /\ left \in Int
    /\ mode \in [Pollers -> {"idle", "sweep", "poll"}]
    /\ item \in [Pollers -> [Tasks -> Item]]
    /\ get \in [Clients -> [Tasks -> Item]] /\ gets \in 0..MaxGets
    /\ aged \subseteq Tasks /\ clean \subseteq Tasks
    /\ fetched \subseteq Tasks /\ orphaned \subseteq Tasks
    /\ faults \in 0..MaxFaults

\* Positions at which a pass moves quota for a task it finished.
Moving == {"fund", "token", "write"}

\* The submission of t is over and its settlement went through.
Settled(t) == sub[t].pc = "done" /\ ~sub[t].short

\* No pass is moving quota for t.
Quiet(t) == \A p \in Pollers : item[p][t].pc \notin Moving

\* recordPollFailure ends a task before its failures in a row exceed the
\* limit, however stale the count in a pass's copy is: an unfinished task is
\* below it.  A GET reopens a failed task with the count it had.
FailureLimit ==
    \A t \in Tasks : row[t].status \in Unfinished /\ t \notin fetched =>
        row[t].fails < MaxPollFailures

\* The row's quota is what the task was charged, on the funding source and on
\* the token, although passes and GETs write whole stale copies of rows: it is
\* what a later refund returns.  A GET that ends the task or changes its ended
\* row breaks it: see RefundedOnce.
QuotaIsCharge ==
    \A t \in Tasks :
        Settled(t) /\ Quiet(t) /\ t \in clean /\ t \notin fetched =>
            \A a \in {"fund", "token"} : paid[t][a] = row[t].quota

\* However passes overlap, fail or stop, a task whose end no GET stored and
\* whose ended row no GET changed never returns more than was taken for it.
NoOverRefund ==
    \A t \in Tasks, a \in {"fund", "token"} :
        Settled(t) /\ t \notin fetched => paid[t][a] >= 0

\* A task that a pass failed was returned in full, unless its usage was billed,
\* once the pass is done.  Tasks whose channel was not found are excepted (see
\* RefundsComplete), and those a GET ended or reopened.
FailureIsRefunded ==
    \A t \in Tasks :
        /\ row[t].status = "FAILURE" /\ kind[t].pricing # "usage"
        /\ Settled(t) /\ Quiet(t) /\ t \in clean
        /\ t \notin orphaned /\ t \notin fetched
        => paid[t] = [a \in {"fund", "token"} |-> 0]

\* The outcome of a task is final: a pass that loaded the row earlier never
\* reopens or reverses it.  Only a GET and the bulk update for a channel that
\* is not found do.
OutcomeIsFinal ==
    [][\A t \in Tasks :
          row[t].status \in Terminal /\ t \notin fetched' /\ t \notin orphaned'
          => row'[t].status = row[t].status]_vars

\* No two passes run at once.
OnePass == \A p, q \in Pollers : mode[p] # "idle" /\ mode[q] # "idle" => p = q

\* If passes overlap for a while only, as they do when a lease is lost, then a
\* task whose progress is below 100% ends, whatever the upstream reports: the
\* time limit fails it.
PolledTasksEnd ==
    <>[]OnePass =>
        \A t \in Tasks :
            t \in UnfinishedTasks ~> row[t].status \in Terminal \/ row[t].full

\* service/task_polling.go:783: the sweep of timed out tasks "remains the only
\* backstop" of a task the poll failures do not end, so every task ends.
TasksEnd ==
    \A t \in Tasks :
        row[t].status \in Unfinished ~> row[t].status \in Terminal

\* service/task_polling.go:625: "finalizeTerminalTask performs terminal sampling
\* and billing exactly once", so a task is not refunded twice.
RefundedOnce ==
    \A t \in Tasks, a \in {"fund", "token"} : Settled(t) => paid[t][a] >= 0

\* The tests of sweepUnrefundedFailedTasks (service/task_polling_test.go:483
\* and 520): a failed task that still has a quota is refunded by a later pass.
RefundsComplete ==
    \A t \in Tasks :
        row[t].status = "FAILURE" /\ row[t].quota > 0
            /\ kind[t].pricing # "usage" ~> row[t].quota = 0

-----------------------------------------------------------------------------
(* The inductive invariant, per task.                                      *)

\* What the handler has taken for t on either account: the reservation until
\* the settlement, which for the plugin bridge follows the insertion.
Taken(t) ==
    IF sub[t].pc \in {"idle", "failed"} THEN 0
    ELSE IF \/ sub[t].pc \in {"submit", "settle"}
            \/ kind[t].bridge /\ sub[t].pc \in {"insert", "lost"}
    THEN sub[t].pre
    ELSE sub[t].final

\* A row exists from the insertion on; only an existing row is copied or
\* changed by a GET.
RowExists(t) ==
    /\ row[t].status # "none" <=> \/ sub[t].pc = "done"
                                  \/ kind[t].bridge /\ sub[t].pc = "settle"
    /\ row[t].status = "none" => /\ \A p \in Pollers : item[p][t].pc = "none"
                                 /\ \A c \in Clients : get[c][t].pc = "none"
                                 /\ t \notin fetched
    /\ sub[t].pc \in {"settle", "insert"} /\ sub[t].first = "FAILURE" =>
         sub[t].final = 0

\* An unfinished row still has the quota it was inserted with.
RowFollows(t) ==
    row[t].status \in Unfinished =>
        row[t].quota = sub[t].final /\ row[t].fails < MaxPollFailures

\* What a pass holds of t: an unfinished copy with the quota of the insertion,
\* however old it is; and quota is moved only after the row has ended.  A GET
\* may hold a finished copy, too.
CopiesFollow(t) ==
    /\ \A p \in Pollers : LET i == item[p][t] IN
        /\ i.pc = "loaded" => /\ i.copy.status \in Unfinished
                              /\ i.copy.quota = sub[t].final
                              /\ i.copy.fails < MaxPollFailures
        /\ i.pc \in Moving => /\ row[t].status \in Terminal
                              /\ row[t].quota = sub[t].final
                              /\ i.copy.quota = sub[t].final
    /\ \A c \in Clients : LET copy == get[c][t].copy IN
        get[c][t].pc = "loaded" /\ copy.status \in Unfinished =>
            copy.quota = sub[t].final /\ copy.fails < MaxPollFailures

\* One pass moves quota for t: the one that won the compare-and-swap.
OneMover(t) ==
    \A p, q \in Pollers :
        item[p][t].pc \in Moving /\ item[q][t].pc \in Moving => p = q

\* The accounts differ from what the handler took by what the pass that ended
\* the task has moved so far, and a returned charge was taken before.
MovesTracked(t) ==
    LET all    == sub[t].final
        Off(n) == Taken(t) + n - all
        m      == paid[t]
    IN ~sub[t].short =>
        /\ m["fund"] + all >= Taken(t) /\ m["token"] + all >= Taken(t)
        /\ row[t].status \notin Terminal =>
             m["fund"] = Taken(t) /\ m["token"] = Taken(t)
        /\ \A p \in Pollers : LET i == item[p][t] IN
             /\ i.pc \in Moving =>
                  m["fund"] = IF i.pc = "fund" THEN Taken(t) ELSE Off(i.target)
             /\ i.pc \in {"fund", "token"} => m["token"] = Taken(t)
             /\ i.pc = "write" /\ t \in clean => m["token"] = Off(i.target)
        /\ row[t].status \in Terminal /\ Quiet(t) /\ t \in clean =>
             m["fund"] = Off(row[t].quota) /\ m["token"] = Off(row[t].quota)

\* A failed task is being returned in full, or has been.
ReturnsAll(t) ==
    row[t].status = "FAILURE" /\ kind[t].pricing # "usage"
            /\ t \notin orphaned =>
        /\ \A p \in Pollers : item[p][t].pc \in Moving => item[p][t].target = 0
        /\ Quiet(t) /\ t \in clean => row[t].quota = 0

Books(t) ==
    /\ RowFollows(t)
    /\ CopiesFollow(t)
    /\ OneMover(t)
    /\ MovesTracked(t)
    /\ ReturnsAll(t)

Consistent(t) ==
    /\ RowExists(t)
    /\ t \notin fetched => Books(t)

\* Every task is consistent, up to the GET that ends it or changes its ended
\* row; a node between two passes holds no copies, and the subscription is
\* neither overdrawn nor filled beyond its total: what the invariants above
\* rest on.
IInv ==
    /\ TypeOK
    /\ left \in 0..SubTotal
    /\ \A p \in Pollers : mode[p] = "idle" => Idle(p)
    /\ \A t \in Tasks : Consistent(t)
=============================================================================
