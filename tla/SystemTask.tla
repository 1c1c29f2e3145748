----------------------------- MODULE SystemTask -----------------------------
(***************************************************************************)
(* The system tasks (src/model/system_task.go, src/service/system_task.go):*)
(* maintenance jobs kept as database rows that the runners of several      *)
(* nodes claim under a lease with a heartbeat.  The tasks of different     *)
(* types do not meet; this module models one type.                         *)
(*                                                                         *)
(* Each database statement is an action, because ClaimSystemTask and       *)
(* ExpireStaleSystemTaskLocks are not transactions.  pc[r] is where the    *)
(* loop of runner r is, arg[r] the task it works on, old[r] the task whose *)
(* lease it took over.  Time is abstracted: LeaseExpires makes             *)
(* locked_until pass, and past[r] says that locked_until is below the      *)
(* `now` that r read when its operation began, a comparison that stays     *)
(* true until the lock row is replaced or deleted.                         *)
(***************************************************************************)
EXTENDS Naturals, FiniteSets

CONSTANTS
    Task,        \* the task rows, created in any order
    Runner,      \* runner ids; a restarted node has a new one
    None,
    MaxFaults    \* bound on the database calls that return an error

ASSUME TaskAssumption ==
    /\ None \notin Task \cup Runner
    /\ MaxFaults \in Nat

VARIABLES
    status,      \* of each row
    lockedBy,    \* locked_by of each row
    lock,        \* the row of the type in system_task_locks
    pc, arg, old, past,
    exec,        \* the handlers that run: by runner and task
    faults,
    slow         \* history: a claim was still under way when its lease expired

vars == <<status, lockedBy, lock, pc, arg, old, past, exec, faults, slow>>

Status  == {"none", "pending", "running", "succeeded", "failed"}
LockRow == [task: Task, by: Runner, expired: BOOLEAN]
Free    == [task |-> None, by |-> None, expired |-> FALSE]

Claiming == {"insert", "lookup", "takeover", "mark", "update", "release"}
Sweeping == {"sweep_mark", "sweep_delete"}

Active(t) == status[t] \in {"pending", "running"}
Ended(t)  == status[t] \in {"succeeded", "failed"}
Alive(r)  == pc[r] # "dead"
Holds(r, t) == lock.task = t /\ lock.by = r

Init ==
    /\ status = [t \in Task |-> "none"]
    /\ lockedBy = [t \in Task |-> None]
    /\ lock = Free
    /\ pc = [r \in Runner |-> "idle"]
    /\ arg = [r \in Runner |-> None]
    /\ old = [r \in Runner |-> None]
    /\ past = [r \in Runner |-> FALSE]
    /\ exec = [r \in Runner |-> [t \in Task |-> "no"]]
    /\ faults = 0
    /\ slow = FALSE

Goto(r, label, t) ==
    /\ pc' = [pc EXCEPT ![r] = label]
    /\ arg' = [arg EXCEPT ![r] = t]

Fault == faults < MaxFaults /\ faults' = faults + 1

(* A new lease is above, and a missing row is not below, every now that    *)
(* was read before.                                                        *)
SetLock(row) ==
    /\ lock' = row
    /\ past' = [r \in Runner |-> FALSE]
-----------------------------------------------------------------------------
(* EnqueueSystemTask and runSystemTaskScheduler: the unique index on       *)
(* active_key lets only one of several insertions through.                 *)
CreateSystemTask(t) ==
    /\ status[t] = "none"
    /\ \A u \in Task : ~Active(u)
    /\ status' = [status EXCEPT ![t] = "pending"]
    /\ UNCHANGED <<lockedBy, lock, pc, arg, old, past, exec, faults, slow>>

(* ClaimSystemTask reads the clock and then the pending row.               *)
ClaimRead(r, t) ==
    /\ pc[r] = "idle"
    /\ status[t] = "pending"
    /\ Goto(r, "insert", t)
    /\ past' = [past EXCEPT ![r] = lock.expired]
    /\ UNCHANGED <<status, lockedBy, lock, old, exec, faults, slow>>

(* acquireSystemTaskLock: DB.Create                                        *)
ClaimInsert(r) ==
    /\ pc[r] = "insert"
    /\ IF lock = Free
         THEN /\ SetLock([task |-> arg[r], by |-> r, expired |-> FALSE])
              /\ Goto(r, "update", arg[r])
         ELSE /\ Goto(r, "lookup", arg[r])
              /\ UNCHANGED <<lock, past>>
    /\ UNCHANGED <<status, lockedBy, old, exec, faults, slow>>

(* DB.First: no row any more, or a lease that is not below now, end it.    *)
ClaimLookup(r) ==
    /\ pc[r] = "lookup"
    /\ IF past[r] THEN Goto(r, "takeover", arg[r]) ELSE Goto(r, "idle", None)
    /\ UNCHANGED <<status, lockedBy, lock, old, past, exec, faults, slow>>

\* Mutant: the status of the task is not compared.
MarkExpiredAny(t) ==
    status' = IF t \in Task THEN [status EXCEPT ![t] = "failed"] ELSE status

(* MarkSystemTaskLeaseExpired of the task t.                               *)
MarkExpired(t) ==
    status' = IF t \in Task /\ status[t] = "running"
                THEN [status EXCEPT ![t] = "failed"] ELSE status

\* Mutant: the update does not repeat the condition on locked_until.
ClaimTakeOverBlind(r) ==
    /\ pc[r] = "takeover"
    /\ SetLock([task |-> arg[r], by |-> r, expired |-> FALSE])
    /\ Goto(r, "update", arg[r])
    /\ UNCHANGED <<status, lockedBy, old, exec, faults, slow>>

(* The update of the row whose lease is below now.                         *)
ClaimTakeOver(r) ==
    /\ pc[r] = "takeover"
    /\ IF past[r]
         THEN /\ SetLock([task |-> arg[r], by |-> r, expired |-> FALSE])
              /\ IF lock.task = arg[r]
                   THEN Goto(r, "update", arg[r]) /\ UNCHANGED old
                   ELSE Goto(r, "mark", arg[r]) /\ old' = [old EXCEPT ![r] = lock.task]
         ELSE /\ Goto(r, "idle", None)
              /\ UNCHANGED <<lock, old, past>>
    /\ UNCHANGED <<status, lockedBy, exec, faults, slow>>

(* The task of the lease that was taken over is failed if it still runs.   *)
ClaimMark(r) ==
    /\ pc[r] = "mark"
    /\ \/ /\ MarkExpired(old[r])
          /\ Goto(r, "update", arg[r])
          /\ UNCHANGED faults
       \/ /\ Fault
          /\ Goto(r, "release", arg[r])
          /\ UNCHANGED status
    /\ old' = [old EXCEPT ![r] = None]
    /\ UNCHANGED <<lockedBy, lock, past, exec, slow>>

\* Mutant: the row is updated without a comparison.
ClaimUpdateAlways(r) ==
    /\ pc[r] = "update"
    /\ status' = [status EXCEPT ![arg[r]] = "running"]
    /\ lockedBy' = [lockedBy EXCEPT ![arg[r]] = r]
    /\ exec' = [exec EXCEPT ![r][arg[r]] = "run"]
    /\ Goto(r, "idle", None)
    /\ UNCHANGED <<lock, old, past, faults, slow>>

(* The compare-and-swap from pending to running.  When the row cannot be   *)
(* read again after it, the task is running and nobody runs it.            *)
ClaimUpdate(r) ==
    /\ pc[r] = "update"
    /\ \/ /\ status[arg[r]] = "pending"
          /\ status' = [status EXCEPT ![arg[r]] = "running"]
          /\ lockedBy' = [lockedBy EXCEPT ![arg[r]] = r]
          /\ Goto(r, "idle", None)
          /\ \/ exec' = [exec EXCEPT ![r][arg[r]] = "run"] /\ UNCHANGED faults
             \/ UNCHANGED exec /\ Fault
       \/ /\ status[arg[r]] # "pending"
          /\ Goto(r, "release", arg[r])
          /\ UNCHANGED <<status, lockedBy, exec, faults>>
       \/ /\ Fault
          /\ Goto(r, "release", arg[r])
          /\ UNCHANGED <<status, lockedBy, exec>>
    /\ UNCHANGED <<lock, old, past, slow>>

(* ReleaseSystemTaskLock(t, r); its error is ignored by every caller.      *)
Release(r, t) ==
    \/ /\ IF Holds(r, t) THEN SetLock(Free) ELSE UNCHANGED <<lock, past>>
       /\ UNCHANGED faults
    \/ /\ UNCHANGED <<lock, past>>
       /\ Fault

ClaimRelease(r) ==
    /\ pc[r] = "release"
    /\ Release(r, arg[r])
    /\ Goto(r, "idle", None)
    /\ UNCHANGED <<status, lockedBy, old, exec, slow>>
-----------------------------------------------------------------------------
(* runWithLeaseHeartbeat and the handler.  RenewSystemTaskLock moves a     *)
(* lease that is still good, which time abstracts from; when it is lost    *)
(* the heartbeat cancels the handler's context.                            *)
Heartbeat(r, t) ==
    /\ exec[r][t] = "run"
    /\ ~(Holds(r, t) /\ ~lock.expired)
    /\ exec' = [exec EXCEPT ![r][t] = "cancelled"]
    /\ UNCHANGED <<status, lockedBy, lock, pc, arg, old, past, faults, slow>>

(* FinishSystemTask, cancelled or not: only under the lease.  A handler    *)
(* whose call fails, or whose UpdateSystemTaskState does, just returns.    *)
FinishSystemTask(r, t, result) ==
    /\ exec[r][t] \in {"run", "cancelled"}
    /\ \/ /\ status[t] = "running" /\ lockedBy[t] = r
          /\ Holds(r, t) /\ ~lock.expired
          /\ status' = [status EXCEPT ![t] = result]
          /\ exec' = [exec EXCEPT ![r][t] = "release"]
          /\ UNCHANGED faults
       \/ /\ ~(status[t] = "running" /\ lockedBy[t] = r /\ Holds(r, t) /\ ~lock.expired)
          /\ exec' = [exec EXCEPT ![r][t] = "no"]
          /\ UNCHANGED <<status, faults>>
       \/ /\ Fault
          /\ exec' = [exec EXCEPT ![r][t] = "no"]
          /\ UNCHANGED status
    /\ UNCHANGED <<lockedBy, lock, pc, arg, old, past, slow>>

FinishRelease(r, t) ==
    /\ exec[r][t] = "release"
    /\ Release(r, t)
    /\ exec' = [exec EXCEPT ![r][t] = "no"]
    /\ UNCHANGED <<status, lockedBy, pc, arg, old, slow>>
-----------------------------------------------------------------------------
(* ExpireStaleSystemTaskLocks: find, mark, delete.                         *)
SweepRead(r) ==
    /\ pc[r] = "idle"
    /\ lock.expired
    /\ Goto(r, "sweep_mark", lock.task)
    /\ past' = [past EXCEPT ![r] = TRUE]
    /\ UNCHANGED <<status, lockedBy, lock, old, exec, faults, slow>>

\* Mutant: the lock is deleted and the task is not marked.
SweepMarkNothing(r) ==
    /\ pc[r] = "sweep_mark"
    /\ Goto(r, "sweep_delete", arg[r])
    /\ UNCHANGED <<status, lockedBy, lock, old, past, exec, faults, slow>>

SweepMark(r) ==
    /\ pc[r] = "sweep_mark"
    /\ \/ /\ MarkExpired(arg[r])
          /\ Goto(r, "sweep_delete", arg[r])
          /\ UNCHANGED faults
       \/ /\ Fault
          /\ Goto(r, "idle", None)
          /\ UNCHANGED status
    /\ UNCHANGED <<lockedBy, lock, old, past, exec, slow>>

\* Mutant: the lock of the type is deleted, whoever holds it by now.
SweepDeleteAny(r) ==
    /\ pc[r] = "sweep_delete"
    /\ SetLock(Free)
    /\ Goto(r, "idle", None)
    /\ UNCHANGED <<status, lockedBy, old, exec, faults, slow>>

SweepDelete(r) ==
    /\ pc[r] = "sweep_delete"
    /\ \/ /\ IF past[r] THEN SetLock(Free) ELSE UNCHANGED <<lock, past>>
          /\ UNCHANGED faults
       \/ /\ UNCHANGED <<lock, past>>
          /\ Fault
    /\ Goto(r, "idle", None)
    /\ UNCHANGED <<status, lockedBy, old, exec, slow>>
-----------------------------------------------------------------------------
(* Sixty seconds without a renewal: the holder has stopped or hangs.       *)
LeaseExpires ==
    /\ lock # Free /\ ~lock.expired
    /\ lock' = [lock EXCEPT !.expired = TRUE]
    /\ slow' = (slow \/ pc[lock.by] \in {"mark", "update"})
    /\ UNCHANGED <<status, lockedBy, pc, arg, old, past, exec, faults>>

(* The node stops.  One node survives.                                     *)
Crash(r) ==
    /\ Alive(r) /\ \E q \in Runner \ {r} : Alive(q)
    /\ Goto(r, "dead", None)
    /\ exec' = [exec EXCEPT ![r] = [t \in Task |-> "no"]]
    /\ old' = [old EXCEPT ![r] = None] /\ past' = [past EXCEPT ![r] = FALSE]
    /\ UNCHANGED <<status, lockedBy, lock, faults, slow>>

ClaimStep(r) ==
    \/ ClaimInsert(r) \/ ClaimLookup(r) \/ ClaimTakeOver(r)
    \/ ClaimMark(r) \/ ClaimUpdate(r) \/ ClaimRelease(r)

SweepStep(r) == SweepMark(r) \/ SweepDelete(r)

Run(r, t) ==
    \/ \E result \in {"succeeded", "failed"} : FinishSystemTask(r, t, result)
    \/ FinishRelease(r, t)

Next ==
    \/ \E t \in Task : CreateSystemTask(t)
    \/ \E r \in Runner :
         \/ ClaimStep(r) \/ SweepRead(r) \/ SweepStep(r) \/ Crash(r)
         \/ \E t \in Task : ClaimRead(r, t) \/ Heartbeat(r, t) \/ Run(r, t)
    \/ LeaseExpires

Spec == Init /\ [][Next]_vars

(* A lease that nobody renews expires: its holder runs neither the handler *)
(* of its task nor, after the lock, the claim.                             *)
Unrenewed ==
    lock # Free => /\ exec[lock.by][lock.task] = "no"
                   /\ pc[lock.by] \notin {"mark", "update", "release"}

(* The loop of a live runner goes on and begins a sweep and a claim every  *)
(* few seconds; a handler returns.                                         *)
FairSpec ==
    /\ Spec
    /\ WF_vars(LeaseExpires /\ Unrenewed)
    /\ \A r \in Runner :
         /\ WF_vars(ClaimStep(r)) /\ WF_vars(SweepStep(r))
         /\ SF_vars(SweepRead(r)) /\ SF_vars(\E t \in Task : ClaimRead(r, t))
         /\ WF_vars(\E t \in Task : Run(r, t))
-----------------------------------------------------------------------------
(* Types of the rows, the lock and the positions of the runners.           *)
TypeOK ==
    /\ status \in [Task -> Status]
    /\ lockedBy \in [Task -> Runner \cup {None}]
    /\ lock \in LockRow \cup {Free}
    /\ pc \in [Runner -> {"idle", "dead"} \cup Claiming \cup Sweeping]
    /\ arg \in [Runner -> Task \cup {None}]
    /\ old \in [Runner -> Task \cup {None}]
    /\ past \in [Runner -> BOOLEAN]
    /\ exec \in [Runner -> [Task -> {"no", "run", "cancelled", "release"}]]
    /\ faults \in Nat
    /\ slow \in BOOLEAN

(* A row that says running has a lease, its runner's: so a runner that     *)
(* stops is found out by the expiry of the lease, and the type is not      *)
(* blocked for ever by an active row nobody will end.  The exception is a  *)
(* claim that was overtaken by the expiry of its own lease.                *)
RunningIsLeased ==
    ~slow => \A t \in Task : status[t] = "running" => Holds(lockedBy[t], t)

(* The handler of a task runs on the runner named by its row, and so on    *)
(* one runner only, however claims, expiries and take-overs interleave;    *)
(* and the handlers of two tasks of the type may overlap only while one of *)
(* them has lost its task and not noticed.                                 *)
OneExecutor ==
    /\ \A r \in Runner, t \in Task : exec[r][t] # "no" => lockedBy[t] = r
    /\ \A t, u \in Task : Active(t) /\ Active(u) => t = u

(* Why RunningIsLeased is kept: the lock belongs to the claim that will    *)
(* mark the task running, an expired lock can be taken over or deleted     *)
(* only by an operation that began after it expired, and such an operation *)
(* sees the task pending, or has marked it failed.                         *)
RowsOK ==
    \A t \in Task :
        /\ status[t] \in {"none", "pending"} <=> lockedBy[t] = None
        /\ \A r \in Runner : /\ exec[r][t] # "no" => lockedBy[t] = r
                             /\ exec[r][t] = "release" => Ended(t)

OneActive == \A t, u \in Task : Active(t) /\ Active(u) => t = u

LoopsOK ==
    \A r \in Runner :
        /\ pc[r] \in Claiming \cup Sweeping => arg[r] \in Task
        /\ pc[r] \in Claiming => lockedBy[arg[r]] # r
        /\ past[r] => lock.expired
        /\ pc[r] \in Sweeping /\ past[r] => lock.task = arg[r]

LeasesOK ==
    ~slow => \A r \in Runner :
        /\ pc[r] \in {"mark", "update"} => Holds(r, arg[r]) /\ ~lock.expired
        /\ pc[r] \in {"insert", "lookup", "takeover"} /\ past[r] => status[arg[r]] = "pending"
        /\ pc[r] = "sweep_delete" /\ past[r] => status[arg[r]] # "running"

IInv == TypeOK /\ RowsOK /\ OneActive /\ LoopsOK /\ LeasesOK /\ RunningIsLeased

(* SystemTask implements JobQueue.                                         *)
Queue == INSTANCE JobQueue
    WITH job <- [t \in Task |-> [status |-> status[t], by |-> lockedBy[t]]]

QueueSpec == Queue!Spec

(* Every task ends: crashes, lost leases and database errors delay it, but *)
(* a claim that outlives its lease may leave it running for ever.          *)
TasksEnd == \A t \in Task : Active(t) ~> (Ended(t) \/ slow)
=============================================================================
