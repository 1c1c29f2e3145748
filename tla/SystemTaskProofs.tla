-------------------------- MODULE SystemTaskProofs --------------------------
(***************************************************************************)
(* Proofs about SystemTask, for any sets of runners and tasks and any      *)
(* number of crashes and database errors: the inductive invariant, the two *)
(* safety properties it implies, and the refinement of JobQueue.           *)
(***************************************************************************)
EXTENDS SystemTask, TLAPS

USE TaskAssumption DEF Status, LockRow, Free, Claiming, Sweeping, Active,
   Ended, Holds

\* A runner's loop stays at a known position with a task or none.
LEMMA GotoType ==
  ASSUME TypeOK, NEW r \in Runner, NEW t \in Task \cup {None},
         NEW label \in {"idle", "dead"} \cup Claiming \cup Sweeping, Goto(r,
            label, t)
  PROVE  /\ pc' \in [Runner -> {"idle", "dead"} \cup Claiming \cup Sweeping]
         /\ arg' \in [Runner -> Task \cup {None}]
  BY DEF TypeOK, Goto

\* The lock row, or its absence, has a flag and a task or none.
LEMMA LockType ==
  ASSUME TypeOK
  PROVE  lock.expired \in BOOLEAN /\ lock.task \in Task \cup {None}
<1>1. CASE lock \in LockRow
  BY <1>1 DEF TypeOK
<1>2. CASE lock = Free
  BY <1>2 DEF TypeOK
<1>q. QED
  BY <1>1, <1>2 DEF TypeOK

\* Replacing the lock row keeps its type and that of past.
LEMMA SetLockType ==
  ASSUME NEW row \in LockRow \cup {Free}, SetLock(row)
  PROVE  lock' \in LockRow \cup {Free} /\ past' \in [Runner -> BOOLEAN]
<1>1. past' \in [Runner -> BOOLEAN]
  BY Zenon DEF SetLock
<1>q. QED
  BY <1>1 DEF SetLock

\* The lock row a claim writes is a lock row.
LEMMA NewLockType ==
  ASSUME NEW r \in Runner, NEW t \in Task,
         SetLock([task |-> t, by |-> r, expired |-> FALSE])
  PROVE  lock' \in LockRow \cup {Free} /\ past' \in [Runner -> BOOLEAN]
<1>1. [task |-> t, by |-> r, expired |-> FALSE] \in LockRow
  OBVIOUS
<1>q. QED
  BY <1>1, SetLockType, Zenon

\* Deleting the lock row keeps the types.
LEMMA FreeLockType ==
  ASSUME SetLock(Free)
  PROVE  lock' \in LockRow \cup {Free} /\ past' \in [Runner -> BOOLEAN]
  BY SetLockType, Zenon

\* A database error keeps the count of errors a number.
LEMMA FaultType ==
  ASSUME TypeOK, Fault
  PROVE  faults' \in Nat
  BY DEF TypeOK, Fault

\* A change of one handler keeps the type of exec.
LEMMA ExecType ==
  ASSUME TypeOK, NEW r \in Runner, NEW t \in Task,
         NEW v \in {"no", "run", "cancelled", "release"},
         exec' = [exec EXCEPT ![r][t] = v]
  PROVE  exec' \in [Runner -> [Task -> {"no", "run", "cancelled", "release"}]]
  BY DEF TypeOK

\* MarkSystemTaskLeaseExpired keeps the type of the statuses.
LEMMA MarkType ==
  ASSUME TypeOK, NEW t \in Task \cup {None}, MarkExpired(t)
  PROVE  status' \in [Task -> Status]
  BY DEF TypeOK, MarkExpired

\* No rows, no lock and idle runners satisfy the invariant.
LEMMA InitEstablishes == Init => IInv
<1> SUFFICES ASSUME Init PROVE IInv
  OBVIOUS
<1>1. TypeOK
  BY DEF Init, TypeOK
<1>2. RowsOK
  BY DEF Init, RowsOK
<1>3. OneActive
  BY DEF Init, OneActive
<1>4. LoopsOK
  BY DEF Init, LoopsOK
<1>5. LeasesOK
  BY DEF Init, LeasesOK
<1>6. RunningIsLeased
  BY DEF Init, RunningIsLeased
<1>q. QED
  BY <1>1, <1>2, <1>3, <1>4, <1>5, <1>6 DEF IInv

\* A new row is not active beside another: the unique active_key.
LEMMA CreateKeeps ==
  ASSUME IInv, NEW t \in Task, CreateSystemTask(t)
  PROVE  IInv'
<1>1. TypeOK'
  BY DEF CreateSystemTask, IInv, TypeOK
<1>2. RowsOK'
  BY DEF CreateSystemTask, IInv, RowsOK
<1>3. OneActive'
  BY DEF CreateSystemTask, IInv, OneActive
<1>4. LoopsOK'
  BY DEF CreateSystemTask, IInv, LoopsOK
<1>5. LeasesOK'
  BY DEF CreateSystemTask, IInv, LeasesOK
<1>6. RunningIsLeased'
  BY DEF CreateSystemTask, IInv, RunningIsLeased
<1>q. QED
  BY <1>1, <1>2, <1>3, <1>4, <1>5, <1>6 DEF IInv

\* A claim that begins has read a row that is pending.
LEMMA ClaimReadKeeps ==
  ASSUME IInv, NEW r \in Runner, NEW t \in Task, ClaimRead(r, t)
  PROVE  IInv'
<1>1. TypeOK'
  <2>1. past' \in [Runner -> BOOLEAN]
    BY LockType, Zenon DEF ClaimRead, IInv, TypeOK
  <2>q. QED
    BY <2>1, GotoType DEF ClaimRead, IInv, TypeOK
<1>2. RowsOK'
  BY DEF ClaimRead, Goto, IInv, RowsOK
<1>3. OneActive'
  BY DEF ClaimRead, Goto, IInv, OneActive
<1>4. LoopsOK'
  BY DEF ClaimRead, Goto, IInv, TypeOK, RowsOK, LoopsOK
<1>5. LeasesOK'
  BY DEF ClaimRead, Goto, IInv, TypeOK, LeasesOK
<1>6. RunningIsLeased'
  BY DEF ClaimRead, Goto, IInv, RunningIsLeased
<1>q. QED
  BY <1>1, <1>2, <1>3, <1>4, <1>5, <1>6 DEF IInv

\* Inserting the lock row makes the claim its holder.
LEMMA ClaimInsertKeeps ==
  ASSUME IInv, NEW r \in Runner, ClaimInsert(r)
  PROVE  IInv'
<1>1. TypeOK'
  <2>1. arg[r] \in Task
    BY DEF ClaimInsert, IInv, LoopsOK
  <2>2. lock' \in LockRow \cup {Free} /\ past' \in [Runner -> BOOLEAN]
    <3>1. CASE lock = Free
      BY <2>1, <3>1, NewLockType, Zenon DEF ClaimInsert
    <3>2. CASE lock # Free
      BY <3>2, Zenon DEF ClaimInsert, IInv, TypeOK
    <3>q. QED
      BY <3>1, <3>2
  <2>q. QED
    BY <2>1, <2>2, GotoType DEF ClaimInsert, IInv, TypeOK
<1>2. RowsOK'
  BY DEF ClaimInsert, SetLock, Goto, IInv, RowsOK
<1>3. OneActive'
  BY DEF ClaimInsert, SetLock, Goto, IInv, OneActive
<1>4. LoopsOK'
  BY DEF ClaimInsert, SetLock, Goto, IInv, TypeOK, LoopsOK
<1>5. LeasesOK'
  BY DEF ClaimInsert, SetLock, Goto, IInv, TypeOK, LeasesOK
<1>6. RunningIsLeased'
  BY DEF ClaimInsert, SetLock, Goto, IInv, RunningIsLeased
<1>q. QED
  BY <1>1, <1>2, <1>3, <1>4, <1>5, <1>6 DEF IInv

\* A failed insertion leads to a take-over only below `now`.
LEMMA ClaimLookupKeeps ==
  ASSUME IInv, NEW r \in Runner, ClaimLookup(r)
  PROVE  IInv'
<1>1. TypeOK'
  BY GotoType DEF ClaimLookup, IInv, TypeOK, LoopsOK
<1>2. RowsOK'
  BY DEF ClaimLookup, Goto, IInv, RowsOK
<1>3. OneActive'
  BY DEF ClaimLookup, Goto, IInv, OneActive
<1>4. LoopsOK'
  BY DEF ClaimLookup, Goto, IInv, TypeOK, LoopsOK
<1>5. LeasesOK'
  BY DEF ClaimLookup, Goto, IInv, TypeOK, LeasesOK
<1>6. RunningIsLeased'
  BY DEF ClaimLookup, Goto, IInv, RunningIsLeased
<1>q. QED
  BY <1>1, <1>2, <1>3, <1>4, <1>5, <1>6 DEF IInv

\* The conditional update takes over only an expired lease.
LEMMA ClaimTakeOverKeeps ==
  ASSUME IInv, NEW r \in Runner, ClaimTakeOver(r)
  PROVE  IInv'
<1>1. TypeOK'
  <2>1. arg[r] \in Task
    BY DEF ClaimTakeOver, IInv, LoopsOK
  <2>2. lock' \in LockRow \cup {Free} /\ past' \in [Runner -> BOOLEAN]
    <3>1. CASE past[r]
      BY <2>1, <3>1, NewLockType, Zenon DEF ClaimTakeOver
    <3>2. CASE ~past[r]
      BY <3>2, Zenon DEF ClaimTakeOver, IInv, TypeOK
    <3>q. QED
      BY <3>1, <3>2
  <2>3. old' \in [Runner -> Task \cup {None}]
    BY LockType DEF ClaimTakeOver, IInv, TypeOK
  <2>q. QED
    BY <2>1, <2>2, <2>3, GotoType DEF ClaimTakeOver, IInv, TypeOK
<1>2. RowsOK'
  BY DEF ClaimTakeOver, SetLock, Goto, IInv, RowsOK
<1>3. OneActive'
  BY DEF ClaimTakeOver, SetLock, Goto, IInv, OneActive
<1>4. LoopsOK'
  BY DEF ClaimTakeOver, SetLock, Goto, IInv, TypeOK, LoopsOK
<1>5. LeasesOK'
  BY DEF ClaimTakeOver, SetLock, Goto, IInv, TypeOK, LoopsOK, LeasesOK
<1>6. RunningIsLeased'
  BY DEF ClaimTakeOver, SetLock, Goto, IInv, TypeOK, RowsOK, OneActive,
     LoopsOK, LeasesOK, RunningIsLeased
<1>q. QED
  BY <1>1, <1>2, <1>3, <1>4, <1>5, <1>6 DEF IInv

\* The task of the lease that was taken over is not left running.
LEMMA ClaimMarkKeeps ==
  ASSUME IInv, NEW r \in Runner, ClaimMark(r)
  PROVE  IInv'
<1>1. TypeOK'
  BY GotoType, FaultType, MarkType DEF ClaimMark, IInv, TypeOK, LoopsOK
<1>2. RowsOK'
  BY DEF ClaimMark, MarkExpired, Fault, Goto, IInv, TypeOK, RowsOK
<1>3. OneActive'
  BY DEF ClaimMark, MarkExpired, Fault, Goto, IInv, TypeOK, OneActive
<1>4. LoopsOK'
  <2>1. arg[r] \in Task /\ lockedBy[arg[r]] # r
    BY DEF ClaimMark, IInv, LoopsOK
  <2>2. UNCHANGED <<lock, past, lockedBy>>
    BY DEF ClaimMark
  <2>3. arg' = arg
    BY DEF ClaimMark, Goto, IInv, TypeOK
  <2>4. \A q \in Runner \ {r} : pc'[q] = pc[q]
    BY DEF ClaimMark, Goto, IInv, TypeOK
  <2>5. pc'[r] \in {"update", "release"}
    BY DEF ClaimMark, Goto, IInv, TypeOK
  <2>q. QED
    BY <2>1, <2>2, <2>3, <2>4, <2>5 DEF IInv, LoopsOK
<1>5. LeasesOK'
  BY DEF ClaimMark, MarkExpired, Fault, Goto, IInv, TypeOK, LoopsOK, LeasesOK
<1>6. RunningIsLeased'
  BY DEF ClaimMark, MarkExpired, Fault, Goto, IInv, TypeOK, RunningIsLeased
<1>q. QED
  BY <1>1, <1>2, <1>3, <1>4, <1>5, <1>6 DEF IInv

\* The claim marks its task running under a lease it still has.
LEMMA ClaimUpdateKeeps ==
  ASSUME IInv, NEW r \in Runner, ClaimUpdate(r)
  PROVE  IInv'
<1>1. TypeOK'
  <2>1. arg[r] \in Task
    BY DEF ClaimUpdate, IInv, LoopsOK
  <2>2. status' \in [Task -> Status] /\ lockedBy' \in [Task -> Runner \cup
     {None}]
    <3>1. CASE UNCHANGED <<status, lockedBy>>
      BY <3>1 DEF IInv, TypeOK
    <3>2. CASE /\ status' = [status EXCEPT ![arg[r]] = "running"]
               /\ lockedBy' = [lockedBy EXCEPT ![arg[r]] = r]
      BY <2>1, <3>2 DEF IInv, TypeOK
    <3>q. QED
      BY <3>1, <3>2 DEF ClaimUpdate
  <2>3. exec' \in [Runner -> [Task -> {"no", "run", "cancelled", "release"}]]
    BY <2>1 DEF ClaimUpdate, IInv, TypeOK
  <2>4. faults' \in Nat
    BY FaultType DEF ClaimUpdate, IInv, TypeOK
  <2>q. QED
    BY <2>1, <2>2, <2>3, <2>4, GotoType DEF ClaimUpdate, IInv, TypeOK
<1>2. RowsOK'
  BY SMTT(30) DEF ClaimUpdate, Fault, Goto, IInv, TypeOK, RowsOK
<1>3. OneActive'
  BY DEF ClaimUpdate, Fault, Goto, IInv, TypeOK, OneActive
<1>4. LoopsOK'
  BY DEF ClaimUpdate, Fault, Goto, IInv, TypeOK, LoopsOK
<1>5. LeasesOK'
  BY DEF ClaimUpdate, Fault, Goto, IInv, TypeOK, LoopsOK, LeasesOK
<1>6. RunningIsLeased'
  BY DEF ClaimUpdate, Fault, Goto, IInv, TypeOK, LoopsOK, LeasesOK,
     RunningIsLeased
<1>q. QED
  BY <1>1, <1>2, <1>3, <1>4, <1>5, <1>6 DEF IInv

\* A claim that gave up releases a lock under which nothing runs.
LEMMA ClaimReleaseKeeps ==
  ASSUME IInv, NEW r \in Runner, ClaimRelease(r)
  PROVE  IInv'
<1>1. TypeOK'
  <2>1. lock' \in LockRow \cup {Free} /\ past' \in [Runner -> BOOLEAN]
    BY FreeLockType, Zenon DEF ClaimRelease, Release, IInv, TypeOK
  <2>q. QED
    BY <2>1, GotoType, FaultType DEF ClaimRelease, Release, IInv, TypeOK,
       LoopsOK
<1>2. RowsOK'
  BY DEF ClaimRelease, Release, SetLock, Fault, Goto, IInv, RowsOK
<1>3. OneActive'
  BY DEF ClaimRelease, Release, SetLock, Fault, Goto, IInv, OneActive
<1>4. LoopsOK'
  BY DEF ClaimRelease, Release, SetLock, Fault, Goto, IInv, TypeOK, LoopsOK
<1>5. LeasesOK'
  BY DEF ClaimRelease, Release, SetLock, Fault, Goto, IInv, LeasesOK
<1>6. RunningIsLeased'
  BY DEF ClaimRelease, Release, SetLock, Fault, Goto, IInv, TypeOK, LoopsOK,
     RunningIsLeased
<1>q. QED
  BY <1>1, <1>2, <1>3, <1>4, <1>5, <1>6 DEF IInv

\* A heartbeat that lost its lease only cancels its handler.
LEMMA HeartbeatKeeps ==
  ASSUME IInv, NEW r \in Runner, NEW t \in Task, Heartbeat(r, t)
  PROVE  IInv'
<1>1. TypeOK'
  BY DEF Heartbeat, IInv, TypeOK
<1>2. RowsOK'
  BY DEF Heartbeat, IInv, RowsOK
<1>3. OneActive'
  BY DEF Heartbeat, IInv, OneActive
<1>4. LoopsOK'
  BY DEF Heartbeat, IInv, LoopsOK
<1>5. LeasesOK'
  BY DEF Heartbeat, IInv, LeasesOK
<1>6. RunningIsLeased'
  BY DEF Heartbeat, IInv, RunningIsLeased
<1>q. QED
  BY <1>1, <1>2, <1>3, <1>4, <1>5, <1>6 DEF IInv

\* A handler ends its task only under its lease.
LEMMA FinishKeeps ==
  ASSUME IInv, NEW r \in Runner, NEW t \in Task, NEW result \in {"succeeded",
     "failed"},
         FinishSystemTask(r, t, result)
  PROVE  IInv'
<1>1. TypeOK'
  <2>1. status' \in [Task -> Status]
    BY DEF FinishSystemTask, IInv, TypeOK
  <2>2. exec' \in [Runner -> [Task -> {"no", "run", "cancelled", "release"}]]
    <3>1. exec' \in {[exec EXCEPT ![r][t] = v] : v \in {"release", "no"}}
      BY DEF FinishSystemTask
    <3>q. QED
      BY <3>1, ExecType DEF IInv
  <2>3. faults' \in Nat
    BY FaultType DEF FinishSystemTask, IInv, TypeOK
  <2>q. QED
    BY <2>1, <2>2, <2>3 DEF FinishSystemTask, IInv, TypeOK
<1>2. RowsOK'
  <2>1. ASSUME NEW u \in Task
        PROVE  status'[u] \in {"none", "pending"} <=> lockedBy'[u] = None
    BY DEF FinishSystemTask, IInv, TypeOK, RowsOK
  <2>2. ASSUME NEW u \in Task, NEW q \in Runner
        PROVE  /\ exec'[q][u] # "no" => lockedBy'[u] = q
               /\ exec'[q][u] = "release" => status'[u] \in {"succeeded",
                  "failed"}
    <3>1. CASE q = r /\ u = t
      BY <3>1 DEF FinishSystemTask, IInv, TypeOK, RowsOK
    <3>2. CASE ~(q = r /\ u = t)
      <4>1. exec'[q][u] = exec[q][u] /\ lockedBy' = lockedBy
        BY <3>2 DEF FinishSystemTask, IInv, TypeOK
      <4>2. Ended(u) => status'[u] = status[u]
        BY DEF FinishSystemTask, IInv, TypeOK
      <4>q. QED
        BY <4>1, <4>2 DEF IInv, RowsOK
    <3>q. QED
      BY <3>1, <3>2
  <2>q. QED
    BY <2>1, <2>2 DEF RowsOK
<1>3. OneActive'
  BY DEF FinishSystemTask, Fault, IInv, TypeOK, OneActive
<1>4. LoopsOK'
  BY DEF FinishSystemTask, Fault, IInv, LoopsOK
<1>5. LeasesOK'
  BY DEF FinishSystemTask, Fault, IInv, TypeOK, LoopsOK, LeasesOK
<1>6. RunningIsLeased'
  BY DEF FinishSystemTask, Fault, IInv, TypeOK, RunningIsLeased
<1>q. QED
  BY <1>1, <1>2, <1>3, <1>4, <1>5, <1>6 DEF IInv

\* The lock is released after its task has ended.
LEMMA FinishReleaseKeeps ==
  ASSUME IInv, NEW r \in Runner, NEW t \in Task, FinishRelease(r, t)
  PROVE  IInv'
<1>1. TypeOK'
  <2>1. lock' \in LockRow \cup {Free} /\ past' \in [Runner -> BOOLEAN]
    BY FreeLockType, Zenon DEF FinishRelease, Release, IInv, TypeOK
  <2>q. QED
    BY <2>1, FaultType DEF FinishRelease, Release, IInv, TypeOK, LoopsOK
<1>2. RowsOK'
  BY DEF FinishRelease, Release, SetLock, Fault, IInv, RowsOK
<1>3. OneActive'
  BY DEF FinishRelease, Release, SetLock, Fault, IInv, OneActive
<1>4. LoopsOK'
  BY DEF FinishRelease, Release, SetLock, Fault, IInv, LoopsOK
<1>5. LeasesOK'
  BY DEF FinishRelease, Release, SetLock, Fault, IInv, TypeOK, RowsOK,
     LoopsOK, LeasesOK
<1>6. RunningIsLeased'
  BY DEF FinishRelease, Release, SetLock, Fault, IInv, RowsOK, RunningIsLeased
<1>q. QED
  BY <1>1, <1>2, <1>3, <1>4, <1>5, <1>6 DEF IInv

\* An expiry begins with the task of an expired lock.
LEMMA SweepReadKeeps ==
  ASSUME IInv, NEW r \in Runner, SweepRead(r)
  PROVE  IInv'
<1>1. TypeOK'
  BY DEF SweepRead, Goto, IInv, TypeOK
<1>2. RowsOK'
  BY DEF SweepRead, Goto, IInv, RowsOK
<1>3. OneActive'
  BY DEF SweepRead, Goto, IInv, OneActive
<1>4. LoopsOK'
  BY DEF SweepRead, Goto, IInv, TypeOK, LoopsOK
<1>5. LeasesOK'
  BY DEF SweepRead, Goto, IInv, LeasesOK
<1>6. RunningIsLeased'
  BY DEF SweepRead, Goto, IInv, RunningIsLeased
<1>q. QED
  BY <1>1, <1>2, <1>3, <1>4, <1>5, <1>6 DEF IInv

\* The task of an expired lock is failed before the lock is deleted.
LEMMA SweepMarkKeeps ==
  ASSUME IInv, NEW r \in Runner, SweepMark(r)
  PROVE  IInv'
<1>1. TypeOK'
  BY GotoType, FaultType, MarkType DEF SweepMark, IInv, TypeOK, LoopsOK
<1>2. RowsOK'
  BY DEF SweepMark, MarkExpired, Fault, Goto, IInv, TypeOK, RowsOK
<1>3. OneActive'
  BY DEF SweepMark, MarkExpired, Fault, Goto, IInv, TypeOK, OneActive
<1>4. LoopsOK'
  BY DEF SweepMark, MarkExpired, Fault, Goto, IInv, TypeOK, LoopsOK
<1>5. LeasesOK'
  BY DEF SweepMark, MarkExpired, Fault, Goto, IInv, TypeOK, LoopsOK, LeasesOK
<1>6. RunningIsLeased'
  BY DEF SweepMark, MarkExpired, Fault, Goto, IInv, TypeOK, RunningIsLeased
<1>q. QED
  BY <1>1, <1>2, <1>3, <1>4, <1>5, <1>6 DEF IInv

\* Deleting an expired lock leaves no running task without one.
LEMMA SweepDeleteKeeps ==
  ASSUME IInv, NEW r \in Runner, SweepDelete(r)
  PROVE  IInv'
<1>1. TypeOK'
  <2>1. lock' \in LockRow \cup {Free} /\ past' \in [Runner -> BOOLEAN]
    BY FreeLockType, Zenon DEF SweepDelete, IInv, TypeOK
  <2>q. QED
    BY <2>1, GotoType, FaultType DEF SweepDelete, IInv, TypeOK, LoopsOK
<1>2. RowsOK'
  BY DEF SweepDelete, SetLock, Fault, Goto, IInv, RowsOK
<1>3. OneActive'
  BY DEF SweepDelete, SetLock, Fault, Goto, IInv, OneActive
<1>4. LoopsOK'
  BY DEF SweepDelete, SetLock, Fault, Goto, IInv, TypeOK, LoopsOK
<1>5. LeasesOK'
  BY DEF SweepDelete, SetLock, Fault, Goto, IInv, TypeOK, LoopsOK, LeasesOK
<1>6. RunningIsLeased'
  BY DEF SweepDelete, SetLock, Fault, Goto, IInv, TypeOK, LoopsOK, LeasesOK,
     RunningIsLeased
<1>q. QED
  BY <1>1, <1>2, <1>3, <1>4, <1>5, <1>6 DEF IInv

\* A lease that expires during its own claim is recorded in slow.
LEMMA LeaseExpiresKeeps ==
  ASSUME IInv, LeaseExpires
  PROVE  IInv'
<1>1. TypeOK'
  BY DEF LeaseExpires, IInv, TypeOK
<1>2. RowsOK'
  BY DEF LeaseExpires, IInv, RowsOK
<1>3. OneActive'
  BY DEF LeaseExpires, IInv, OneActive
<1>4. LoopsOK'
  BY DEF LeaseExpires, IInv, LoopsOK
<1>5. LeasesOK'
  BY DEF LeaseExpires, IInv, LeasesOK
<1>6. RunningIsLeased'
  BY DEF LeaseExpires, IInv, TypeOK, RunningIsLeased
<1>q. QED
  BY <1>1, <1>2, <1>3, <1>4, <1>5, <1>6 DEF IInv

\* A runner that stops leaves its rows and its lock as they are.
LEMMA CrashKeeps ==
  ASSUME IInv, NEW r \in Runner, Crash(r)
  PROVE  IInv'
<1>1. TypeOK'
  BY DEF Crash, Goto, Alive, IInv, TypeOK
<1>2. RowsOK'
  BY DEF Crash, Goto, Alive, IInv, RowsOK
<1>3. OneActive'
  BY DEF Crash, Goto, Alive, IInv, OneActive
<1>4. LoopsOK'
  BY DEF Crash, Goto, Alive, IInv, TypeOK, LoopsOK
<1>5. LeasesOK'
  BY DEF Crash, Goto, Alive, IInv, TypeOK, LeasesOK
<1>6. RunningIsLeased'
  BY DEF Crash, Goto, Alive, IInv, RunningIsLeased
<1>q. QED
  BY <1>1, <1>2, <1>3, <1>4, <1>5, <1>6 DEF IInv

\* Every step keeps the invariant.
LEMMA NextKeeps ==
  ASSUME IInv, [Next]_vars
  PROVE  IInv'
<1>1. CASE \E t \in Task : CreateSystemTask(t)
  BY <1>1, CreateKeeps
<1>2. ASSUME NEW r \in Runner, ClaimStep(r)
      PROVE  IInv'
  BY <1>2, ClaimInsertKeeps, ClaimLookupKeeps, ClaimTakeOverKeeps,
     ClaimMarkKeeps,
     ClaimUpdateKeeps, ClaimReleaseKeeps DEF ClaimStep
<1>3. ASSUME NEW r \in Runner, SweepRead(r) \/ SweepStep(r) \/ Crash(r)
      PROVE  IInv'
  BY <1>3, SweepReadKeeps, SweepMarkKeeps, SweepDeleteKeeps, CrashKeeps DEF
     SweepStep
<1>4. ASSUME NEW r \in Runner, NEW t \in Task, ClaimRead(r, t) \/ Heartbeat(r,
   t) \/ Run(r, t)
      PROVE  IInv'
  BY <1>4, ClaimReadKeeps, HeartbeatKeeps, FinishKeeps, FinishReleaseKeeps DEF
     Run
<1>5. CASE LeaseExpires
  BY <1>5, LeaseExpiresKeeps
<1>6. CASE UNCHANGED vars
  BY <1>6 DEF IInv, TypeOK, RowsOK, OneActive, LoopsOK, LeasesOK,
     RunningIsLeased, vars
<1>q. QED
  BY <1>1, <1>2, <1>3, <1>4, <1>5, <1>6 DEF Next

(* The invariant holds in every reachable state: rows, runner loops and    *)
(* the lock fit together at every statement of a claim and of an expiry.   *)
THEOREM Invariance == Spec => []IInv
<1>1. Init => IInv
  BY InitEstablishes
<1>2. IInv /\ [Next]_vars => IInv'
  BY NextKeeps
<1>q. QED
  BY <1>1, <1>2, PTL DEF Spec

(* A task that is running has its runner's lease, unless a claim outlived  *)
(* its own lease: ClaimSystemTask against ExpireStaleSystemTaskLocks.      *)
THEOREM RunningTasksAreLeased == Spec => []RunningIsLeased
<1>1. IInv => RunningIsLeased
  BY DEF IInv
<1>q. QED
  BY <1>1, Invariance, PTL

(* No two runners run the handler of one task, and one task is active.     *)
THEOREM ExecutionIsExclusive == Spec => []OneExecutor
<1>1. IInv => OneExecutor
  BY DEF IInv, RowsOK, OneActive, OneExecutor
<1>q. QED
  BY <1>1, Invariance, PTL
-----------------------------------------------------------------------------
(* The refinement: every step is a step of JobQueue or leaves it alone.    *)

Job == [t \in Task |-> [status |-> status[t], by |-> lockedBy[t]]]

\* The initial state is that of the abstract queue.
LEMMA InitRefines == Init => Queue!Init
  BY DEF Init, Queue!Init

\* A step that changes no row is a stutter of the queue.
LEMMA JobUnchanged ==
  ASSUME UNCHANGED <<status, lockedBy>>
  PROVE  Job' = Job
  BY DEF Job

\* A running row that becomes succeeded or failed is JobQueue's End.
LEMMA EndRefines ==
  ASSUME TypeOK, NEW t \in Task, NEW result \in {"succeeded", "failed"},
         status[t] = "running", status' = [status EXCEPT ![t] = result],
         lockedBy' = lockedBy
  PROVE  Queue!Next
<1>1. Queue!End(t, result)
  BY DEF TypeOK, Queue!End
<1>q. QED
  BY <1>1 DEF Queue!Next

\* MarkSystemTaskLeaseExpired ends a running task or does nothing.
LEMMA MarkRefines ==
  ASSUME TypeOK, NEW t \in Task \cup {None}, MarkExpired(t), lockedBy' =
     lockedBy
  PROVE  Queue!Next \/ Job' = Job
<1>1. CASE t \in Task /\ status[t] = "running"
  BY <1>1, EndRefines DEF MarkExpired
<1>2. CASE ~(t \in Task /\ status[t] = "running")
  BY <1>2, JobUnchanged DEF MarkExpired
<1>q. QED
  BY <1>1, <1>2

\* A row that is inserted is JobQueue's Create.
LEMMA CreateRefines ==
  ASSUME IInv, NEW t \in Task, CreateSystemTask(t)
  PROVE  Queue!Next
<1>1. lockedBy[t] = None /\ lockedBy' = lockedBy
  BY DEF CreateSystemTask, IInv, RowsOK
<1>2. \A u \in Task : ~Queue!Active(u)
  BY DEF CreateSystemTask, Queue!Active
<1>3. Queue!Create(t)
  BY <1>1, <1>2 DEF CreateSystemTask, IInv, TypeOK, Queue!Create
<1>q. QED
  BY <1>3 DEF Queue!Next

\* The compare-and-swap of a claim is JobQueue's Start.
LEMMA ClaimUpdateRefines ==
  ASSUME IInv, NEW r \in Runner, ClaimUpdate(r)
  PROVE  Queue!Next \/ Job' = Job
<1>1. arg[r] \in Task
  BY DEF ClaimUpdate, IInv, LoopsOK
<1>2. CASE /\ status[arg[r]] = "pending"
           /\ status' = [status EXCEPT ![arg[r]] = "running"]
           /\ lockedBy' = [lockedBy EXCEPT ![arg[r]] = r]
  <2>1. Queue!Start(arg[r], r)
    BY <1>1, <1>2 DEF IInv, TypeOK, Queue!Start
  <2>q. QED
    BY <1>1, <2>1 DEF Queue!Next
<1>3. CASE UNCHANGED <<status, lockedBy>>
  BY <1>3, JobUnchanged
<1>q. QED
  BY <1>2, <1>3 DEF ClaimUpdate

\* FinishSystemTask ends the task or does nothing.
LEMMA FinishRefines ==
  ASSUME IInv, NEW r \in Runner, NEW t \in Task, NEW result \in {"succeeded",
     "failed"},
         FinishSystemTask(r, t, result)
  PROVE  Queue!Next \/ Job' = Job
<1>1. CASE status[t] = "running" /\ status' = [status EXCEPT ![t] = result]
  BY <1>1, EndRefines DEF FinishSystemTask, IInv
<1>2. CASE UNCHANGED status
  BY <1>2, JobUnchanged DEF FinishSystemTask
<1>q. QED
  BY <1>1, <1>2 DEF FinishSystemTask

\* Every step is a step of the queue or a stutter.
LEMMA NextRefines ==
  ASSUME IInv, [Next]_vars
  PROVE  Queue!Next \/ Job' = Job
<1>1. CASE \E t \in Task : CreateSystemTask(t)
  BY <1>1, CreateRefines
<1>2. ASSUME NEW r \in Runner, ClaimStep(r)
      PROVE  Queue!Next \/ Job' = Job
  <2>1. CASE ClaimMark(r)
    <3>1. CASE MarkExpired(old[r])
      BY <2>1, <3>1, MarkRefines DEF ClaimMark, IInv, TypeOK
    <3>2. CASE UNCHANGED status
      BY <2>1, <3>2, JobUnchanged DEF ClaimMark
    <3>q. QED
      BY <2>1, <3>1, <3>2 DEF ClaimMark
  <2>2. CASE ClaimUpdate(r)
    BY <2>2, ClaimUpdateRefines
  <2>3. CASE ClaimInsert(r) \/ ClaimLookup(r) \/ ClaimTakeOver(r) \/
     ClaimRelease(r)
    BY <2>3, JobUnchanged DEF ClaimInsert, ClaimLookup, ClaimTakeOver,
       ClaimRelease
  <2>q. QED
    BY <1>2, <2>1, <2>2, <2>3 DEF ClaimStep
<1>3. ASSUME NEW r \in Runner, SweepMark(r)
      PROVE  Queue!Next \/ Job' = Job
  <2>1. CASE MarkExpired(arg[r])
    BY <1>3, <2>1, MarkRefines DEF SweepMark, IInv, TypeOK
  <2>2. CASE UNCHANGED status
    BY <1>3, <2>2, JobUnchanged DEF SweepMark
  <2>q. QED
    BY <1>3, <2>1, <2>2 DEF SweepMark
<1>4. ASSUME NEW r \in Runner, SweepRead(r) \/ SweepDelete(r) \/ Crash(r)
      PROVE  Job' = Job
  BY <1>4, JobUnchanged DEF SweepRead, SweepDelete, Crash
<1>5. ASSUME NEW r \in Runner, NEW t \in Task, ClaimRead(r, t) \/ Heartbeat(r,
   t) \/ Run(r, t)
      PROVE  Queue!Next \/ Job' = Job
  <2>1. CASE ClaimRead(r, t) \/ Heartbeat(r, t) \/ FinishRelease(r, t)
    BY <2>1, JobUnchanged DEF ClaimRead, Heartbeat, FinishRelease
  <2>q. QED
    BY <1>5, <2>1, FinishRefines DEF Run
<1>6. CASE LeaseExpires \/ UNCHANGED vars
  BY <1>6, JobUnchanged DEF LeaseExpires, vars
<1>q. QED
  BY <1>1, <1>2, <1>3, <1>4, <1>5, <1>6 DEF Next, SweepStep

(* SystemTask implements JobQueue: the tasks of a type run one after the   *)
(* other, each started at most once and ended at most once.                *)
THEOREM Refinement == Spec => QueueSpec
<1>1. Init => Queue!Init
  BY InitRefines
<1>2. IInv /\ [Next]_vars => [Queue!Next]_Job
  BY NextRefines
<1>q. QED
  BY <1>1, <1>2, Invariance, PTL DEF Spec, QueueSpec, Queue!Spec, Job
=============================================================================
