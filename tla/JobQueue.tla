------------------------------ MODULE JobQueue ------------------------------
(***************************************************************************)
(* What the system tasks of one type promise, whatever the nodes do: tasks *)
(* run one after the other, each is started at most once and by one        *)
(* runner, and ends once.  SystemTask implements this.                     *)
(***************************************************************************)
CONSTANTS Task, Runner, None

VARIABLE job    \* the status of every task and the runner that started it

Active(t) == job[t].status \in {"pending", "running"}

Init == job = [t \in Task |-> [status |-> "none", by |-> None]]

Create(t) ==
    /\ job[t].status = "none"
    /\ \A u \in Task : ~Active(u)
    /\ job' = [job EXCEPT ![t] = [status |-> "pending", by |-> None]]

Start(t, r) ==
    /\ job[t].status = "pending"
    /\ job' = [job EXCEPT ![t] = [status |-> "running", by |-> r]]

End(t, status) ==
    /\ job[t].status = "running"
    /\ job' = [job EXCEPT ![t] = [status |-> status, by |-> job[t].by]]

Next ==
    \E t \in Task :
        \/ Create(t)
        \/ \E r \in Runner : Start(t, r)
        \/ \E status \in {"succeeded", "failed"} : End(t, status)

Spec == Init /\ [][Next]_job
=============================================================================
