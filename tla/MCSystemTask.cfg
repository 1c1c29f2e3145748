SPECIFICATION FairSpec
CONSTANTS
    Task = {t1, t2}
    Runner = {r1, r2}
    None = None
    MaxFaults = 1
INVARIANTS IInv RunningIsLeased OneExecutor
PROPERTIES QueueSpec TasksEnd
CHECK_DEADLOCK FALSE
