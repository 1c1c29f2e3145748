SPECIFICATION Spec
CONSTANTS
    Tasks = {t1}
    Pollers = {p1}
    Clients = {c1}
    Kinds <- RealtimeKinds
    Quotas = {2}
    Finals = {2}
    Actuals = {1}
    SubTotal = 0
    MaxPollFailures = 2
    MaxGets = 1
    MaxFaults = 0
INVARIANTS
    RefundedOnce
