SPECIFICATION FairSpec
CONSTANTS
    Tasks = {t1}
    Pollers = {p1, p2}
    Clients = {c1}
    Kinds <- MixedKinds
    Quotas = {0, 3}
    Finals = {0, 3}
    Actuals = {1, 4}
    SubTotal = 3
    MaxPollFailures = 2
    MaxGets = 1
    MaxFaults = 1
INVARIANTS
    FailureLimit
    QuotaIsCharge
    NoOverRefund
    FailureIsRefunded
    IInv
PROPERTIES
    OutcomeIsFinal
    PolledTasksEnd
