SPECIFICATION FairSpec
CONSTANTS
    Tasks = {t1}
    Pollers = {p1}
    Clients = {c1}
    Kinds <- WalletKinds
    Quotas = {2}
    Finals = {0, 2}
    Actuals = {1}
    SubTotal = 0
    MaxPollFailures = 2
    MaxGets = 0
    MaxFaults = 0
PROPERTIES
    RefundsComplete
