SPECIFICATION Spec
CONSTANTS
    Requests = {r1}
    Profiles <- SubscriptionProfiles
    Quotas = {0, 2}
    Actuals = {0, 3}
    ToolFees = {0, 1}
    InitWallet = 3
    InitOrg = 2
    InitToken = 3
    SubTotal = 3
    TrustQuota = 0
    ViolationFee = 1
    MaxRetries = 1
    MaxFaults = 0
    SingleWriter = TRUE
INVARIANTS
    FailureCostsNothing
