SPECIFICATION FairSpec
CONSTANTS
    Requests = {r1, r2}
    Profiles <- FewProfiles
    Quotas = {0, 2}
    Actuals = {0, 3}
    ToolFees = {1}
    InitWallet = 2
    InitOrg = 2
    InitToken = 4
    SubTotal = 3
    TrustQuota = 0
    ViolationFee = 0
    MaxRetries = 1
    MaxFaults = 1
    SingleWriter = FALSE
PROPERTIES
    RequestsFinish
    LedgerSpec
