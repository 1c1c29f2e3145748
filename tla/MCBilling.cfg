SPECIFICATION Spec
CONSTANTS
    Requests = {r1, r2}
    Profiles <- AllProfiles
    Quotas = {0, 2}
    Actuals = {0, 3}
    ToolFees = {0, 1}
    InitWallet = 3
    InitOrg = 2
    InitToken = 3
    SubTotal = 3
    TrustQuota = 2
    ViolationFee = 1
    MaxRetries = 1
    MaxFaults = 1
    SingleWriter = FALSE
SYMMETRY Symmetry
INVARIANTS
    IInv
    BooksMatch
    ChargedExactly
    FailureCostsNothing
    NoQuotaCreated
    CommitExcludesRefund
    DebtIsUsage
    EndsConsistent
