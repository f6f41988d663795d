SPECIFICATION BookSpec
CONSTANTS
    Accounts = {"treasury", "sponsor", "worker", "vault"}
    Treasury = "treasury"
    Contracts = {"vault"}
    SourceCoordinator = "coordinator"
    Pinned = "this treasury"
    Epochs = {"e1", "e2", "e3"}
    Config <- MCConfig
    Transactions = {"settlement", "refund", "later"}
    Source <- FundsSource
    Attested = {"settlement", "refund", "later"}
    TreeCapacity = 3
    MaxBatch = 2
    DepositAmounts = {1, 2}
    MaxCredited = 5
    MaxForced = 1
    ExpectedOrder = "order"
    ExpectedBuyer = "safe"
    ExpectedPolicy = "policy"
INVARIANTS
    Solvent
    TotalsMatchAccounts
    PaidOnce
    InvoicesArePayments
CHECK_DEADLOCK FALSE
