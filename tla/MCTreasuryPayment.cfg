SPECIFICATION FairSpec
CONSTANTS
    Accounts = {"treasury", "sponsor", "worker", "vault"}
    Treasury = "treasury"
    Contracts = {"vault"}
    SourceCoordinator = "coordinator"
    Pinned = "this treasury"
    Epochs = {"e1"}
    Config <- MCConfig
    Transactions = {"settlement", "refund"}
    Source <- FundsSource
    Attested = {"settlement", "refund"}
    TreeCapacity = 3
    MaxBatch = 2
    DepositAmounts = {1, 3}
    MaxCredited = 4
    MaxForced = 0
PROPERTIES
    FundedWorkIsPaid
CHECK_DEADLOCK FALSE
