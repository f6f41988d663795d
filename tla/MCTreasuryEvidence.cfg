SPECIFICATION Spec
CONSTANTS
    Accounts = {"treasury", "sponsor", "worker", "vault"}
    Treasury = "treasury"
    Contracts = {"vault"}
    SourceCoordinator = "coordinator"
    Pinned = "this treasury"
    Epochs = {"e1"}
    Config <- MCConfig
    Transactions = {"settlement", "publishing", "republishing", "failed", "forged"}
    Source <- EvidenceSource
    Attested = {"settlement", "publishing", "republishing", "failed"}
    TreeCapacity = 3
    MaxBatch = 2
    DepositAmounts = {3}
    MaxCredited = 3
    MaxForced = 1
INVARIANTS
    EvidenceBacked
    EpochWithinCap
    LatestIsNewest
PROPERTIES
    CommittedOnlyGrows
CHECK_DEADLOCK FALSE
