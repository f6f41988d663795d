SPECIFICATION Spec
CONSTANTS
    MaxMilestones = 2
    MaxActiveReturns = 1
    MaxDrainingReturns = 3
    TreeCapacity = 9
    Cap = 4
    InitializationCutoff = 1
    AdmissionCutoff = 2
    o1 = o1
    worker = worker
    m1 = m1
    m2 = m2
    m3 = m3
    Safe = safe
    RefundBeneficiary = refund
    Orders = {o1}
    Terms <- MCTerms
    Deliveries = {d1}
    NoDelivery = none
    Amounts = {1}
    Nonces = {1}
    MaxVersion = 3
    MaxBlock = 4
    MaxConsents = 3
    MaxPublished = 0
SYMMETRY MemberSymmetry
INVARIANTS
    UnresolvedIsLiveReserve
    LedgerMatchesOutcomes
CHECK_DEADLOCK FALSE
