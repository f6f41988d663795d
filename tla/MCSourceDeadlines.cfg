SPECIFICATION FairSpec
CONSTANTS
    MaxMilestones = 1
    MaxActiveReturns = 1
    MaxDrainingReturns = 2
    TreeCapacity = 6
    Cap = 4
    InitializationCutoff = 1
    AdmissionCutoff = 2
    o1 = o1
    worker = worker
    m1 = m1
    m2 = m2
    m3 = m3
    Safe = safe
    RefundBeneficiary = refund
    Orders = {o1}
    Terms <- MCTerms
    Deliveries = {d1}
    NoDelivery = none
    Amounts = {1}
    Nonces = {1}
    MaxVersion = 4
    MaxBlock = 4
    MaxConsents = 2
    MaxPublished = 3
PROPERTIES
    EpochSettles
INVARIANTS
    DecisionExcludesDefault
    NeverStranded
    ReviewBindsDelivery
CHECK_DEADLOCK FALSE
