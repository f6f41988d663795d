SPECIFICATION Spec
CONSTANTS
    MaxMilestones = 1
    MaxActiveReturns = 1
    MaxDrainingReturns = 2
    TreeCapacity = 6
    Cap = 3
    InitializationCutoff = 1
    AdmissionCutoff = 2
    o1 = o1
    worker = worker
    m1 = m1
    m2 = m2
    m3 = m3
    Safe = safe
    RefundBeneficiary = refund
    Orders = {o1}
    Terms <- MCTerms
    Deliveries = {d1}
    NoDelivery = none
    Amounts = {0, 2}
    Nonces = {1, 2}
    MaxVersion = 3
    MaxBlock = 4
    MaxConsents = 3
    MaxPublished = 0
SYMMETRY MemberSymmetry
INVARIANTS
    TypeOK
    QuorumIsCurrentAndExact
    MutualConsentIsCurrent
CHECK_DEADLOCK FALSE
