SPECIFICATION Spec
CONSTANTS
    MaxMilestones = 3
    MaxActiveReturns = 1
    MaxDrainingReturns = 4
    TreeCapacity = 13
    Cap = 6
    InitializationCutoff = 1
    AdmissionCutoff = 2
    o1 = o1
    o2 = o2
    o3 = o3
    o4 = o4
    worker = worker
    m1 = m1
    m2 = m2
    m3 = m3
    Safe = safe
    RefundBeneficiary = refund
    Orders = {o1, o2, o3, o4}
    Terms <- MCTerms
    Deliveries = {d1}
    NoDelivery = none
    Amounts = {1}
    Nonces = {1}
    MaxVersion = 3
    MaxBlock = 4
    MaxConsents = 0
    MaxPublished = 0
PROPERTIES
    SettledNeverRevived
    ImplementsBudget
INVARIANTS
    ClosedIffSettled
    SlotHeadroom
    SettlementFits
    StageInv
    SweepNeverBlocked
    LatestCheckpointIsCurrent
    CheckpointsAreFaithful
    NonceAuthorizesOneOrder
CHECK_DEADLOCK FALSE
