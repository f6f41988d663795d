SPECIFICATION Spec
CONSTANTS
    Nothing = Nothing
    t1 = t1
    t2 = t2
    Tasks <- MCTasks
    Terms <- MCTerms
    Contents <- MCContents
    StoreLimit = 2
    SourceHistory <- MCSourceHistory
    TargetHistory <- MCTargetHistory
    Setups <- MCSetups
    Trusted <- MCTrusted
    Local = "local"
    Demo = "demo"
    SafeOf <- MCSafeOf
    Accounts <- MCAccounts
    Epochs <- MCEpochs
    PaymentClaims <- MCPaymentClaims
    Starts <- MCStarts
SYMMETRY MCSymmetry
INVARIANTS
    DeliveredOnce
    ReportsAreFaithful
PROPERTIES
    LeavesAsShown
CHECK_DEADLOCK FALSE
