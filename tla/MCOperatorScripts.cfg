SPECIFICATION FairSpec
CONSTANTS
    Scripts <- MCScripts
    Budgets <- MCBudgets
INVARIANTS
    SentOnce
    OffersTracked
    StagesHold
PROPERTIES
    Completes
CHECK_DEADLOCK FALSE
