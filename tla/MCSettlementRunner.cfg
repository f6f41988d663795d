SPECIFICATION FairSpec
CONSTANTS
    Packet <- MCPacket
    Returns <- MCReturns
    Fickle <- MCFickle
    MaxPlanned = 6
    MaxActions = 2
    Budgets <- MCBudgets
INVARIANTS
    SentOnce
PROPERTIES
    Settles
CHECK_DEADLOCK FALSE
