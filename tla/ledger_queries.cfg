SPECIFICATION Spec
CONSTANTS
    a1 = a1
    a2 = a2
    m1 = m1
    m1again = m1again
    m2 = m2
    m3 = m3
    m4 = m4
    Addresses = {a1, a2}
    MaxIndex = 4
    Genesis <- MCGenesis
    TxMessages = {m1, m1again, m2, m3, m4}
    Tx <- MCTx
    Receipts <- MCReceipts
    DustLimit = 2
    Divisor = 2
    MaxDust = 1
INVARIANTS
    HistoryAnswered
    HistoryExplainsBalance
    HistoryComplete
    SpenderResolves
    MilestoneChangesAddUp
    TreasuryCurrent
    DustAllowedHonest
    InclusionAgrees
    MilestoneResolves
CHECK_DEADLOCK FALSE
