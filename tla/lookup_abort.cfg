SPECIFICATION Spec
CONSTANTS
    a1 = a1
    a2 = a2
    m1 = m1
    m2 = m2
    m3 = m3
    pruned = pruned
    unsupported = unsupported
    Addresses = {a1, a2}
    MessageIDs = {m1, m2, m3}
    Pruned = pruned
    Unsupported = unsupported
    MaxLedger = 2
    Tangle <- MCTangle
    Faults = {"shutdown"}
    SkipHealthCheck = FALSE
INVARIANTS
    UpToDateTableIsComplete
