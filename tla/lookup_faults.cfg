SPECIFICATION Spec
CONSTANTS
    a1 = a1
    a2 = a2
    m1 = m1
    m2 = m2
    m3 = m3
    pruned = pruned
    unsupported = unsupported
    Addresses = {a1, a2}
    MessageIDs = {m1, m2, m3}
    Pruned = pruned
    Unsupported = unsupported
    MaxLedger = 5
    Tangle <- MCAnyTangle
    Faults = {"crash", "shutdown", "io"}
    SkipHealthCheck = FALSE
INVARIANTS
    TypeOK
    PublishedTablesSound
    ServedLookupExact
    HandleDiscipline
    RebuildProgress
    ServedTangleAnalysable
PROPERTIES
    NeverEditedInPlace
    PublishesAtomically
    EventuallyServes
