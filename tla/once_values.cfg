SPECIFICATION Spec
CONSTANTS
    r1 = r1
    r2 = r2
    r3 = r3
    Requests = {r1, r2, r3}
    LedgerIndexes = {1, 2}
INVARIANTS
    TypeOK
    AnswersAgree
    ZeroIndexOnlyAfterFailedLoad
    InfoTruthful
PROPERTIES
    EveryCallReturns
CHECK_DEADLOCK FALSE
