SPECIFICATION Spec
CONSTANTS
    MaxRows = 4
    UintRange = 8
    Configured = {0, 2, 3, 6, 8, 9}
    PageSizes = {0, 1, 3, 5}
    TypeRange = 4
    TypeParams <- MCTypeParams
INVARIANTS
    TypeOK
    ListedInOrder
    ShortPageIsWhole
    FilterHonoured
    LimitRespected
CHECK_DEADLOCK FALSE
