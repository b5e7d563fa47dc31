SPECIFICATION Spec
CONSTANTS
    MaxRows = 4
    UintRange = 8
    Configured = {2, 3}
    PageSizes = {2}
    TypeRange = 4
    TypeParams <- MCTypeParams
INVARIANTS
    WithinConfiguredLimit
CHECK_DEADLOCK FALSE
