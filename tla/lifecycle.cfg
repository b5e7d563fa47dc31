SPECIFICATION Spec
CONSTANTS
    r1 = r1
    r2 = r2
    Requests = {r1, r2}
    InxEnabled = TRUE
INVARIANTS
    TypeOK
    NoReadAfterClose
    RouteGoesFirst
PROPERTIES
    ConnectionOutlivesDatabase
    StopsEventually
CHECK_DEADLOCK FALSE
