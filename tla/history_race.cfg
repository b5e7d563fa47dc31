SPECIFICATION Spec
CONSTANTS
    a1 = a1
    a2 = a2
    r1 = r1
    r2 = r2
    Requests = {r1, r2}
    Addresses = {a1, a2}
    Items <- MCItems
    HistoryOf <- MCHistoryOf
    Limits = {5}
    MimeTypes = {"csv"}
    CacheSize = 1
    CsvAlone = FALSE
    ReadsFail = FALSE
INVARIANTS
    CachedHistoryKeepsItems
