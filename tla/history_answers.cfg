SPECIFICATION Spec
CONSTANTS
    a1 = a1
    a2 = a2
    r1 = r1
    r2 = r2
    Requests = {r1, r2}
    Addresses = {a1, a2}
    Items <- MCItems
    HistoryOf <- MCHistoryOf
    Limits = {2, 5}
    MimeTypes = {"json", "csv"}
    CacheSize = 1
    CsvAlone = TRUE
    ReadsFail = TRUE
INVARIANTS
    TypeOK
    CachedHistoryWhole
    JsonFollowsOrderUnlessResorted
    CsvOldestFirst
    AnswersListNewest
