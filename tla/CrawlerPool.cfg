CONSTANTS
    Task = {t1, t2}
    Janitor = janitor
    Closer = closer
    NoActor = nobody
    Sig = {s1, s2}
    Crawler = {c1, c2, c3}
    NoCrawler = none
    IDLE_TTL_SEC = 1
    MaxTime = 3
SPECIFICATION Spec
SYMMETRY Interchangeable
INVARIANTS
    TypeOK
    BookkeepingAgrees
    NoOrphanBrowser
    OneBrowserPerSig
PROPERTIES
    HandsOutOpen
    ReapRespectsTTL
    PoolChangesUnderLock
    CloseAllLeavesNoneOpen
    ImplementsLeases
CHECK_DEADLOCK TRUE
